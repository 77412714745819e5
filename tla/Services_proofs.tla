--------------------------- MODULE Services_proofs ----------------------------
(* Proofs about the parts MCServices puts side by side: StartUp, what the      *)
(* starts of an instance write, for every set of counters, kinds of            *)
(* credentials, integrations, scenarios, images and configurations;            *)
(* AdminAccess, who gets in, for every set of tabs and both session limits;    *)
(* DemoMerchant, for any lives of tokens and caches, any clocks and any number *)
(* of callbacks; CheckoutPage, for any number of loads, submissions and events. *)
(*                                                                             *)
(* StartsSound is not inductive: it says nothing of a start that is half done. *)
(* StepsDone says what each step leaves behind, CountersAhead that a counter   *)
(* has passed every number it gave, OneCredential that a kind never gets a     *)
(* second row, and RecordedRows that what signed something is still there.     *)
(*                                                                             *)
(* AccessSound needs three things more: the shapes of the tables, that the two *)
(* expiries of a living session are its limits counted from its creation and   *)
(* from its last look, and that the bootstrap row is spent exactly when a      *)
(* bootstrap session exists.                                                   *)
(*                                                                             *)
(* The merchant and the page rest on what is under way to them: a signed       *)
(* callback, the answer to an inquiry, an event of a log, the answer to the    *)
(* request for a session tell a status the payment has or has passed.  Bodies  *)
(* stay what they are: all that is used of one is StatusOf, the status the     *)
(* merchant reads in it.                                                       *)
EXTENDS StartUp, AdminAccess, DemoMerchant, CheckoutPage, FiniteSetTheorems, TLAPS

-----------------------------------------------------------------------------
(* What a start writes. *)

Steps == {"down", "counters", "credentials", "integrations", "scenarios", "up"}

StartTypes ==
  /\ step \in Steps
  /\ counters \in [DOMAIN counters -> Nat]
  /\ issued \in Seq(CounterKeys \X Nat)

StepsDone ==
  /\ step \notin {"down", "counters"} => CounterKeys \subseteq DOMAIN counters
  /\ step \in {"integrations", "scenarios", "up"} => Unseeded = {}
  /\ step \in {"scenarios", "up"} => Stale(integrations, boot.integrations) = {}
  /\ step = "up" => Stale(definitions, BuiltIns) = {}

CountersAhead ==
  \A i \in DOMAIN issued :
    issued[i][1] \in DOMAIN counters /\ issued[i][2] < counters[issued[i][1]]

OneCredential ==
  /\ \A row \in credentials : row.version = 1 /\ row.active
  /\ \A row, other \in credentials : row.kind = other.kind => row = other

RecordedRows ==
  \A r \in recorded : \E row \in credentials :
    row.kind = r[1] /\ row.version = r[2] /\ row.value = r[3]

StartInv ==
  /\ StartTypes
  /\ StepsDone
  /\ CountersAhead
  /\ IdsNeverReused
  /\ OneCredential
  /\ RecordedRows

-----------------------------------------------------------------------------
LEMMA StartInitInv == StartInit => StartInv
  BY DEF StartInit, StartInv, StartTypes, Steps, StepsDone, CountersAhead, IdsNeverReused,
         OneCredential, RecordedRows

LEMMA LaunchPreserves ==
  ASSUME StartInv, NEW given, Launch(given)
  PROVE  StartInv'
  BY DEF StartInv, Launch, StartTypes, Steps, StepsDone, CountersAhead, IdsNeverReused,
         OneCredential, RecordedRows

LEMMA EnsureIdCountersPreserves ==
  ASSUME StartInv, NEW key \in CounterKeys, EnsureIdCounters(key)
  PROVE  StartInv'
<1>1. /\ step = "counters" /\ step' = step /\ key \notin DOMAIN counters
      /\ DOMAIN counters' = DOMAIN counters \cup {key} /\ counters'[key] = 0
      /\ \A other \in DOMAIN counters : counters'[other] = counters[other]
      /\ UNCHANGED <<boot, credentials, integrations, definitions, issued, recorded>>
  <2>1. /\ step = "counters" /\ key \notin DOMAIN counters /\ counters' = Sets(counters, key, 0)
        /\ UNCHANGED <<step, boot, credentials, integrations, definitions, issued, recorded>>
    BY DEF EnsureIdCounters
  <2>2. /\ DOMAIN counters' = DOMAIN counters \cup {key} /\ counters'[key] = 0
        /\ \A other \in DOMAIN counters : other # key => counters'[other] = counters[other]
    BY <2>1 DEF Sets
  <2> QED
    BY <2>1, <2>2
<1>2. StartTypes'
  BY <1>1 DEF EnsureIdCounters, Sets, StartInv, StartTypes
<1>3. StepsDone'
  BY <1>1 DEF StartInv, StepsDone
<1>4. CountersAhead' /\ IdsNeverReused' /\ OneCredential' /\ RecordedRows'
  BY <1>1 DEF StartInv, CountersAhead, IdsNeverReused, OneCredential, RecordedRows
<1> QED
  BY <1>2, <1>3, <1>4 DEF StartInv

LEMMA EnsureCredentialsSeededPreserves ==
  ASSUME StartInv, NEW kind \in Kinds, EnsureCredentialsSeeded(kind)
  PROVE  StartInv'
<1> DEFINE fresh == [kind |-> kind, version |-> 1, value |-> boot.credentials[kind], active |-> TRUE]
<1>1. /\ step = "credentials" /\ credentials' = credentials \cup {fresh}
      /\ UNCHANGED <<step, boot, counters, integrations, definitions, issued, recorded>>
  BY DEF EnsureCredentialsSeeded
<1>2. \A row \in credentials : row.kind # kind
  <2>1. ActiveOf(kind) = {}
    BY DEF EnsureCredentialsSeeded, Unseeded
  <2>2. \A row \in credentials : row.active
    BY DEF StartInv, OneCredential
  <2> QED
    BY <2>1, <2>2 DEF ActiveOf
<1>3. OneCredential'
  <2>1. fresh.version = 1 /\ fresh.kind = kind
    OBVIOUS
  <2>2. fresh.active
    BY Zenon
  <2> HIDE DEF fresh
  <2> QED
    BY <1>1, <1>2, <2>1, <2>2 DEF StartInv, OneCredential
<1>4. RecordedRows'
  BY <1>1 DEF StartInv, RecordedRows
<1>5. StartTypes' /\ StepsDone' /\ CountersAhead' /\ IdsNeverReused'
  BY <1>1 DEF StartInv, StartTypes, StepsDone, CountersAhead, IdsNeverReused
<1> QED
  BY <1>3, <1>4, <1>5 DEF StartInv

LEMMA SyncPreserves ==
  ASSUME StartInv,
         \/ \E id \in Integrations : SyncIntegration(id)
         \/ \E id \in BuiltIns : SyncBuiltInScenario(id)
  PROVE  StartInv'
<1>1. /\ step \in {"integrations", "scenarios"}
      /\ step = "scenarios" => UNCHANGED integrations
      /\ UNCHANGED <<step, boot, counters, credentials, issued, recorded>>
  BY DEF SyncIntegration, SyncBuiltInScenario
<1>2. Unseeded' = Unseeded
  BY <1>1 DEF Unseeded, ActiveOf
<1>3. StepsDone'
  BY <1>1, <1>2 DEF StartInv, StepsDone, Stale
<1>4. /\ StartTypes' /\ CountersAhead' /\ IdsNeverReused' /\ OneCredential' /\ RecordedRows'
  BY <1>1 DEF StartInv, StartTypes, CountersAhead, IdsNeverReused, OneCredential, RecordedRows
<1> QED
  BY <1>3, <1>4 DEF StartInv

LEMMA NextStepPreserves ==
  ASSUME StartInv, NextStep \/ Kill
  PROVE  StartInv'
<1>1. UNCHANGED <<boot, counters, credentials, integrations, definitions, issued, recorded>>
  BY DEF NextStep, Kill
<1>2. /\ Unseeded' = Unseeded
      /\ Stale(integrations, boot.integrations)' = Stale(integrations, boot.integrations)
      /\ Stale(definitions, BuiltIns)' = Stale(definitions, BuiltIns)
  BY <1>1 DEF Unseeded, ActiveOf, Stale
<1>3. step' \in Steps /\ StepsDone'
  BY <1>1, <1>2 DEF NextStep, Kill, StartInv, StepsDone, Steps
<1>4. StartTypes' /\ CountersAhead' /\ IdsNeverReused' /\ OneCredential' /\ RecordedRows'
  BY <1>1, <1>3 DEF StartInv, StartTypes, CountersAhead, IdsNeverReused, OneCredential,
                    RecordedRows
<1> QED
  BY <1>3, <1>4 DEF StartInv

(* A number that was given is smaller than the counter, so the next is new.    *)
LEMMA AllocateIdPreserves ==
  ASSUME StartInv, NEW key \in CounterKeys, AllocateId(key)
  PROVE  StartInv'
<1> DEFINE n == Len(issued) + 1
<1>0. StartTypes /\ StepsDone /\ CountersAhead /\ IdsNeverReused
  BY DEF StartInv
<1>1. /\ step = "up" /\ key \in DOMAIN counters
      /\ counters \in [DOMAIN counters -> Nat] /\ counters[key] \in Nat
      /\ issued \in Seq(CounterKeys \X Nat)
      /\ counters' = [counters EXCEPT ![key] = counters[key] + 1]
      /\ issued' = Append(issued, <<key, counters[key]>>)
      /\ UNCHANGED <<step, boot, credentials, integrations, definitions, recorded>>
  BY <1>0 DEF AllocateId, StartTypes, StepsDone
<1>2. /\ DOMAIN counters' = DOMAIN counters
      /\ counters' \in [DOMAIN counters' -> Nat]
      /\ counters'[key] = counters[key] + 1
      /\ \A other \in DOMAIN counters \ {key} : counters'[other] = counters[other]
  BY <1>1
<1>3. /\ issued' \in Seq(CounterKeys \X Nat)
      /\ DOMAIN issued' = DOMAIN issued \cup {n}
      /\ issued'[n] = <<key, counters[key]>>
      /\ \A i \in DOMAIN issued : issued'[i] = issued[i] /\ issued[i][2] \in Nat
  BY <1>1
<1>4. StartTypes'
  BY <1>0, <1>1, <1>2, <1>3 DEF StartTypes
<1>5. Unseeded' = Unseeded /\ StepsDone'
  BY <1>0, <1>1, <1>2 DEF StepsDone, Unseeded, ActiveOf, Stale
<1>6. CountersAhead'
  <2> SUFFICES ASSUME NEW i \in DOMAIN issued'
               PROVE  issued'[i][1] \in DOMAIN counters' /\ issued'[i][2] < counters'[issued'[i][1]]
    BY DEF CountersAhead
  <2>1. CASE i = n
    BY <1>1, <1>2, <1>3, <2>1
  <2>2. CASE i \in DOMAIN issued
    <3>1. /\ issued[i][1] \in DOMAIN counters /\ issued[i][2] < counters[issued[i][1]]
          /\ counters[issued[i][1]] \in Nat /\ issued[i][2] \in Nat
      BY <1>0, <1>1, <1>3, <2>2 DEF CountersAhead
    <3>2. counters'[issued[i][1]] \in {counters[issued[i][1]], counters[issued[i][1]] + 1}
      BY <1>2, <3>1
    <3> QED
      BY <1>2, <1>3, <2>2, <3>1, <3>2
  <2> QED
    BY <1>3, <2>1, <2>2
<1>7. IdsNeverReused'
  <2>1. \A i \in DOMAIN issued : issued[i] # <<key, counters[key]>>
    BY <1>0, <1>1, <1>3 DEF CountersAhead
  <2> QED
    BY <1>0, <1>3, <2>1 DEF IdsNeverReused
<1>8. OneCredential' /\ RecordedRows'
  BY <1>1 DEF StartInv, OneCredential, RecordedRows
<1> QED
  BY <1>4, <1>5, <1>6, <1>7, <1>8 DEF StartInv

LEMMA RecordPreserves ==
  ASSUME StartInv, NEW kind \in Kinds, NEW provided \in Secrets, Record(kind, provided)
  PROVE  StartInv'
<1> DEFINE row == GetActiveCredential(kind)
<1>1. /\ recorded' = recorded \cup {<<kind, row.version, provided>>}
      /\ UNCHANGED <<step, boot, counters, credentials, integrations, definitions, issued>>
      /\ ActiveOf(kind) # {} /\ row.value = provided
  BY DEF Record, VerifyActiveCredential
<1>2. row \in credentials /\ row.kind = kind
  BY <1>1 DEF GetActiveCredential, ActiveOf
<1>3. RecordedRows'
  BY <1>1, <1>2 DEF StartInv, RecordedRows
<1>4. /\ StartTypes' /\ StepsDone' /\ CountersAhead' /\ IdsNeverReused' /\ OneCredential'
  BY <1>1 DEF StartInv, StartTypes, StepsDone, CountersAhead, IdsNeverReused, OneCredential,
              Unseeded, ActiveOf, Stale
<1> QED
  BY <1>3, <1>4 DEF StartInv

LEMMA StartNextInv == StartInv /\ [StartNext]_startVars => StartInv'
<1> SUFFICES ASSUME StartInv, [StartNext]_startVars PROVE StartInv'
  OBVIOUS
<1>1. ASSUME NEW given \in Boots, Launch(given) PROVE StartInv'
  BY <1>1, LaunchPreserves
<1>2. ASSUME NEW key \in CounterKeys, EnsureIdCounters(key) \/ AllocateId(key) PROVE StartInv'
  BY <1>2, EnsureIdCountersPreserves, AllocateIdPreserves
<1>3. ASSUME NEW kind \in Kinds, EnsureCredentialsSeeded(kind) PROVE StartInv'
  BY <1>3, EnsureCredentialsSeededPreserves
<1>4. ASSUME NEW kind \in Kinds, NEW provided \in Secrets, Record(kind, provided) PROVE StartInv'
  BY <1>4, RecordPreserves
<1>5. CASE UNCHANGED startVars
  BY <1>5 DEF startVars, StartInv, StartTypes, StepsDone, CountersAhead, IdsNeverReused,
              OneCredential, RecordedRows, Unseeded, ActiveOf, Stale
<1> QED
  BY <1>1, <1>2, <1>3, <1>4, <1>5, SyncPreserves, NextStepPreserves DEF StartNext

THEOREM StartInvariance == StartSpec => []StartInv
  BY StartInitInv, StartNextInv, PTL DEF StartSpec

-----------------------------------------------------------------------------
(* No identifier is handed out twice, however many starts lie between the two. *)
THEOREM IdsFresh == StartSpec => []IdsNeverReused
<1>1. StartInv => IdsNeverReused
  BY DEF StartInv
<1> QED
  BY <1>1, StartInvariance, PTL

(* A start, finished or killed, of whatever image and configuration, completes *)
(* what the earlier ones left and takes nothing of it back.                    *)
THEOREM StartsComplete == StartSpec => []StartsSound
<1>1. StartInv => UpIsComplete
  <2> SUFFICES ASSUME StartInv, step = "up", NEW kind \in Kinds
               PROVE  Cardinality(ActiveOf(kind)) = 1
    BY DEF UpIsComplete, StartInv, StepsDone
  <2>1. PICK row : row \in ActiveOf(kind)
    BY DEF StartInv, StepsDone, Unseeded
  <2>2. ActiveOf(kind) = {row}
    BY <2>1 DEF StartInv, OneCredential, ActiveOf
  <2> QED
    BY <2>2, FS_Singleton
<1>2. StartInv => RecordedSecretStays
  <2> SUFFICES ASSUME StartInv, NEW r \in recorded
               PROVE  GetCredentialByVersion(r[1], r[2]) = {r[3]}
    BY DEF RecordedSecretStays
  <2>1. PICK row \in credentials : row.kind = r[1] /\ row.version = r[2] /\ row.value = r[3]
    BY DEF StartInv, RecordedRows
  <2>2. \A other \in credentials : other.kind = r[1] => other = row
    BY <2>1 DEF StartInv, OneCredential
  <2> QED
    BY <2>1, <2>2 DEF GetCredentialByVersion
<1>3. StartInv => StartsSound
  BY <1>1, <1>2 DEF StartsSound, StartInv
<1> QED
  BY <1>3, StartInvariance, PTL

-----------------------------------------------------------------------------
(* Who gets in.                                                                *)

Tab == [page : {"checking", "out", "in"}, csrf : Nat, token : {"none", "right", "wrong"}]

AdminShapes ==
  /\ adminNow \in Nat
  /\ sessions \in Seq(AdminSession)
  /\ tabs \in [Tabs -> Tab]

LimitsKept ==
  \A s \in DOMAIN sessions : sessions[s].live =>
    /\ sessions[s].absolute = sessions[s].created + SessionAbsolute
    /\ sessions[s].idle = sessions[s].touched + SessionIdle

AccessInv ==
  /\ AdminTypeOK
  /\ AdminShapes
  /\ LimitsKept
  /\ TokenBuysSession
  /\ ServedWithinLife
  /\ WritesCarryCsrf

-----------------------------------------------------------------------------
(* What one action does to the pages and the rows of sessions.                 *)

LEMMA SetTabShape ==
  ASSUME AdminShapes, NEW t \in Tabs, NEW page \in {"out", "in"}, NEW csrf \in Nat,
         SetTab(t, page, csrf)
  PROVE  /\ tabs' \in [Tabs -> Tab]
         /\ tabs'[t].page = page /\ tabs'[t].csrf = csrf
         /\ \A u \in Tabs : u # t => tabs'[u] = tabs[u]
<1> DEFINE tab == [tabs[t] EXCEPT !.page = page, !.csrf = csrf, !.token = "none"]
<1>1. tabs \in [Tabs -> Tab] /\ tabs[t] \in Tab
  BY DEF AdminShapes
<1>2. tab \in Tab /\ tab.page = page /\ tab.csrf = csrf
  BY <1>1 DEF Tab
<1>3. tabs' = [tabs EXCEPT ![t] = tab]
  BY <1>1 DEF SetTab
<1> QED
  BY <1>1, <1>2, <1>3

LEMMA CreatedSession ==
  ASSUME AdminShapes, NEW by \in {"bootstrap", "login"}
  PROVE  /\ CreateNewSession(by) \in AdminSession
         /\ CreateNewSession(by).by = by
         /\ CreateNewSession(by).absolute = CreateNewSession(by).created + SessionAbsolute
         /\ CreateNewSession(by).idle = CreateNewSession(by).touched + SessionIdle
  BY AdminAssumption DEF CreateNewSession, AdminSession, AdminShapes

LEMMA DeletedSession ==
  ASSUME NEW s \in AdminSession
  PROVE  Deleted(s) \in AdminSession /\ ~Deleted(s).live /\ Deleted(s).by = s.by
<1>1. Deleted(s) \in AdminSession /\ Deleted(s).by = s.by
  BY DEF Deleted, AdminSession
<1>2. Deleted(s).live = FALSE
  BY DEF Deleted, AdminSession
<1> QED
  BY <1>1, <1>2, Zenon

(* A step that touches neither rows, cookie nor clock, and serves nothing.     *)
LEMMA QuietStep ==
  ASSUME AccessInv, UNCHANGED <<sessions, cookie, bootRow>>, served' = Nothing,
         adminNow' \in Nat, tabs' \in [Tabs -> Tab],
         \A t \in Tabs : tabs'[t].csrf \in 0 .. Len(sessions)
                         /\ (tabs'[t].page = "in") = (tabs'[t].csrf # 0),
         proc' \in {"down", "hashing", "stored", "up"},
         proc' = "hashing" => bootRow = "none"
  PROVE  AccessInv'
<1>1. AdminTypeOK' /\ AdminShapes'
  BY DEF AccessInv, AdminTypeOK, AdminShapes
<1>2. LimitsKept' /\ TokenBuysSession'
  BY DEF AccessInv, LimitsKept, TokenBuysSession
<1>3. ServedWithinLife' /\ WritesCarryCsrf'
  BY DEF Nothing, ServedWithinLife, WritesCarryCsrf
<1> QED
  BY <1>1, <1>2, <1>3 DEF AccessInv

(* The whole of the invariant, of a step that changes the rows of sessions.    *)
LEMMA RowsStep ==
  ASSUME AccessInv, sessions' \in Seq(AdminSession), Len(sessions') >= Len(sessions),
         \A s \in DOMAIN sessions : sessions'[s].by = sessions[s].by,
         LimitsKept', TokenBuysSession',
         bootRow' \in {"none", "fresh", "consumed"},
         UNCHANGED <<adminNow, proc>>, proc = "up", served' = Nothing,
         cookie' \in 0 .. Len(sessions'),
         NEW t \in Tabs, NEW page \in {"out", "in"}, NEW csrf \in 0 .. Len(sessions'),
         SetTab(t, page, csrf), (page = "in") = (csrf # 0)
  PROVE  AccessInv'
<1>0. AdminTypeOK /\ AdminShapes
  BY DEF AccessInv
<1>1. Len(sessions) \in Nat /\ Len(sessions') \in Nat /\ csrf \in Nat
  BY <1>0 DEF AdminShapes
<1>2. /\ tabs' \in [Tabs -> Tab]
      /\ tabs'[t].page = page /\ tabs'[t].csrf = csrf
      /\ \A u \in Tabs : u # t => tabs'[u] = tabs[u]
  BY <1>0, <1>1, SetTabShape
<1>3. AdminShapes'
  BY <1>0, <1>2 DEF AdminShapes
<1>4. \A u \in Tabs : tabs'[u].csrf \in 0 .. Len(sessions')
                      /\ (tabs'[u].page = "in") = (tabs'[u].csrf # 0)
  <2> SUFFICES ASSUME NEW u \in Tabs
               PROVE  tabs'[u].csrf \in 0 .. Len(sessions')
                      /\ (tabs'[u].page = "in") = (tabs'[u].csrf # 0)
    OBVIOUS
  <2>1. CASE u = t
    BY <1>2, <2>1
  <2>2. CASE u # t
    BY <1>0, <1>1, <1>2, <2>2 DEF AdminTypeOK
  <2> QED
    BY <2>1, <2>2
<1>5. AdminTypeOK'
  <2>1. \A s \in DOMAIN sessions' : sessions'[s] \in AdminSession
    OBVIOUS
  <2> QED
    BY <1>0, <1>4, <2>1 DEF AdminTypeOK
<1>6. ServedWithinLife' /\ WritesCarryCsrf'
  BY DEF Nothing, ServedWithinLife, WritesCarryCsrf
<1> QED
  BY <1>3, <1>5, <1>6 DEF AccessInv

(* A new session is appended, and the page that asked for it is in.            *)
LEMMA AdmitPreserves ==
  ASSUME AccessInv, NEW t \in Tabs, NEW by \in {"bootstrap", "login"}, Admit(t, by),
         bootRow' = IF by = "bootstrap" THEN "consumed" ELSE bootRow,
         UNCHANGED <<adminNow, proc>>, proc = "up", served' = Nothing
  PROVE  AccessInv'
<1> DEFINE n == Len(sessions) + 1
           row == CreateNewSession(by)
<1>0. AdminShapes /\ LimitsKept /\ TokenBuysSession /\ AdminTypeOK
  BY DEF AccessInv
<1>1. /\ sessions \in Seq(AdminSession) /\ Len(sessions) \in Nat
      /\ sessions' = Append(sessions, row) /\ cookie' = n /\ SetTab(t, "in", n)
  BY <1>0 DEF Admit, AdminShapes
<1>2. /\ row \in AdminSession /\ row.by = by
      /\ row.absolute = row.created + SessionAbsolute /\ row.idle = row.touched + SessionIdle
  BY <1>0, CreatedSession
<1> HIDE DEF row
<1>3. /\ sessions' \in Seq(AdminSession) /\ Len(sessions') = n
      /\ DOMAIN sessions' = DOMAIN sessions \cup {n} /\ sessions'[n] = row
      /\ \A s \in DOMAIN sessions : sessions'[s] = sessions[s]
  BY <1>1, <1>2
<1>4. LimitsKept'
  BY <1>0, <1>2, <1>3 DEF LimitsKept
<1>5. TokenBuysSession'
  <2>1. CASE by = "bootstrap"
    BY <1>2, <1>3, <2>1 DEF TokenBuysSession
  <2>2. CASE by # "bootstrap"
    <3>1. bootRow' = bootRow
      BY <2>2
    <3>2. sessions'[n].by # "bootstrap"
      BY <1>2, <1>3, <2>2
    <3> HIDE DEF n
    <3>3. (\E s \in DOMAIN sessions' : sessions'[s].by = "bootstrap")
          <=> \E s \in DOMAIN sessions : sessions[s].by = "bootstrap"
      BY <1>3, <3>2
    <3> QED
      BY <1>0, <3>1, <3>3 DEF TokenBuysSession
  <2> QED
    BY <2>1, <2>2
<1>6. bootRow' \in {"none", "fresh", "consumed"}
  BY <1>0 DEF AdminTypeOK
<1>7. n \in 0 .. Len(sessions') /\ n # 0 /\ Len(sessions') >= Len(sessions)
  BY <1>1, <1>3
<1>8. \A s \in DOMAIN sessions : sessions'[s].by = sessions[s].by
  BY <1>3
<1> HIDE DEF n
<1> QED
  BY <1>1, <1>3, <1>4, <1>5, <1>6, <1>7, <1>8, RowsStep

(* A valid cookie: the row it names is looked at, and lives on within limits.  *)
LEMMA LoadPagePreserves ==
  ASSUME AccessInv, NEW t \in Tabs, LoadPage(t)
  PROVE  AccessInv'
<1>0. AdminShapes /\ LimitsKept /\ TokenBuysSession /\ AdminTypeOK
  BY DEF AccessInv
<1>1. /\ sessions \in Seq(AdminSession) /\ Len(sessions) \in Nat /\ cookie \in 0 .. Len(sessions)
      /\ proc = "up" /\ served' = Nothing /\ UNCHANGED <<adminNow, proc, cookie, bootRow>>
      /\ bootRow \in {"none", "fresh", "consumed"} /\ adminNow \in Nat
  BY <1>0 DEF AdminShapes, AdminTypeOK, LoadPage
<1>2. CASE ~FindValidSession(cookie)
  <2>1. SetTab(t, "out", 0) /\ UNCHANGED sessions
    BY <1>2 DEF LoadPage
  <2>2. LimitsKept' /\ TokenBuysSession'
    BY <1>0, <1>1, <2>1 DEF LimitsKept, TokenBuysSession
  <2> QED
    BY <1>1, <2>1, <2>2, RowsStep
<1>3. CASE FindValidSession(cookie)
  <2>1. /\ SetTab(t, "in", cookie)
        /\ sessions' = [sessions EXCEPT ![cookie].idle = adminNow + SessionIdle,
                                        ![cookie].touched = adminNow]
        /\ cookie # 0
    BY <1>3 DEF LoadPage, TouchSessionIdleExpiry, FindValidSession
  <2> DEFINE idle == adminNow + SessionIdle
             row == [sessions[cookie] EXCEPT !.idle = idle, !.touched = adminNow]
  <2>2. cookie \in DOMAIN sessions /\ sessions[cookie] \in AdminSession
    BY <1>1, <2>1
  <2>3. /\ row \in AdminSession /\ row.by = sessions[cookie].by
        /\ row.live = sessions[cookie].live
        /\ row.absolute = sessions[cookie].absolute /\ row.created = sessions[cookie].created
        /\ row.idle = row.touched + SessionIdle
    <3>1. idle \in Nat
      BY <1>1, AdminAssumption
    <3> HIDE DEF idle
    <3>2. row \in AdminSession /\ row.by = sessions[cookie].by
          /\ row.absolute = sessions[cookie].absolute /\ row.created = sessions[cookie].created
          /\ row.idle = idle /\ row.touched = adminNow
      BY <1>1, <2>2, <3>1 DEF AdminSession
    <3>3. row.live = sessions[cookie].live
      BY <2>2 DEF AdminSession
    <3> QED
      BY <3>2, <3>3 DEF idle
  <2>4. sessions' = [sessions EXCEPT ![cookie] = row]
    BY <1>1, <2>1, <2>2
  <2> HIDE DEF row
  <2>5. /\ sessions' \in Seq(AdminSession) /\ Len(sessions') = Len(sessions)
        /\ DOMAIN sessions' = DOMAIN sessions /\ sessions'[cookie] = row
        /\ \A s \in DOMAIN sessions : s # cookie => sessions'[s] = sessions[s]
    BY <1>1, <2>2, <2>3, <2>4
  <2>6. LimitsKept'
    BY <1>0, <2>2, <2>3, <2>5 DEF LimitsKept
  <2>7. \A s \in DOMAIN sessions : sessions'[s].by = sessions[s].by
    BY <2>3, <2>5
  <2>8. TokenBuysSession'
    BY <1>0, <1>1, <2>5, <2>7 DEF TokenBuysSession
  <2> QED
    BY <1>1, <2>1, <2>5, <2>6, <2>7, <2>8, RowsStep
<1> QED
  BY <1>2, <1>3

LEMMA LogoutPreserves ==
  ASSUME AccessInv, NEW t \in Tabs, Logout(t)
  PROVE  AccessInv'
<1>0. AdminShapes /\ LimitsKept /\ TokenBuysSession /\ AdminTypeOK
  BY DEF AccessInv
<1>1. /\ sessions \in Seq(AdminSession) /\ Len(sessions) \in Nat /\ cookie \in 0 .. Len(sessions)
      /\ proc = "up" /\ served' = Nothing /\ UNCHANGED <<adminNow, proc, bootRow>>
      /\ bootRow \in {"none", "fresh", "consumed"}
      /\ cookie' = 0 /\ SetTab(t, "out", 0)
      /\ sessions' = IF cookie = 0 THEN sessions
                     ELSE [sessions EXCEPT ![cookie] = Deleted(sessions[cookie])]
  BY <1>0 DEF AdminShapes, AdminTypeOK, Logout
<1>2. CASE cookie = 0
  <2>1. LimitsKept' /\ TokenBuysSession'
    BY <1>0, <1>1, <1>2 DEF LimitsKept, TokenBuysSession
  <2> QED
    BY <1>1, <1>2, <2>1, RowsStep
<1>3. CASE cookie # 0
  <2>1. cookie \in DOMAIN sessions /\ sessions[cookie] \in AdminSession
    BY <1>1, <1>3
  <2>2. /\ Deleted(sessions[cookie]) \in AdminSession /\ ~Deleted(sessions[cookie]).live
        /\ Deleted(sessions[cookie]).by = sessions[cookie].by
    BY <2>1, DeletedSession
  <2>3. /\ sessions' \in Seq(AdminSession) /\ Len(sessions') = Len(sessions)
        /\ DOMAIN sessions' = DOMAIN sessions /\ sessions'[cookie] = Deleted(sessions[cookie])
        /\ \A s \in DOMAIN sessions : s # cookie => sessions'[s] = sessions[s]
    BY <1>1, <1>3, <2>1, <2>2
  <2>4. LimitsKept'
    BY <1>0, <2>2, <2>3 DEF LimitsKept
  <2>5. \A s \in DOMAIN sessions : sessions'[s].by = sessions[s].by
    BY <2>2, <2>3
  <2>6. TokenBuysSession'
    BY <1>0, <1>1, <2>3, <2>5 DEF TokenBuysSession
  <2> QED
    BY <1>1, <2>3, <2>4, <2>5, <2>6, RowsStep
<1> QED
  BY <1>2, <1>3

(* A request is served only within both limits of a living session.            *)
LEMMA RequestPreserves ==
  ASSUME AccessInv, BearerRequest \/ \E t \in Tabs, write \in BOOLEAN : AdminRequest(t, write)
  PROVE  AccessInv'
<1>0. AdminShapes /\ LimitsKept /\ TokenBuysSession /\ AdminTypeOK
  BY DEF AccessInv
<1>1. UNCHANGED <<proc, adminEnv, adminNow, manual, bootRow, printed, sessions, cookie, tabs>>
  BY DEF BearerRequest, AdminRequest
<1>2. AdminTypeOK' /\ AdminShapes' /\ LimitsKept' /\ TokenBuysSession'
  BY <1>0, <1>1 DEF AdminTypeOK, AdminShapes, LimitsKept, TokenBuysSession
<1>3. ASSUME served'.session # 0
      PROVE  served'.session = cookie /\ FindValidSession(cookie)
  BY <1>3 DEF BearerRequest, AdminRequest, AuthenticateAdminRequest, Nothing
<1>4. ServedWithinLife'
  <2> SUFFICES ASSUME served'.session # 0
               PROVE  LET s == sessions[cookie] IN
                      /\ s.live
                      /\ adminNow - s.created <= SessionAbsolute
                      /\ adminNow - s.touched <= SessionIdle
    BY <1>1, <1>3 DEF ServedWithinLife
  <2>1. /\ cookie \in DOMAIN sessions /\ sessions[cookie].live
        /\ adminNow <= sessions[cookie].idle /\ adminNow <= sessions[cookie].absolute
    BY <1>0, <1>3 DEF FindValidSession, AdminTypeOK, AdminShapes
  <2>2. sessions[cookie] \in AdminSession /\ adminNow \in Nat
    BY <1>0, <2>1 DEF AdminTypeOK, AdminShapes
  <2> QED
    BY <1>0, <2>1, <2>2, AdminAssumption DEF LimitsKept, AdminSession
<1>5. WritesCarryCsrf'
  BY DEF WritesCarryCsrf, BearerRequest, AdminRequest, AuthenticateAdminRequest, Nothing
<1> QED
  BY <1>2, <1>4, <1>5 DEF AccessInv
-----------------------------------------------------------------------------
(* The process and the exchange of tokens.                                     *)

LEMMA InitAccess ==
  ASSUME AdminInit
  PROVE  AccessInv
<1>1. Checking \in Tab /\ Checking.csrf = 0 /\ Checking.page = "checking"
  BY DEF Checking, Tab
<1>2. AdminTypeOK
  BY <1>1 DEF AdminInit, AdminTypeOK
<1>3. AdminShapes /\ LimitsKept
  BY <1>1 DEF AdminInit, AdminShapes, LimitsKept
<1>4. TokenBuysSession /\ ServedWithinLife /\ WritesCarryCsrf
  BY DEF AdminInit, TokenBuysSession, ServedWithinLife, WritesCarryCsrf, Nothing
<1> QED
  BY <1>2, <1>3, <1>4 DEF AccessInv

LEMMA ProcessPreserves ==
  ASSUME AccessInv, Start \/ StoreToken \/ PrintToken \/ Stop \/ AdminTick
  PROVE  AccessInv'
<1>0. AdminShapes /\ AdminTypeOK /\ adminNow \in Nat
  BY DEF AccessInv, AdminShapes
<1>1. CASE Start \/ PrintToken
  <2>1. /\ UNCHANGED <<sessions, cookie, bootRow, tabs, adminNow>> /\ served' = Nothing
        /\ proc' \in {"hashing", "up"} /\ (proc' = "hashing" => bootRow = "none")
    BY <1>1 DEF Start, PrintToken
  <2> QED
    BY <1>0, <2>1, QuietStep DEF AdminShapes, AdminTypeOK
<1>2. CASE AdminTick
  BY <1>0, <1>2, QuietStep DEF AdminTick, AdminShapes, AdminTypeOK
<1>3. CASE Stop
  <2>1. tabs' \in [Tabs -> Tab]
        /\ \A t \in Tabs : tabs'[t].csrf = tabs[t].csrf /\ tabs'[t].page = tabs[t].page
    BY <1>0, <1>3 DEF Stop, AdminShapes, Tab
  <2>2. /\ UNCHANGED <<sessions, cookie, bootRow>> /\ served' = Nothing
        /\ proc' = "down" /\ adminNow' \in Nat
    BY <1>0, <1>3 DEF Stop
  <2>3. \A t \in Tabs : tabs'[t].csrf \in 0 .. Len(sessions)
                        /\ (tabs'[t].page = "in") = (tabs'[t].csrf # 0)
    BY <1>0, <2>1 DEF AdminTypeOK
  <2> QED
    BY <2>1, <2>2, <2>3, QuietStep
<1>4. CASE StoreToken
  <2>1. /\ UNCHANGED <<sessions, cookie, tabs, adminNow>> /\ served' = Nothing
        /\ proc' = "stored" /\ bootRow' = "fresh"
    BY <1>4 DEF StoreToken
  <2>2. AdminTypeOK' /\ AdminShapes'
    BY <1>0, <2>1 DEF AdminTypeOK, AdminShapes
  <2>3. LimitsKept'
    BY <2>1 DEF AccessInv, LimitsKept
  <2>4. ServedWithinLife' /\ WritesCarryCsrf'
    BY <2>1 DEF ServedWithinLife, WritesCarryCsrf, Nothing
  <2>5. TokenBuysSession'
    BY <1>0, <1>4, <2>1 DEF AccessInv, TokenBuysSession, AdminTypeOK, StoreToken
  <2> QED
    BY <2>2, <2>3, <2>4, <2>5 DEF AccessInv
<1> QED
  BY <1>1, <1>2, <1>3, <1>4

(* A right token consumes the row and leaves a session; a wrong one leaves     *)
(* everything but the page.                                                    *)
LEMMA BootstrapPreserves ==
  ASSUME AccessInv, NEW t \in Tabs,
         FinishBootstrap(t) \/ \E token \in {"right", "wrong"} : BeginBootstrap(t, token)
  PROVE  AccessInv'
<1>0. AdminShapes /\ AdminTypeOK /\ adminNow \in Nat /\ LimitsKept /\ TokenBuysSession
  BY DEF AccessInv, AdminShapes
<1>1. CASE \E token \in {"right", "wrong"} : BeginBootstrap(t, token)
  <2> PICK token \in {"right", "wrong"} : BeginBootstrap(t, token)
    BY <1>1
  <2>1. tabs' \in [Tabs -> Tab]
        /\ \A u \in Tabs : tabs'[u].csrf = tabs[u].csrf /\ tabs'[u].page = tabs[u].page
    BY <1>0 DEF BeginBootstrap, AdminShapes, Tab
  <2>2. /\ UNCHANGED <<sessions, cookie, bootRow, adminNow>> /\ served' = Nothing /\ proc' = "up"
    BY DEF BeginBootstrap
  <2>3. \A u \in Tabs : tabs'[u].csrf \in 0 .. Len(sessions)
                        /\ (tabs'[u].page = "in") = (tabs'[u].csrf # 0)
    BY <1>0, <2>1 DEF AdminTypeOK
  <2> QED
    BY <1>0, <2>1, <2>2, <2>3, QuietStep
<1>2. CASE FinishBootstrap(t) /\ tabs[t].token = "right"
  BY <1>2, AdmitPreserves DEF FinishBootstrap
<1>3. CASE FinishBootstrap(t) /\ tabs[t].token # "right"
  <2>1. /\ SetTab(t, "out", 0) /\ UNCHANGED <<bootRow, sessions, cookie, adminNow, proc>>
        /\ served' = Nothing /\ proc = "up"
    BY <1>3 DEF FinishBootstrap
  <2>2. LimitsKept' /\ TokenBuysSession'
    BY <1>0, <2>1 DEF LimitsKept, TokenBuysSession
  <2>3. /\ sessions' \in Seq(AdminSession) /\ Len(sessions') >= Len(sessions)
        /\ bootRow' \in {"none", "fresh", "consumed"}
        /\ cookie' \in 0 .. Len(sessions') /\ 0 \in 0 .. Len(sessions')
        /\ \A s \in DOMAIN sessions : sessions'[s].by = sessions[s].by
    BY <1>0, <2>1 DEF AdminShapes, AdminTypeOK
  <2> QED
    BY <2>1, <2>2, <2>3, RowsStep
<1> QED
  BY <1>1, <1>2, <1>3

LEMMA LoginPreserves ==
  ASSUME AccessInv, NEW t \in Tabs, LoginWithRecoveryToken(t)
  PROVE  AccessInv'
<1>1. UNCHANGED <<adminNow, proc, bootRow>> /\ proc = "up" /\ served' = Nothing /\ Admit(t, "login")
  BY DEF LoginWithRecoveryToken
<1> QED
  BY <1>1, AdmitPreserves

LEMMA StutterAccess ==
  ASSUME AccessInv, UNCHANGED adminVars
  PROVE  AccessInv'
  BY DEF AccessInv, AdminTypeOK, AdminShapes, LimitsKept, TokenBuysSession, ServedWithinLife,
         WritesCarryCsrf, adminVars

-----------------------------------------------------------------------------

(* The inductive invariant of the sessions, for any number of tabs and limits. *)
THEOREM AccessInvariance == AdminSpec => []AccessInv
<1>1. AccessInv /\ [AdminNext]_adminVars => AccessInv'
  <2> SUFFICES ASSUME AccessInv, [AdminNext]_adminVars
               PROVE  AccessInv'
    OBVIOUS
  <2>1. CASE Start \/ StoreToken \/ PrintToken \/ Stop \/ AdminTick
    BY <2>1, ProcessPreserves
  <2>2. CASE BearerRequest
    BY <2>2, RequestPreserves
  <2>3. ASSUME NEW t \in Tabs,
               \/ FinishBootstrap(t)
               \/ \E token \in {"right", "wrong"} : BeginBootstrap(t, token)
        PROVE  AccessInv'
    BY <2>3, BootstrapPreserves
  <2>4. ASSUME NEW t \in Tabs, LoginWithRecoveryToken(t)
        PROVE  AccessInv'
    BY <2>4, LoginPreserves
  <2>5. ASSUME NEW t \in Tabs, LoadPage(t)
        PROVE  AccessInv'
    BY <2>5, LoadPagePreserves
  <2>6. ASSUME NEW t \in Tabs, Logout(t)
        PROVE  AccessInv'
    BY <2>6, LogoutPreserves
  <2>7. ASSUME NEW t \in Tabs, NEW write \in BOOLEAN, AdminRequest(t, write)
        PROVE  AccessInv'
    BY <2>7, RequestPreserves
  <2>8. CASE UNCHANGED adminVars
    BY <2>8, StutterAccess
  <2> QED
    BY <2>1, <2>2, <2>3, <2>4, <2>5, <2>6, <2>7, <2>8 DEF AdminNext
<1> QED
  BY <1>1, InitAccess, PTL DEF AdminSpec

(* auth.ts, readiness.ts: what is served was asked for within a session that   *)
(* the clock still grants and with its own CSRF token, and the bootstrap token *)
(* is spent, and an instance without a recovery token ready, exactly from the  *)
(* first session that token bought.                                            *)
THEOREM AccessAlwaysSound == AdminSpec => []AccessSound
<1>1. AccessInv => AccessSound
  BY DEF AccessInv, AccessSound, TokenBuysSession, ReadyOnceEntered, ComputeReadiness
<1> QED
  BY <1>1, AccessInvariance, PTL

-----------------------------------------------------------------------------
(* The redirect, for every address it may be built on.                         *)

SignedModes == {"paymob_query_order", "paymob_query_order_id"}

LEMMA StrippedQuery ==
  ASSUME NEW base
  PROVE  /\ DOMAIN StripOwnedParams(base) = DOMAIN base \ OwnedKeys
         /\ \A key \in DOMAIN base \ OwnedKeys : StripOwnedParams(base)[key] = base[key]
  BY DEF StripOwnedParams

(* redirect-builder.ts: the parameters that are not the simulator's are kept,  *)
(* in every mode.                                                              *)
LEMMA ParametersKept ==
  ASSUME NEW base, NEW fields, NEW browserStatus, NEW mode \in RedirectModes,
         NEW key \in DOMAIN base \ OwnedKeys
  PROVE  LET query == BuildRedirectUrl(base, mode, fields, browserStatus)
         IN  key \in DOMAIN query /\ query[key] = base[key]
<1>1. key \in DOMAIN StripOwnedParams(base) /\ StripOwnedParams(base)[key] = base[key]
  BY StrippedQuery
<1>2. ASSUME NEW more
      PROVE  key \in DOMAIN With(StripOwnedParams(base), more)
             /\ With(StripOwnedParams(base), more)[key] = base[key]
  BY <1>1 DEF With
<1>3. ASSUME NEW more, NEW last
      PROVE  key \in DOMAIN With(With(StripOwnedParams(base), more), last)
             /\ With(With(StripOwnedParams(base), more), last)[key] = base[key]
  BY <1>2 DEF With
<1>4. CASE mode = "no_parameters"
  BY <1>1, <1>4 DEF BuildRedirectUrl
<1>5. CASE mode = "minimal_status"
  BY <1>2, <1>5 DEF BuildRedirectUrl
<1>6. CASE mode \in SignedModes
  BY <1>3, <1>6 DEF BuildRedirectUrl, SignedModes
<1> QED
  BY <1>4, <1>5, <1>6 DEF RedirectModes, SignedModes

LEMMA UnsignedModes ==
  ASSUME NEW base, NEW fields, NEW browserStatus, NEW mode \in RedirectModes \ SignedModes
  PROVE  "hmac" \notin DOMAIN BuildRedirectUrl(base, mode, fields, browserStatus)
<1>1. "hmac" \notin DOMAIN StripOwnedParams(base)
  BY StrippedQuery DEF OwnedKeys
<1>2. "hmac" \notin DOMAIN With(StripOwnedParams(base),
                             [simulator_status |-> browserStatus, transaction_id |-> fields.id])
  BY <1>1 DEF With
<1> QED
  BY <1>1, <1>2 DEF BuildRedirectUrl, RedirectModes, SignedModes

(* The id a signed address carries is the transaction's.                       *)
LEMMA SignedId ==
  ASSUME NEW base, NEW fields, NEW browserStatus, NEW mode \in SignedModes
  PROVE  BuildRedirectUrl(base, mode, fields, browserStatus)["id"] = fields["id"]
<1> DEFINE kept == StripOwnedParams(base)
           orderKey == IF mode = "paymob_query_order_id" THEN "order_id" ELSE "order"
           canonical == [key \in {"id", orderKey, "pending", "success"} |->
                           IF key = orderKey THEN fields.order ELSE fields[key]]
           signature == [n \in DOMAIN CanonicalQueryKeys |-> fields[CanonicalQueryKeys[n]]]
           inner == With(kept, canonical)
<1>1. BuildRedirectUrl(base, mode, fields, browserStatus) = With(inner, [hmac |-> signature])
  BY DEF BuildRedirectUrl, SignedModes
<1>2. "id" \notin DOMAIN kept
  BY StrippedQuery DEF OwnedKeys
<1>3. "id" \in DOMAIN canonical /\ canonical["id"] = fields["id"]
  OBVIOUS
<1> HIDE DEF kept, canonical, signature
<1>4. "id" \in DOMAIN inner /\ inner["id"] = fields["id"]
  BY <1>2, <1>3 DEF With
<1> HIDE DEF inner
<1> QED
  BY <1>1, <1>4 DEF With

(* redirect-builder.ts, hmac.mjs: what the one signs the other verifies, over  *)
(* any address, of any values and in either order key.                         *)
LEMMA SignatureVerifies ==
  ASSUME NEW base, NEW fields, NEW browserStatus, NEW mode \in SignedModes
  PROVE  VerifyRedirectHmac(BuildRedirectUrl(base, mode, fields, browserStatus))
<1> DEFINE kept == StripOwnedParams(base)
           orderKey == IF mode = "paymob_query_order_id" THEN "order_id" ELSE "order"
           canonical == [key \in {"id", orderKey, "pending", "success"} |->
                           IF key = orderKey THEN fields.order ELSE fields[key]]
           signature == [n \in DOMAIN CanonicalQueryKeys |-> fields[CanonicalQueryKeys[n]]]
           inner == With(kept, canonical)
           query == With(inner, [hmac |-> signature])
           keys == RedirectFieldKeys(orderKey)
<1>1. BuildRedirectUrl(base, mode, fields, browserStatus) = query
  BY DEF BuildRedirectUrl, SignedModes
<1>2. DOMAIN kept \cap OwnedKeys = {}
  BY StrippedQuery
<1>3. /\ DOMAIN canonical = {"id", orderKey, "pending", "success"}
      /\ canonical["id"] = fields["id"] /\ canonical[orderKey] = fields["order"]
      /\ canonical["pending"] = fields["pending"] /\ canonical["success"] = fields["success"]
      /\ orderKey \in {"order", "order_id"}
  OBVIOUS
<1> HIDE DEF kept, canonical
<1>4. /\ DOMAIN inner = DOMAIN kept \cup {"id", orderKey, "pending", "success"}
      /\ \A key \in {"id", orderKey, "pending", "success"} : inner[key] = canonical[key]
  BY <1>2, <1>3 DEF OwnedKeys, With
<1> HIDE DEF inner, signature
<1>5. /\ DOMAIN query = DOMAIN inner \cup {"hmac"}
      /\ query["hmac"] = signature
      /\ \A key \in DOMAIN inner : query[key] = inner[key]
  BY <1>2, <1>3, <1>4 DEF OwnedKeys, With
<1> HIDE DEF query
<1>6. (IF "order" \in DOMAIN query THEN "order" ELSE "order_id") = orderKey
  BY <1>2, <1>3, <1>4, <1>5 DEF OwnedKeys
<1>7. /\ query["id"] = fields["id"] /\ query[orderKey] = fields["order"]
      /\ query["pending"] = fields["pending"] /\ query["success"] = fields["success"]
      /\ {"id", orderKey, "pending", "success"} \subseteq DOMAIN query
  BY <1>3, <1>4, <1>5
<1> HIDE DEF orderKey
<1>8. ComputeRedirectHmac(query, orderKey) = signature
  <2>1. keys = <<"id", orderKey, "pending", "success">> /\ DOMAIN keys = 1 .. 4
    BY DEF RedirectFieldKeys
  <2>2. /\ DOMAIN CanonicalQueryKeys = 1 .. 4
        /\ signature = [n \in 1 .. 4 |-> fields[CanonicalQueryKeys[n]]]
    BY DEF CanonicalQueryKeys, signature
  <2>3. \A n \in 1 .. 4 : n = 1 \/ n = 2 \/ n = 3 \/ n = 4
    OBVIOUS
  <2>4. \A n \in 1 .. 4 : keys[n] \in DOMAIN query /\ query[keys[n]] = fields[CanonicalQueryKeys[n]]
    <3> SUFFICES ASSUME NEW n \in 1 .. 4
                 PROVE  keys[n] \in DOMAIN query /\ query[keys[n]] = fields[CanonicalQueryKeys[n]]
      OBVIOUS
    <3>1. CASE n = 1
      BY <1>7, <2>1, <3>1 DEF CanonicalQueryKeys
    <3>2. CASE n = 2
      BY <1>7, <2>1, <3>2 DEF CanonicalQueryKeys
    <3>3. CASE n = 3
      BY <1>7, <2>1, <3>3 DEF CanonicalQueryKeys
    <3>4. CASE n = 4
      BY <1>7, <2>1, <3>4 DEF CanonicalQueryKeys
    <3> QED
      BY <2>3, <3>1, <3>2, <3>3, <3>4
  <2>5. ComputeRedirectHmac(query, orderKey)
          = [n \in 1 .. 4 |-> IF keys[n] \in DOMAIN query THEN query[keys[n]] ELSE ""]
    BY <2>1 DEF ComputeRedirectHmac
  <2> HIDE DEF keys
  <2> QED
    BY <2>2, <2>4, <2>5
<1>9. "hmac" \in DOMAIN query
  BY <1>5
<1> QED
  BY <1>1, <1>5, <1>6, <1>8, <1>9 DEF VerifyRedirectHmac

-----------------------------------------------------------------------------
(* The demo merchant. *)

PaidStates == {"pending", "succeeded", "failed", "voided"}

Succeeded == "succeeded" \in Visited

(* A body that says success is of a transaction that shows it.                 *)
Truthful(obj) == StatusOf(obj) = "succeeded" => ShowsSuccess(obj.id)

(* The records of the merchant, whose fields hold what others sent.            *)
MerchantShapes ==
  /\ paid \in Seq(PaidStates)
  /\ order = [status |-> order.status, transactionId |-> order.transactionId,
              redirect |-> order.redirect]
  /\ order.status \in {"none", "pending", "succeeded", "failed"}
  /\ inquiry = [pc |-> inquiry.pc, token |-> inquiry.token,
                id |-> inquiry.id, obj |-> inquiry.obj]
  /\ inquiry.pc # "idle" => inquiry.id \in Ids
  /\ order.redirect \in Ids \cup {"none"}
  /\ foreign \in {"none", "pending", "succeeded", "failed"}

VoidedAfterSuccess == "voided" \in Visited => Succeeded

AirTruthful == \A message \in air : message.valid => Truthful(message)

InquiryTruthful == inquiry.pc \in {"answered", "applied"} => Truthful(inquiry.obj[1])

(* A reconciliation is about an order there is.                                *)
InquiryOfOrder == order.redirect # "none" \/ inquiry.pc # "idle" => order.status # "none"

MerchantInv ==
  /\ MerchantShapes
  /\ VoidedAfterSuccess
  /\ AirTruthful
  /\ InquiryTruthful
  /\ InquiryOfOrder
  /\ FulfilledWhenPaid
  /\ ReconcileSettles

-----------------------------------------------------------------------------
(* What the merchant reads in the bodies the simulator builds.                 *)

LEMMA StatusOfFlags ==
  ASSUME NEW id, NEW state \in PaidStates,
         StatusOf(Flags(id, state)) = "succeeded"
  PROVE  state \in {"succeeded", "voided"}
<1>1. CASE state = "pending"
  <2>1. Flags(id, state).pending
    BY <1>1 DEF Flags, ProjectPaymobFlags
  <2> QED
    BY <2>1 DEF StatusOf
<1>2. CASE state = "failed"
  <2>1. ~Flags(id, state).success
    BY <1>2 DEF Flags, ProjectPaymobFlags
  <2> QED
    BY <2>1 DEF StatusOf
<1> QED
  BY <1>1, <1>2 DEF PaidStates

(* The simulator's bodies, of states the transactions had or of snapshots.     *)
LEMMA FlagsTruthful ==
  ASSUME VoidedAfterSuccess, paid \in Seq(PaidStates), NEW i \in DOMAIN paid
  PROVE  Truthful(Flags("payment", paid[i]))
<1>1. paid[i] \in PaidStates /\ paid[i] \in Visited
  BY DEF Visited
<1>2. Flags("payment", paid[i]).id = "payment"
  BY DEF Flags
<1>3. paid[i] \in {"succeeded", "voided"} => "succeeded" \in Visited
  BY <1>1 DEF VoidedAfterSuccess, Succeeded
<1> QED
  BY <1>1, <1>2, <1>3, StatusOfFlags DEF Truthful, ShowsSuccess

LEMMA SnapshotTruthful ==
  ASSUME NEW state \in Snapshots
  PROVE  Truthful(Flags("payment", state))
<1>1. Flags("payment", state).id = "payment"
  BY DEF Flags
<1> QED
  BY <1>1 DEF Truthful, ShowsSuccess

LEMMA AnswerTruthful ==
  ASSUME MerchantShapes, VoidedAfterSuccess, NEW id \in Ids, Known(id)
  PROVE  Truthful(Flags(id, StateOf(id)))
<1>1. CASE id = "payment"
  <2>1. Len(paid) \in DOMAIN paid /\ paid \in Seq(PaidStates)
    BY <1>1 DEF Known, MerchantShapes
  <2>2. StateOf(id) = paid[Len(paid)]
    BY <1>1 DEF StateOf, State
  <2> QED
    BY <1>1, <2>1, <2>2, FlagsTruthful
<1>2. CASE id = "child"
  <2>1. "voided" \in Visited /\ "succeeded" \in Visited
    BY <1>2 DEF Known, VoidedAfterSuccess, Succeeded
  <2> QED
    BY <1>2, <2>1 DEF Truthful, ShowsSuccess, Flags
<1>3. CASE id = "other"
  <2>1. StateOf(id) = foreign /\ foreign \in {"pending", "succeeded", "failed"}
    BY <1>3 DEF StateOf, Known, MerchantShapes
  <2>2. StatusOf(Flags(id, foreign)) = "succeeded" => foreign = "succeeded"
    BY <2>1, StatusOfFlags DEF PaidStates
  <2>3. Flags(id, foreign).id = "other"
    BY <1>3 DEF Flags
  <2> QED
    BY <2>1, <2>2, <2>3 DEF Truthful, ShowsSuccess
<1> QED
  BY <1>1, <1>2, <1>3 DEF Ids

LEMMA StatusRead ==
  ASSUME NEW obj
  PROVE  /\ StatusOf(obj) \in {"pending", "succeeded", "failed"}
         /\ ~obj.pending => StatusOf(obj) \in {"succeeded", "failed"}
  BY DEF StatusOf

LEMMA UpdatedOrder ==
  ASSUME MerchantShapes, NEW obj, order' = ApplyTransactionUpdate(obj)
  PROVE  /\ order' = [status |-> order'.status, transactionId |-> order'.transactionId,
                      redirect |-> order'.redirect]
         /\ order'.redirect = order.redirect
         /\ IF order.status \in {"none", "succeeded", "failed"} THEN order' = order
            ELSE order'.status = StatusOf(obj) /\ order'.transactionId = obj.id
  BY DEF MerchantShapes, ApplyTransactionUpdate

(* The payment goes through a further state.                                   *)
LEMMA PaidGrows ==
  ASSUME MerchantShapes, VoidedAfterSuccess, NEW state \in PaidStates, paid' = Append(paid, state),
         state = "voided" => Succeeded
  PROVE  paid' \in Seq(PaidStates) /\ VoidedAfterSuccess' /\ Visited \subseteq Visited'
<1>1. /\ paid' \in Seq(PaidStates) /\ Len(paid) \in Nat /\ paid \in Seq(PaidStates)
      /\ DOMAIN paid' = DOMAIN paid \cup {Len(paid) + 1} /\ paid'[Len(paid) + 1] = state
      /\ \A i \in DOMAIN paid : paid'[i] = paid[i]
  BY DEF MerchantShapes
<1>2. Visited' = Visited \cup {state}
  BY <1>1 DEF Visited
<1> QED
  BY <1>1, <1>2 DEF VoidedAfterSuccess, Succeeded

(* What a transaction has shown it has shown for good.                         *)
LEMMA ShowingLasts ==
  ASSUME Visited \subseteq Visited', foreign = "succeeded" => foreign' = "succeeded"
  PROVE  \A id : ShowsSuccess(id) => ShowsSuccess(id)'
  BY DEF ShowsSuccess

(* A step of the simulator: the merchant's records are as they were.           *)
LEMMA SimulatorStep ==
  ASSUME MerchantInv, UNCHANGED <<order, inquiry>>, paid' \in Seq(PaidStates),
         foreign' \in {"none", "pending", "succeeded", "failed"},
         foreign = "succeeded" => foreign' = "succeeded",
         VoidedAfterSuccess', Visited \subseteq Visited',
         \A message \in air' : message \in air \/ (message.valid => Truthful(message)')
  PROVE  MerchantInv'
<1>1. MerchantShapes' /\ InquiryOfOrder' /\ ReconcileSettles'
  BY DEF MerchantInv, MerchantShapes, InquiryOfOrder, ReconcileSettles
<1>2. \A id : ShowsSuccess(id) => ShowsSuccess(id)'
  BY ShowingLasts
<1>3. \A obj : Truthful(obj) => Truthful(obj)'
  BY <1>2 DEF Truthful
<1>4. AirTruthful' /\ InquiryTruthful'
  BY <1>3 DEF MerchantInv, AirTruthful, InquiryTruthful
<1>5. FulfilledWhenPaid'
  BY <1>2 DEF MerchantInv, FulfilledWhenPaid
<1> QED
  BY <1>1, <1>4, <1>5 DEF MerchantInv

(* A step of the merchant: nothing new is said of the payment.                 *)
LEMMA MerchantStep ==
  ASSUME MerchantInv, UNCHANGED <<paid, foreign, air>>,
         order' = [status |-> order'.status, transactionId |-> order'.transactionId,
                   redirect |-> order'.redirect],
         order'.status \in {"none", "pending", "succeeded", "failed"},
         order'.redirect \in Ids \cup {"none"},
         FulfilledWhenPaid',
         inquiry' = [pc |-> inquiry'.pc, token |-> inquiry'.token,
                     id |-> inquiry'.id, obj |-> inquiry'.obj],
         inquiry'.pc # "idle" => inquiry'.id \in Ids,
         InquiryTruthful', InquiryOfOrder', ReconcileSettles'
  PROVE  MerchantInv'
<1>1. MerchantShapes' /\ VoidedAfterSuccess' /\ AirTruthful'
  BY DEF MerchantInv, MerchantShapes, VoidedAfterSuccess, AirTruthful, Truthful, Succeeded,
         ShowsSuccess, Visited
<1> QED
  BY <1>1 DEF MerchantInv

(* What was shown is the same after a step of the merchant.                    *)
LEMMA SameShowing ==
  ASSUME UNCHANGED <<paid, foreign>>
  PROVE  /\ \A id : ShowsSuccess(id) <=> ShowsSuccess(id)'
         /\ \A obj : Truthful(obj) <=> Truthful(obj)'
<1>1. \A id : ShowsSuccess(id) <=> ShowsSuccess(id)'
  BY DEF ShowsSuccess, Visited
<1> QED
  BY <1>1 DEF Truthful

-----------------------------------------------------------------------------
(* The simulator's side.                                                       *)

LEMMA PaymentPreserves ==
  ASSUME MerchantInv,
         \/ \E state \in {"pending", "succeeded", "failed"} : Pay(state) \/ PayElsewhere(state)
         \/ \E authorized, wellFormed \in BOOLEAN : LegacyVoid(authorized, wellFormed)
  PROVE  MerchantInv'
<1>0. /\ MerchantShapes /\ VoidedAfterSuccess /\ paid \in Seq(PaidStates)
      /\ foreign \in {"none", "pending", "succeeded", "failed"}
  BY DEF MerchantInv, MerchantShapes
<1>1. ASSUME NEW state \in {"pending", "succeeded", "failed"}, Pay(state)
      PROVE  MerchantInv'
  <2>1. paid' = Append(paid, state) /\ UNCHANGED <<foreign, air, order, inquiry>> /\ state \in PaidStates
    BY <1>1 DEF Pay, PaidStates
  <2>2. paid' \in Seq(PaidStates) /\ VoidedAfterSuccess' /\ Visited \subseteq Visited'
    BY <1>0, <1>1, <2>1, PaidGrows
  <2> QED
    BY <1>0, <2>1, <2>2, SimulatorStep
<1>2. ASSUME NEW state \in {"pending", "succeeded", "failed"}, PayElsewhere(state)
      PROVE  MerchantInv'
  <2>1. /\ UNCHANGED <<paid, air, order, inquiry>> /\ foreign' = state
        /\ foreign = "succeeded" => foreign' = "succeeded"
    BY <1>2 DEF PayElsewhere
  <2>2. VoidedAfterSuccess' /\ Visited \subseteq Visited'
    BY <1>0, <2>1 DEF VoidedAfterSuccess, Succeeded, Visited
  <2> QED
    BY <1>0, <2>1, <2>2, SimulatorStep
<1>3. ASSUME NEW authorized \in BOOLEAN, NEW wellFormed \in BOOLEAN,
             LegacyVoid(authorized, wellFormed)
      PROVE  MerchantInv'
  <2>1. paid # << >> /\ State = "succeeded"
    BY <1>3 DEF LegacyVoid, LegacyOperationStatus
  <2>2. Succeeded
    <3>1. Len(paid) \in DOMAIN paid
      BY <1>0, <2>1
    <3> QED
      BY <2>1, <3>1 DEF State, Succeeded, Visited
  <2>3. /\ paid' = Append(paid, "voided") /\ UNCHANGED <<foreign, order, inquiry>>
        /\ air' = air \cup {Flags("child", "voided")}
    BY <1>3 DEF LegacyVoid
  <2>4. paid' \in Seq(PaidStates) /\ VoidedAfterSuccess' /\ Visited \subseteq Visited'
    BY <1>0, <2>2, <2>3, PaidGrows DEF PaidStates
  <2>5. "voided" \in Visited'
    <3>1. paid'[Len(paid) + 1] = "voided" /\ Len(paid) + 1 \in DOMAIN paid'
      BY <1>0, <2>3
    <3> QED
      BY <3>1 DEF Visited
  <2>6. Truthful(Flags("child", "voided"))'
    BY <2>2, <2>4, <2>5 DEF Truthful, ShowsSuccess, Succeeded, Flags
  <2> QED
    BY <1>0, <2>3, <2>4, <2>6, SimulatorStep
<1> QED
  BY <1>1, <1>2, <1>3

LEMMA SendPreserves ==
  ASSUME MerchantInv,
         (\E i \in DOMAIN paid : SendCallback(i)) \/ \E state \in Snapshots : SendSnapshot(state)
  PROVE  MerchantInv'
<1>0. /\ VoidedAfterSuccess /\ paid \in Seq(PaidStates)
      /\ foreign \in {"none", "pending", "succeeded", "failed"}
  BY DEF MerchantInv, MerchantShapes
<1>1. UNCHANGED <<paid, foreign, order, inquiry>>
  BY DEF SendCallback, SendSnapshot
<1>2. VoidedAfterSuccess' /\ Visited \subseteq Visited'
  BY <1>0, <1>1 DEF VoidedAfterSuccess, Succeeded, Visited
<1>3. PICK message : air' = air \cup {message} /\ Truthful(message)
  BY <1>0, FlagsTruthful, SnapshotTruthful DEF SendCallback, SendSnapshot
<1>4. Truthful(message)'
  BY <1>1, <1>3, SameShowing
<1> QED
  BY <1>0, <1>1, <1>2, <1>3, <1>4, SimulatorStep

LEMMA ClocksPreserve ==
  ASSUME MerchantInv, SimTick \/ SimRestart \/ WallTick \/ UNCHANGED merchantVars
  PROVE  MerchantInv'
<1>1. UNCHANGED <<paid, foreign, order, inquiry, air>>
  BY DEF SimTick, SimRestart, WallTick, merchantVars, simulatorVars
<1>2. /\ VoidedAfterSuccess' /\ Visited \subseteq Visited' /\ paid' \in Seq(PaidStates)
      /\ foreign' \in {"none", "pending", "succeeded", "failed"}
  BY <1>1 DEF MerchantInv, MerchantShapes, VoidedAfterSuccess, Succeeded, Visited
<1> QED
  BY <1>1, <1>2, SimulatorStep

-----------------------------------------------------------------------------
(* The merchant's side.                                                        *)

(* The id a redirect with a signature carries.                                 *)
LEMMA QueryIds ==
  ASSUME NEW query \in Redirects, "hmac" \in DOMAIN query
  PROVE  query["id"] \in Ids
<1>1. CASE query \in MadeUp
  <2>1. PICK id \in Ids : query = With(MerchantQuery, [hmac |-> << >>, id |-> id])
    BY <1>1 DEF MadeUp
  <2>2. query["id"] = id
    BY <2>1 DEF With, MerchantQuery
  <2> QED
    BY <2>2
<1>2. ASSUME NEW mode \in RedirectModes, NEW i \in DOMAIN paid, NEW browserStatus,
             query = RedirectTo(MerchantQuery, mode, paid[i], browserStatus)
      PROVE  query["id"] \in Ids
  <2> DEFINE flags == Flags("payment", paid[i])
             fields == [id |-> flags.id, order |-> "order",
                        pending |-> NormalizeHmacValue(flags.pending),
                        success |-> NormalizeHmacValue(flags.success)]
  <2>1. query = BuildRedirectUrl(MerchantQuery, mode, fields, browserStatus)
    BY <1>2 DEF RedirectTo
  <2>2. fields.id = "payment"
    BY DEF Flags
  <2> HIDE DEF fields
  <2>3. mode \in SignedModes
    BY <2>1, UnsignedModes
  <2>4. query["id"] = fields["id"]
    BY <2>1, <2>3, SignedId
  <2> QED
    BY <2>2, <2>4 DEF Ids
<1> QED
  BY <1>1, <1>2 DEF Redirects

(* An update of the order by a truthful body.                                  *)
LEMMA UpdateTruthful ==
  ASSUME MerchantInv, UNCHANGED <<paid, foreign>>, NEW obj, Truthful(obj),
         order' = ApplyTransactionUpdate(obj)
  PROVE  /\ order' = [status |-> order'.status, transactionId |-> order'.transactionId,
                      redirect |-> order'.redirect]
         /\ order'.redirect = order.redirect
         /\ order'.status \in {"none", "pending", "succeeded", "failed"}
         /\ order.status # "none" => order'.status # "none"
         /\ order.status # "none" /\ ~obj.pending => order'.status \in {"succeeded", "failed"}
         /\ order.status \in {"succeeded", "failed"} => order' = order
         /\ FulfilledWhenPaid'
<1>0. /\ MerchantShapes /\ FulfilledWhenPaid
      /\ order.status \in {"none", "pending", "succeeded", "failed"}
  BY DEF MerchantInv, MerchantShapes
<1>1. /\ order' = [status |-> order'.status, transactionId |-> order'.transactionId,
                   redirect |-> order'.redirect]
      /\ order'.redirect = order.redirect
      /\ IF order.status \in {"none", "succeeded", "failed"} THEN order' = order
         ELSE order'.status = StatusOf(obj) /\ order'.transactionId = obj.id
  BY <1>0, UpdatedOrder
<1>2. /\ StatusOf(obj) \in {"pending", "succeeded", "failed"}
      /\ ~obj.pending => StatusOf(obj) \in {"succeeded", "failed"}
  BY StatusRead
<1>3. \A id : ShowsSuccess(id) => ShowsSuccess(id)'
  BY SameShowing
<1>4. order'.status = "succeeded" => ShowsSuccess(order'.transactionId)
  BY <1>0, <1>1 DEF FulfilledWhenPaid, Truthful
<1>5. FulfilledWhenPaid'
  BY <1>3, <1>4 DEF FulfilledWhenPaid
<1> QED
  BY <1>0, <1>1, <1>2, <1>5

LEMMA OrderPreserves ==
  ASSUME MerchantInv,
         \/ NewOrder \/ \E query \in Redirects : PaymentResult(query)
         \/ \E message \in air \cup Forged : Webhook(message)
  PROVE  MerchantInv'
<1>0. /\ MerchantShapes /\ AirTruthful /\ InquiryTruthful /\ InquiryOfOrder /\ FulfilledWhenPaid
      /\ ReconcileSettles
  BY DEF MerchantInv
<1>1. UNCHANGED <<paid, foreign, air, inquiry>>
  BY DEF NewOrder, PaymentResult, Webhook, simulatorVars
<1>2. InquiryTruthful' /\ \A id : ShowsSuccess(id) => ShowsSuccess(id)'
  BY <1>0, <1>1, SameShowing DEF InquiryTruthful
<1>3. CASE NewOrder
  <2>1. /\ order.status = "none" /\ order'.status = "pending"
        /\ order' = [status |-> "pending", transactionId |-> "none", redirect |-> "none"]
    BY <1>3 DEF NewOrder, NoOrder
  <2>2. InquiryOfOrder' /\ ReconcileSettles' /\ FulfilledWhenPaid'
    BY <1>0, <1>1, <2>1 DEF InquiryOfOrder, ReconcileSettles, FulfilledWhenPaid
  <2> QED
    BY <1>0, <1>1, <1>2, <2>1, <2>2, MerchantStep DEF MerchantShapes
<1>4. ASSUME NEW query \in Redirects, PaymentResult(query)
      PROVE  MerchantInv'
  <2>1. "id" \in DOMAIN query /\ "hmac" \in DOMAIN query => query["id"] \in Ids
    BY QueryIds
  <2>2. /\ order.status # "none" /\ order'.status = order.status
        /\ order'.transactionId = order.transactionId
        /\ order'.redirect \in Ids \cup {"none"}
        /\ order' = [status |-> order'.status, transactionId |-> order'.transactionId,
                     redirect |-> order'.redirect]
    BY <1>0, <1>4, <2>1 DEF PaymentResult, MerchantShapes
  <2>3. InquiryOfOrder' /\ ReconcileSettles' /\ FulfilledWhenPaid'
    BY <1>0, <1>1, <1>2, <2>2 DEF InquiryOfOrder, ReconcileSettles, FulfilledWhenPaid
  <2> QED
    BY <1>0, <1>1, <1>2, <2>2, <2>3, MerchantStep DEF MerchantShapes
<1>5. ASSUME NEW message \in air \cup Forged, Webhook(message)
      PROVE  MerchantInv'
  <2>1. message.valid /\ order' = ApplyTransactionUpdate(message)
    BY <1>5 DEF Webhook
  <2>2. message \in air /\ Truthful(message)
    <3>1. \A forged \in Forged : ~forged.valid
      BY DEF Forged, Flags
    <3> QED
      BY <1>0, <2>1, <3>1 DEF AirTruthful
  <2>3. /\ order' = [status |-> order'.status, transactionId |-> order'.transactionId,
                     redirect |-> order'.redirect]
        /\ order'.redirect = order.redirect
        /\ order'.status \in {"none", "pending", "succeeded", "failed"}
        /\ order.status # "none" => order'.status # "none"
        /\ order.status \in {"succeeded", "failed"} => order' = order
        /\ FulfilledWhenPaid'
    BY <1>1, <2>1, <2>2, UpdateTruthful
  <2>4. InquiryOfOrder' /\ ReconcileSettles'
    BY <1>0, <1>1, <2>3 DEF InquiryOfOrder, ReconcileSettles
  <2> QED
    BY <1>0, <1>1, <1>2, <2>3, <2>4, MerchantStep DEF MerchantShapes
<1> QED
  BY <1>3, <1>4, <1>5

LEMMA ReconciliationPreserves ==
  ASSUME MerchantInv,
         Reconcile \/ FetchToken \/ Inquire \/ ApplyInquiry \/ ReconcileDone \/ MerchantRestart
  PROVE  MerchantInv'
<1>0. /\ MerchantShapes /\ VoidedAfterSuccess /\ InquiryTruthful /\ InquiryOfOrder
      /\ FulfilledWhenPaid /\ ReconcileSettles
  BY DEF MerchantInv
<1>1. UNCHANGED <<paid, foreign, air>>
  BY DEF Reconcile, FetchToken, Inquire, ApplyInquiry, ReconcileDone, MerchantRestart, simulatorVars
<1>2. /\ Idle = [pc |-> "idle", token |-> 0, id |-> "none", obj |-> << >>]
      /\ order.status \in {"none", "pending", "succeeded", "failed"}
      /\ order.redirect \in Ids \cup {"none"}
      /\ order' = order => FulfilledWhenPaid'
  BY <1>0, <1>1, SameShowing DEF Idle, MerchantShapes, FulfilledWhenPaid
<1>3. CASE Reconcile
  <2>1. /\ UNCHANGED order /\ order.status # "none"
        /\ inquiry'.pc \in {"inquire", "token"} /\ inquiry'.id = order.redirect
        /\ order.redirect \in Ids
        /\ inquiry' = [pc |-> inquiry'.pc, token |-> inquiry'.token,
                       id |-> inquiry'.id, obj |-> inquiry'.obj]
    BY <1>0, <1>2, <1>3 DEF Reconcile, InquiryOfOrder
  <2>2. InquiryTruthful' /\ InquiryOfOrder' /\ ReconcileSettles'
    BY <2>1 DEF InquiryTruthful, InquiryOfOrder, ReconcileSettles
  <2> QED
    BY <1>0, <1>1, <1>2, <2>1, <2>2, MerchantStep DEF MerchantShapes
<1>4. CASE FetchToken
  <2>1. /\ UNCHANGED order /\ inquiry.pc = "token" /\ inquiry'.pc = "inquire"
        /\ inquiry'.id = inquiry.id /\ inquiry.id \in Ids
        /\ inquiry' = [pc |-> inquiry'.pc, token |-> inquiry'.token,
                       id |-> inquiry'.id, obj |-> inquiry'.obj]
    BY <1>0, <1>4 DEF FetchToken, MerchantShapes
  <2>2. InquiryTruthful' /\ InquiryOfOrder' /\ ReconcileSettles'
    BY <1>0, <2>1 DEF InquiryTruthful, InquiryOfOrder, ReconcileSettles
  <2> QED
    BY <1>0, <1>1, <1>2, <2>1, <2>2, MerchantStep DEF MerchantShapes
<1>5. CASE Inquire /\ InquiryStatus(inquiry.token, inquiry.id) = 200
  <2>1. Known(inquiry.id) /\ inquiry.id \in Ids
    BY <1>0, <1>5 DEF InquiryStatus, Inquire, MerchantShapes
  <2>2. Truthful(Flags(inquiry.id, StateOf(inquiry.id)))
    BY <1>0, <2>1, AnswerTruthful
  <2>3. /\ UNCHANGED order /\ inquiry.pc = "inquire" /\ inquiry'.pc = "answered"
        /\ inquiry'.obj = <<Flags(inquiry.id, StateOf(inquiry.id))>> /\ inquiry'.id = inquiry.id
        /\ inquiry' = [pc |-> inquiry'.pc, token |-> inquiry'.token,
                       id |-> inquiry'.id, obj |-> inquiry'.obj]
    BY <1>0, <1>5 DEF Inquire, MerchantShapes
  <2>4. inquiry'.obj[1] = Flags(inquiry.id, StateOf(inquiry.id))
    BY <2>3
  <2>5. InquiryTruthful'
    BY <1>1, <2>2, <2>4, SameShowing DEF InquiryTruthful
  <2>6. InquiryOfOrder' /\ ReconcileSettles'
    BY <1>0, <2>3 DEF InquiryOfOrder, ReconcileSettles
  <2> QED
    BY <1>0, <1>1, <1>2, <2>1, <2>3, <2>5, <2>6, MerchantStep DEF MerchantShapes
<1>6. CASE ApplyInquiry
  <2>1. /\ inquiry.pc = "answered" /\ order' = ApplyTransactionUpdate(inquiry.obj[1])
        /\ inquiry'.pc = "applied" /\ inquiry'.obj = inquiry.obj
        /\ inquiry'.id = inquiry.id /\ inquiry.id \in Ids
        /\ inquiry' = [pc |-> inquiry'.pc, token |-> inquiry'.token,
                       id |-> inquiry'.id, obj |-> inquiry'.obj]
    BY <1>0, <1>6 DEF ApplyInquiry, MerchantShapes
  <2>2. Truthful(inquiry.obj[1]) /\ order.status # "none"
    BY <1>0, <2>1 DEF InquiryTruthful, InquiryOfOrder
  <2>3. /\ order' = [status |-> order'.status, transactionId |-> order'.transactionId,
                     redirect |-> order'.redirect]
        /\ order'.redirect = order.redirect
        /\ order'.status \in {"none", "pending", "succeeded", "failed"} /\ order'.status # "none"
        /\ ~inquiry.obj[1].pending => order'.status \in {"succeeded", "failed"}
        /\ FulfilledWhenPaid'
    BY <1>1, <2>1, <2>2, UpdateTruthful
  <2>4. InquiryTruthful'
    BY <1>1, <2>1, <2>2, SameShowing DEF InquiryTruthful
  <2>5. InquiryOfOrder' /\ ReconcileSettles'
    BY <2>1, <2>3 DEF InquiryOfOrder, ReconcileSettles
  <2> QED
    BY <1>1, <1>2, <2>1, <2>3, <2>4, <2>5, MerchantStep
<1>7. CASE /\ ReconcileDone \/ MerchantRestart \/ Inquire
           /\ ~(Inquire /\ InquiryStatus(inquiry.token, inquiry.id) = 200)
  <2>1. UNCHANGED order /\ inquiry' = Idle
    BY <1>7 DEF ReconcileDone, MerchantRestart, Inquire
  <2>2. InquiryTruthful' /\ ReconcileSettles'
    BY <1>2, <2>1 DEF InquiryTruthful, ReconcileSettles
  <2>3. InquiryOfOrder'
    BY <1>0, <1>2, <2>1 DEF InquiryOfOrder
  <2> QED
    BY <1>0, <1>1, <1>2, <2>1, <2>2, <2>3, MerchantStep DEF MerchantShapes
<1> QED
  BY <1>3, <1>4, <1>5, <1>6, <1>7

-----------------------------------------------------------------------------

(* The inductive invariant of the merchant, for any lives of tokens.           *)
THEOREM MerchantInvariance == MerchantSpec => []MerchantInv
<1>1. MerchantInit => MerchantInv
  BY DEF MerchantInit, MerchantInv, MerchantShapes, VoidedAfterSuccess, AirTruthful, Visited,
         InquiryTruthful, InquiryOfOrder, FulfilledWhenPaid, ReconcileSettles, NoOrder, Idle
<1>2. MerchantInv /\ [MerchantNext]_merchantVars => MerchantInv'
  BY PaymentPreserves, SendPreserves, ClocksPreserve, OrderPreserves, ReconciliationPreserves
  DEF MerchantNext
<1> QED
  BY <1>1, <1>2, PTL DEF MerchantSpec

(* server.mjs: an order is fulfilled only on the success of the transaction it *)
(* names, whatever unsigned bodies and redirects say, and a reconciliation     *)
(* that got a final answer leaves the order over.                              *)
THEOREM OrderFollows == MerchantSpec => []OrderFollowsPayment
<1>1. MerchantInv => OrderFollowsPayment
  BY DEF MerchantInv, OrderFollowsPayment
<1> QED
  BY <1>1, MerchantInvariance, PTL

(* store.mjs: an order ends once, whatever callback, redirect or late answer   *)
(* comes after its end.                                                        *)
THEOREM OrderStaysEnded == MerchantSpec => OrderEndsOnce
<1>1. ASSUME MerchantInv, MerchantNext, order.status \in {"succeeded", "failed"}
      PROVE  order'.status = order.status
  <2>0. MerchantShapes
    BY <1>1 DEF MerchantInv
  <2>1. CASE UNCHANGED order
    BY <2>1
  <2>2. ASSUME NEW obj, order' = ApplyTransactionUpdate(obj)
        PROVE  order'.status = order.status
    BY <1>1, <2>0, <2>2, UpdatedOrder
  <2>3. CASE NewOrder
    BY <1>1, <2>3 DEF NewOrder, NoOrder
  <2>4. ASSUME NEW query \in Redirects, PaymentResult(query)
        PROVE  order'.status = order.status
    BY <2>0, <2>4 DEF PaymentResult, MerchantShapes
  <2> QED
    BY <1>1, <2>1, <2>2, <2>3, <2>4
    DEF MerchantNext, Pay, PayElsewhere, SendCallback, SendSnapshot, LegacyVoid, SimTick,
        SimRestart, WallTick, Webhook, simulatorVars,
        Reconcile, FetchToken, Inquire, ApplyInquiry, ReconcileDone, MerchantRestart
<1>2. UNCHANGED merchantVars => order' = order
  BY DEF merchantVars
<1>3. MerchantInv /\ [MerchantNext]_merchantVars
        => [order.status \in {"succeeded", "failed"} => order'.status = order.status]_merchantVars
  BY <1>1, <1>2
<1> QED
  BY <1>3, MerchantInvariance, PTL DEF MerchantSpec, OrderEndsOnce
(* What the simulator signs verifies, what it does not sign carries no         *)
(* signature, and the merchant finds its own parameters again.                 *)
THEOREM RedirectsAlwaysVerify == MerchantSpec => []RedirectsVerify
<1>1. RedirectsVerify
  <2> SUFFICES ASSUME NEW mode \in RedirectModes,
                      NEW own \in {{}, {"order", "success"}, {"order_id", "hmac"}}
               PROVE  LET base == With(MerchantQuery,
                                      [key \in own |-> IF key = "hmac" THEN <<"mine">> ELSE "mine"])
                          query == RedirectTo(base, mode, State, "failed")
                      IN  /\ query["ref"] = "order"
                          /\ VerifyRedirectHmac(query) <=> mode \in SignedModes
                          /\ "hmac" \in DOMAIN query => VerifyRedirectHmac(query)
    BY DEF RedirectsVerify, SignedModes
  <2> DEFINE base == With(MerchantQuery,
                          [key \in own |-> IF key = "hmac" THEN <<"mine">> ELSE "mine"])
             query == RedirectTo(base, mode, State, "failed")
  <2>1. "ref" \in DOMAIN base \ OwnedKeys /\ base["ref"] = "order"
    BY DEF With, MerchantQuery, OwnedKeys
  <2> HIDE DEF base
  <2>2. PICK fields : query = BuildRedirectUrl(base, mode, fields, "failed")
    BY DEF RedirectTo
  <2>3. query["ref"] = "order"
    BY <2>1, <2>2, ParametersKept
  <2>4. mode \in SignedModes => VerifyRedirectHmac(query)
    BY <2>2, SignatureVerifies
  <2>5. mode \notin SignedModes => "hmac" \notin DOMAIN query
    BY <2>2, UnsignedModes
  <2> QED
    <3>1. VerifyRedirectHmac(query) => "hmac" \in DOMAIN query
      BY DEF VerifyRedirectHmac
    <3>2. /\ VerifyRedirectHmac(query) <=> mode \in SignedModes
          /\ "hmac" \in DOMAIN query => VerifyRedirectHmac(query)
      BY <2>4, <2>5, <3>1
    <3> QED
      BY <2>3, <3>2 DEF base
<1> QED
  BY <1>1, PTL

-----------------------------------------------------------------------------
(* The checkout page.  PageShowsPayment needs that whatever is on its way to   *)
(* the page - the answer to the request for a session, every event of every    *)
(* log - tells a status the payment has or has passed.                         *)

Statuses == {"pending", "success", "failed"}
PageEvent == [type : {"show_result", "navigate", "three_ds.open"}, status : Statuses \cup {"none"}]

Told(status, outcome) == outcome # "none" /\ status \in {"pending", outcome}

PageTypes ==
  /\ pageStatus \in {"loading", "form", "processing", "error", "left"} \cup Statuses
  /\ payment \in {"none"} \cup Statuses
  /\ logs \in Seq(Seq(PageEvent))
  /\ session \in 0 .. Len(logs)
  /\ opening \in [pc : {"none", "answered", "done", "lost"}, session : 0 .. Len(logs),
                  status : {"form"} \cup Statuses]
  /\ stream \in [session : 0 .. Len(logs), got : Nat]

EventsTold ==
  \A s \in DOMAIN logs : \A i \in DOMAIN logs[s] :
    logs[s][i].type # "three_ds.open" => Told(logs[s][i].status, payment)

OpeningTold == opening.status = "form" \/ Told(opening.status, payment)

PageTold == pageStatus \in Statuses => Told(pageStatus, payment)

PageInv == PageTypes /\ EventsTold /\ OpeningTold /\ PageTold

(* A status that was told stays told while the payment settles.                *)
LEMMA TellingLasts ==
  ASSUME PageTypes, (payment' = payment \/ (payment \in {"none", "pending"} /\ payment' \in Statuses))
  PROVE  \A status : Told(status, payment) => Told(status, payment')
  BY DEF Told, PageTypes, Statuses

LEMMA StreamForTyped ==
  ASSUME PageTypes, NEW status, NEW s \in 0 .. Len(logs)
  PROVE  StreamFor(status, s) \in [session : 0 .. Len(logs), got : Nat]
  BY DEF StreamFor, NoStream, PageTypes

LEMMA SetStatusTyped ==
  ASSUME PageTypes, NEW status \in {"form", "processing", "error"} \cup Statuses,
         NEW s \in 0 .. Len(logs), SetStatus(status, s)
  PROVE  /\ pageStatus' \in {pageStatus, status}
         /\ pageStatus' \in {"loading", "form", "processing", "error", "left"} \cup Statuses
         /\ stream' \in [session : 0 .. Len(logs), got : Nat]
<1>1. CASE UNCHANGED <<pageStatus, stream>>
  BY <1>1 DEF PageTypes
<1>2. CASE pageStatus' = status /\ stream' = StreamFor(status, s)
  BY <1>2, StreamForTyped
<1> QED
  BY <1>1, <1>2 DEF SetStatus

(* A step that adds no event and moves the payment on or leaves it.            *)
LEMMA PageStep ==
  ASSUME PageInv, UNCHANGED logs,
         (payment' = payment \/ (payment \in {"none", "pending"} /\ payment' \in Statuses)),
         session' \in 0 .. Len(logs), stream' \in [session : 0 .. Len(logs), got : Nat],
         opening' \in [pc : {"none", "answered", "done", "lost"}, session : 0 .. Len(logs),
                       status : {"form"} \cup Statuses],
         pageStatus' \in {"loading", "form", "processing", "error", "left"} \cup Statuses,
         opening'.status \in {"form", opening.status},
         pageStatus' \in Statuses => pageStatus' = pageStatus \/ Told(pageStatus', payment)
  PROVE  PageInv'
<1>0. PageTypes /\ EventsTold /\ OpeningTold /\ PageTold
  BY DEF PageInv
<1>1. \A status : Told(status, payment) => Told(status, payment')
  BY <1>0, TellingLasts
<1>2. PageTypes'
  BY <1>0 DEF PageTypes
<1>3. EventsTold'
  BY <1>0, <1>1 DEF EventsTold
<1>4. OpeningTold' /\ PageTold'
  BY <1>0, <1>1 DEF OpeningTold, PageTold
<1> QED
  BY <1>2, <1>3, <1>4 DEF PageInv
(* The page is told: the answer of the session, an event, an error.            *)
LEMMA LoadingPreserves ==
  ASSUME PageInv, SessionOpened \/ SessionLost \/ ElementRefused \/ Reload
  PROVE  PageInv'
<1>0. PageTypes /\ OpeningTold /\ UNCHANGED <<logs, payment>>
  BY DEF PageInv, SessionOpened, SessionLost, ElementRefused, Reload
<1>1. CASE SessionOpened
  <2>1. /\ opening.session \in 0 .. Len(logs) /\ opening.status \in {"form"} \cup Statuses
        /\ opening.status = "form" \/ Told(opening.status, payment)
        /\ session' = opening.session /\ SetStatus(opening.status, opening.session)
        /\ opening' = [opening EXCEPT !.pc = "done"]
    BY <1>0, <1>1 DEF SessionOpened, PageTypes, OpeningTold
  <2>2. /\ opening' \in [pc : {"none", "answered", "done", "lost"}, session : 0 .. Len(logs),
                          status : {"form"} \cup Statuses]
        /\ opening'.status = opening.status
    BY <1>0, <2>1 DEF PageTypes
  <2> QED
    BY <1>0, <2>1, <2>2, SetStatusTyped, PageStep DEF Statuses
<1>2. CASE SessionLost
  BY <1>0, <1>2, PageStep DEF SessionLost, PageTypes
<1>3. CASE ElementRefused
  <2>1. SetStatus("error", 0) /\ UNCHANGED <<opening, session>> /\ 0 \in 0 .. Len(logs)
    BY <1>0, <1>3 DEF ElementRefused, PageTypes
  <2> QED
    BY <1>0, <2>1, SetStatusTyped, PageStep DEF PageTypes, Statuses
<1>4. CASE Reload
  <2>1. /\ pageStatus' = "loading" /\ session' = 0 /\ opening' = NotAsked /\ stream' = NoStream
        /\ 0 \in 0 .. Len(logs)
    BY <1>0, <1>4 DEF Reload, PageTypes
  <2> QED
    BY <1>0, <2>1, PageStep DEF NotAsked, NoStream, Statuses
<1> QED
  BY <1>1, <1>2, <1>3, <1>4

LEMMA SubmittingPreserves ==
  ASSUME PageInv,
         \/ HandleSubmit
         \/ \E s \in submits : \/ \E outcome \in Final \cup {"pending"} : SubmitCheckout(s, outcome)
                               \/ SubmitAccepted(s) \/ SubmitFailed(s)
         \/ \E outcome \in Final : Settle(outcome)
  PROVE  PageInv'
<1>0. PageTypes /\ UNCHANGED <<logs, session, opening>>
  BY DEF PageInv, HandleSubmit, SubmitCheckout, SubmitAccepted, SubmitFailed, Answered, Settle
<1>1. CASE HandleSubmit
  <2>1. SetStatus("processing", session) /\ UNCHANGED payment
    BY <1>1 DEF HandleSubmit
  <2> QED
    BY <1>0, <2>1, SetStatusTyped, PageStep DEF PageTypes, Statuses
<1>2. ASSUME NEW s \in submits, NEW outcome \in Final \cup {"pending"}, SubmitCheckout(s, outcome)
      PROVE  PageInv'
  <2>1. /\ UNCHANGED <<pageStatus, stream>>
        /\ (payment' = payment \/ (payment = "none" /\ payment' \in Statuses))
    BY <1>2 DEF SubmitCheckout, Final, Statuses
  <2> QED
    BY <1>0, <2>1, PageStep DEF PageTypes
<1>3. ASSUME NEW s \in submits, SubmitAccepted(s)
      PROVE  PageInv'
  <2>1. UNCHANGED <<pageStatus, stream, payment>>
    BY <1>3 DEF SubmitAccepted, Answered, SetStatus
  <2> QED
    BY <1>0, <2>1, PageStep DEF PageTypes
<1>4. ASSUME NEW s \in submits, SubmitFailed(s)
      PROVE  PageInv'
  <2>1. UNCHANGED payment /\ (SetStatus("form", session) \/ UNCHANGED <<pageStatus, stream>>)
    BY <1>4 DEF SubmitFailed, Answered
  <2> QED
    BY <1>0, <2>1, SetStatusTyped, PageStep DEF PageTypes, Statuses
<1>5. ASSUME NEW outcome \in Final, Settle(outcome)
      PROVE  PageInv'
  <2>1. UNCHANGED <<pageStatus, stream>> /\ payment = "pending" /\ payment' \in Statuses
    BY <1>5 DEF Settle, Final, Statuses
  <2> QED
    BY <1>0, <2>1, PageStep DEF PageTypes
<1> QED
  BY <1>1, <1>2, <1>3, <1>4, <1>5

LEMMA ReceivePreserves ==
  ASSUME PageInv, ReceiveEvent
  PROVE  PageInv'
<1> DEFINE event == logs[stream.session][stream.got + 1]
<1>0. PageTypes /\ EventsTold /\ UNCHANGED <<logs, session, opening, payment>>
  BY DEF PageInv, ReceiveEvent
<1>1. stream \in [session : 0 .. Len(logs), got : Nat] /\ session \in 0 .. Len(logs)
  BY <1>0 DEF PageTypes
<1>2. stream.session \in DOMAIN logs /\ stream.got + 1 \in DOMAIN logs[stream.session]
  <2>1. stream.session \in DOMAIN logs /\ stream.got < Len(logs[stream.session])
    BY <1>0, <1>1 DEF ReceiveEvent, PageTypes
  <2>2. logs[stream.session] \in Seq(PageEvent)
    BY <1>0, <2>1 DEF PageTypes
  <2> QED
    BY <1>1, <2>1, <2>2
<1>3. event.type = "three_ds.open" \/ Told(event.status, payment)
  BY <1>0, <1>2 DEF EventsTold
<1>4. [stream EXCEPT !.got = @ + 1] \in [session : 0 .. Len(logs), got : Nat]
  BY <1>1
<1>5. CASE event.type = "navigate"
  <2>1. pageStatus' = "left" /\ stream' = NoStream
    BY <1>5 DEF ReceiveEvent
  <2>2. NoStream \in [session : 0 .. Len(logs), got : Nat]
    BY <1>1 DEF NoStream
  <2> QED
    BY <1>0, <1>1, <2>1, <2>2, PageStep DEF PageTypes, Statuses
<1>6. CASE event.type # "navigate" /\ (event.type = "three_ds.open" \/ event.status = pageStatus)
  <2>1. UNCHANGED pageStatus /\ stream' = [stream EXCEPT !.got = @ + 1]
    BY <1>6 DEF ReceiveEvent
  <2> QED
    BY <1>0, <1>1, <1>4, <2>1, PageStep DEF PageTypes
<1>7. CASE event.type # "navigate" /\ ~(event.type = "three_ds.open" \/ event.status = pageStatus)
  <2>1. SetStatus(event.status, session)
    BY <1>7 DEF ReceiveEvent
  <2>2. Told(event.status, payment) /\ event.status \in Statuses
    BY <1>0, <1>3, <1>7 DEF Told, PageTypes, Statuses
  <2> HIDE DEF event
  <2> QED
    BY <1>0, <1>1, <2>1, <2>2, SetStatusTyped, PageStep DEF PageTypes
<1> QED
  BY <1>5, <1>6, <1>7

(* What is said to the page: the answer to its request, and a new event.       *)
LEMMA AnswerPreserves ==
  ASSUME PageInv, OpenCheckoutSession \/ \E type \in {"show_result", "navigate", "three_ds.open"} : Publish(type)
  PROVE  PageInv'
<1>0. PageTypes /\ EventsTold /\ OpeningTold /\ PageTold
  BY DEF PageInv
<1>1. logs \in Seq(Seq(PageEvent)) /\ Len(logs) \in Nat
  BY <1>0 DEF PageTypes
<1>2. CASE OpenCheckoutSession
  <2>1. /\ UNCHANGED <<pageStatus, session, stream, payment>>
        /\ logs' = Append(logs, << >>)
        /\ opening' = [pc |-> "answered", session |-> Len(logs) + 1, status |-> CurrentStatus]
    BY <1>2 DEF OpenCheckoutSession
  <2>2. /\ logs' \in Seq(Seq(PageEvent)) /\ Len(logs') = Len(logs) + 1
        /\ DOMAIN logs' = DOMAIN logs \cup {Len(logs) + 1} /\ logs'[Len(logs) + 1] = << >>
        /\ \A s \in DOMAIN logs : logs'[s] = logs[s]
    <3>1. << >> \in Seq(PageEvent)
      OBVIOUS
    <3> QED
      BY <1>1, <2>1, <3>1
  <2>3. CurrentStatus \in {"form"} \cup Statuses
        /\ (CurrentStatus = "form" \/ Told(CurrentStatus, payment))
    BY <1>0 DEF CurrentStatus, PageTypes, Told, Statuses
  <2>4. PageTypes'
    BY <1>0, <1>1, <2>1, <2>2, <2>3 DEF PageTypes
  <2>5. EventsTold'
    <3> SUFFICES ASSUME NEW s \in DOMAIN logs', NEW i \in DOMAIN logs'[s],
                        logs'[s][i].type # "three_ds.open"
                 PROVE  Told(logs'[s][i].status, payment)
      BY <2>1 DEF EventsTold
    <3>1. s # Len(logs) + 1
      BY <2>2
    <3> QED
      BY <1>0, <2>2, <3>1 DEF EventsTold
  <2>6. OpeningTold' /\ PageTold'
    BY <1>0, <2>1, <2>3 DEF OpeningTold, PageTold
  <2> QED
    BY <2>4, <2>5, <2>6 DEF PageInv
<1>3. ASSUME NEW type \in {"show_result", "navigate", "three_ds.open"}, Publish(type)
      PROVE  PageInv'
  <2> DEFINE n == Len(logs)
             log == logs[Len(logs)]
  <2>1. /\ UNCHANGED <<pageStatus, session, stream, payment, opening>>
        /\ logs' = [logs EXCEPT ![n] = Append(log, Event(type))]
        /\ payment # "none" /\ n \in DOMAIN logs /\ log \in Seq(PageEvent)
    BY <1>1, <1>3 DEF Publish
  <2>2. /\ Event(type) \in PageEvent
        /\ Event(type).type # "three_ds.open" => Told(Event(type).status, payment)
    BY <1>0, <2>1 DEF Event, PageEvent, PageTypes, Told
  <2>3. /\ Append(log, Event(type)) \in Seq(PageEvent)
        /\ \A i \in DOMAIN Append(log, Event(type)) :
              Append(log, Event(type))[i] = Event(type) \/ (i \in DOMAIN log /\ Append(log, Event(type))[i] = log[i])
    BY <2>1, <2>2
  <2> HIDE DEF log
  <2>4. /\ logs' \in Seq(Seq(PageEvent)) /\ Len(logs') = Len(logs) /\ DOMAIN logs' = DOMAIN logs
        /\ logs'[n] = Append(log, Event(type))
        /\ \A s \in DOMAIN logs : s # n => logs'[s] = logs[s]
    BY <1>1, <2>1, <2>3
  <2>5. PageTypes'
    BY <1>0, <2>1, <2>4 DEF PageTypes
  <2>6. EventsTold'
    <3> SUFFICES ASSUME NEW s \in DOMAIN logs', NEW i \in DOMAIN logs'[s],
                        logs'[s][i].type # "three_ds.open"
                 PROVE  Told(logs'[s][i].status, payment)
      BY <2>1 DEF EventsTold
    <3>1. CASE s = n
      BY <1>0, <2>1, <2>2, <2>3, <2>4, <3>1 DEF EventsTold, log
    <3>2. CASE s # n
      BY <1>0, <2>4, <3>2 DEF EventsTold
    <3> QED
      BY <3>1, <3>2
  <2>7. OpeningTold' /\ PageTold'
    BY <1>0, <2>1 DEF OpeningTold, PageTold
  <2> QED
    BY <2>5, <2>6, <2>7 DEF PageInv
<1> QED
  BY <1>2, <1>3

(* The inductive invariant of the page, for any number of loads and events.    *)
THEOREM PageInvariance == PageSpec => []PageInv
<1>1. PageInit => PageInv
  <2>1. PageInit => PageTypes
    BY DEF PageInit, PageTypes, NotAsked, NoStream, Statuses
  <2> QED
    BY <2>1 DEF PageInit, PageInv, EventsTold, OpeningTold, PageTold, NotAsked, Statuses
<1>2. PageInv /\ [PageNext]_pageVars => PageInv'
  <2>1. PageInv /\ UNCHANGED pageVars => PageInv'
    BY DEF PageInv, PageTypes, EventsTold, OpeningTold, PageTold, pageVars
  <2> QED
    BY <2>1, LoadingPreserves, SubmittingPreserves, ReceivePreserves, AnswerPreserves DEF PageNext
<1> QED
  BY <1>1, <1>2, PTL DEF PageSpec

(* CheckoutPage.tsx: an outcome the page shows is the payment's, through       *)
(* reloads, conflicts, replayed logs and late answers.                         *)
THEOREM OutcomeShown == PageSpec => []PageShowsPayment
<1>1. PageInv => PageShowsPayment
  BY DEF PageInv, PageTypes, PageTold, Told, PageShowsPayment, Rendered, Statuses
<1> QED
  BY <1>1, PageInvariance, PTL
=============================================================================
