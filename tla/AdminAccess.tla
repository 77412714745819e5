----------------------------- MODULE AdminAccess -----------------------------
(* Who gets into the control plane: the bootstrap token of the first start,    *)
(* the recovery token, session cookies with CSRF tokens, and the dashboard     *)
(* pages that hold them.  control-plane/auth.ts, auth-routes.ts,               *)
(* require-admin.ts, security/admin-auth.ts, core/bootstrap.ts,                *)
(* core/readiness.ts; apps/web/src/admin.                                      *)
(*                                                                             *)
(* One browser with one cookie and several tabs.  A session stands for its     *)
(* token and its CSRF token, both random.                                      *)
EXTENDS Integers, Sequences, FiniteSets

CONSTANTS
  Tabs,
  SessionIdle, SessionAbsolute,   \* SESSION_IDLE_MS, SESSION_ABSOLUTE_MS in ticks
  MaxSessions,                    \* bound on sessions
  AdminHorizon                    \* bound on the clock

ASSUME AdminAssumption == SessionIdle \in Nat \ {0} /\ SessionAbsolute \in Nat \ {0}

VARIABLES
  proc,       \* "down", "hashing", "stored", "up"
  adminEnv,   \* SIM_ADMIN_TOKEN is set
  adminNow,   \* the simulator clock
  manual,     \* it is a manual one, and restarts at its first start
  bootRow,    \* table bootstrap_tokens: "none", "fresh", "consumed"
  printed,    \* the terminal has shown the token of the row
  sessions,   \* table admin_sessions; deleted rows are marked
  cookie,     \* the browser's cookie: an index of sessions, or 0
  tabs,       \* the pages
  served      \* the last step's request to an admin route, if it was served

adminVars == <<proc, adminEnv, adminNow, manual, bootRow, printed, sessions, cookie, tabs, served>>

Nothing == [session |-> 0, by |-> "none", csrf |-> 0]
Checking == [page |-> "checking", csrf |-> 0, token |-> "none"]

AdminInit ==
  /\ proc = "down" /\ adminEnv = FALSE
  /\ adminNow = 0 /\ manual \in BOOLEAN
  /\ bootRow = "none" /\ printed = FALSE
  /\ sessions = << >> /\ cookie = 0
  /\ tabs = [t \in Tabs |-> Checking]
  /\ served = Nothing

-----------------------------------------------------------------------------
(* The process. *)

Start ==
  /\ proc = "down"
  /\ adminEnv' \in BOOLEAN
  /\ proc' = IF bootRow = "none" THEN "hashing" ELSE "up"
  /\ served' = Nothing
  /\ UNCHANGED <<adminNow, manual, bootRow, printed, sessions, cookie, tabs>>

(* ensureBootstrapToken: hash, await, insert; then main prints.                *)
StoreToken ==
  /\ proc = "hashing"
  /\ bootRow' = "fresh" /\ proc' = "stored" /\ served' = Nothing
  /\ UNCHANGED <<adminEnv, adminNow, manual, printed, sessions, cookie, tabs>>
PrintToken ==
  /\ proc = "stored"
  /\ printed' = TRUE /\ proc' = "up" /\ served' = Nothing
  /\ UNCHANGED <<adminEnv, adminNow, manual, bootRow, sessions, cookie, tabs>>

(* The process dies with the verifications it was doing; a manual clock is     *)
(* where it first started when the process is back.                            *)
Stop ==
  /\ proc # "down"
  /\ proc' = "down" /\ served' = Nothing
  /\ adminNow' = IF manual THEN 0 ELSE adminNow
  /\ tabs' = [t \in Tabs |-> [tabs[t] EXCEPT !.token = "none"]]
  /\ UNCHANGED <<adminEnv, manual, bootRow, printed, sessions, cookie>>

AdminTick ==
  /\ adminNow < AdminHorizon
  /\ adminNow' = adminNow + 1 /\ served' = Nothing
  /\ UNCHANGED <<proc, adminEnv, manual, bootRow, printed, sessions, cookie, tabs>>

-----------------------------------------------------------------------------
(* Sessions. *)

AdminSession == [created : Nat, idle : Nat, absolute : Nat, touched : Nat, by : {"bootstrap", "login"},
                 live : BOOLEAN]

CreateNewSession(by) ==
  [created |-> adminNow, idle |-> adminNow + SessionIdle,
   absolute |-> adminNow + SessionAbsolute, touched |-> adminNow, by |-> by, live |-> TRUE]

(* A deleted row leaves nothing but the fact that it was there.                *)
Deleted(s) ==
  [s EXCEPT !.live = FALSE, !.created = 0, !.idle = 0, !.absolute = 0, !.touched = 0]

(* Mutant of FindValidSession: the idle limit alone, which every look extends. *)
FindValidSessionIdle(s) ==
  s # 0 /\ sessions[s].live /\ adminNow <= sessions[s].idle

FindValidSession(s) ==
  /\ s # 0 /\ sessions[s].live
  /\ adminNow <= sessions[s].idle /\ adminNow <= sessions[s].absolute

TouchSessionIdleExpiry(s) ==
  sessions' = [sessions EXCEPT ![s].idle = adminNow + SessionIdle, ![s].touched = adminNow]

SetTab(t, page, csrf) == tabs' = [tabs EXCEPT ![t].page = page, ![t].csrf = csrf, ![t].token = "none"]

(* A new session: its row, its cookie in the browser, its CSRF token in the    *)
(* page that asked for it.                                                     *)
Admit(t, by) ==
  /\ Len(sessions) < MaxSessions
  /\ sessions' = Append(sessions, CreateNewSession(by))
  /\ cookie' = Len(sessions) + 1
  /\ SetTab(t, "in", Len(sessions) + 1)

-----------------------------------------------------------------------------
(* Getting in.  The exchange of the bootstrap token reads the row, waits for   *)
(* argon2, and then marks the row consumed without reading it again.           *)

BeginBootstrap(t, token) ==
  /\ proc = "up" /\ tabs[t].page = "out" /\ tabs[t].token = "none" /\ bootRow = "fresh"
  /\ token = "right" => printed
  /\ tabs' = [tabs EXCEPT ![t].token = token]
  /\ served' = Nothing
  /\ UNCHANGED <<proc, adminEnv, adminNow, manual, bootRow, printed, sessions, cookie>>

FinishBootstrap(t) ==
  /\ proc = "up" /\ tabs[t].token # "none"
  /\ IF tabs[t].token = "right"
     THEN bootRow' = "consumed" /\ Admit(t, "bootstrap")
     ELSE SetTab(t, "out", 0) /\ UNCHANGED <<bootRow, sessions, cookie>>
  /\ served' = Nothing
  /\ UNCHANGED <<proc, adminEnv, adminNow, manual, printed>>

LoginWithRecoveryToken(t) ==
  /\ proc = "up" /\ adminEnv /\ tabs[t].page = "out" /\ tabs[t].token = "none"
  /\ Admit(t, "login") /\ served' = Nothing
  /\ UNCHANGED <<proc, adminEnv, adminNow, manual, bootRow, printed>>

(* A page is opened or reloaded: it is told whether the cookie is good, and    *)
(* with it the session's CSRF token.                                           *)
LoadPage(t) ==
  /\ proc = "up"
  /\ IF FindValidSession(cookie)
     THEN TouchSessionIdleExpiry(cookie) /\ SetTab(t, "in", cookie)
     ELSE SetTab(t, "out", 0) /\ UNCHANGED sessions
  /\ served' = Nothing
  /\ UNCHANGED <<proc, adminEnv, adminNow, manual, bootRow, printed, cookie>>

Logout(t) ==
  /\ proc = "up" /\ tabs[t].page = "in"
  /\ sessions' = IF cookie = 0 THEN sessions ELSE [sessions EXCEPT ![cookie] = Deleted(@)]
  /\ cookie' = 0
  /\ SetTab(t, "out", 0) /\ served' = Nothing
  /\ UNCHANGED <<proc, adminEnv, adminNow, manual, bootRow, printed>>

-----------------------------------------------------------------------------
(* Using it. *)

AuthenticateAdminRequest(write, csrf) ==
  FindValidSession(cookie) /\ (write => csrf = cookie)

(* A request of a page: the browser adds the cookie, the page its CSRF token.  *)
AdminRequest(t, write) ==
  /\ proc = "up" /\ tabs[t].page = "in"
  /\ served' = IF AuthenticateAdminRequest(write, tabs[t].csrf)
               THEN [session |-> cookie, by |-> IF write THEN "write" ELSE "read",
                     csrf |-> tabs[t].csrf]
               ELSE Nothing
  /\ UNCHANGED <<proc, adminEnv, adminNow, manual, bootRow, printed, sessions, cookie, tabs>>

(* A script with the recovery token needs neither.                             *)
BearerRequest ==
  /\ proc = "up" /\ adminEnv
  /\ served' = [session |-> 0, by |-> "bearer", csrf |-> 0]
  /\ UNCHANGED <<proc, adminEnv, adminNow, manual, bootRow, printed, sessions, cookie, tabs>>

ComputeReadiness == proc = "up" /\ (adminEnv \/ bootRow = "consumed")

AdminNext ==
  \/ Start \/ StoreToken \/ PrintToken \/ Stop \/ AdminTick \/ BearerRequest
  \/ \E t \in Tabs :
       \/ \E token \in {"right", "wrong"} : BeginBootstrap(t, token)
       \/ FinishBootstrap(t)
       \/ LoginWithRecoveryToken(t)
       \/ LoadPage(t)
       \/ Logout(t)
       \/ \E write \in BOOLEAN : AdminRequest(t, write)

AdminSpec == AdminInit /\ [][AdminNext]_adminVars

-----------------------------------------------------------------------------
(* Properties. *)

AdminTypeOK ==
  /\ proc \in {"down", "hashing", "stored", "up"}
  /\ bootRow \in {"none", "fresh", "consumed"} /\ (proc = "hashing" => bootRow = "none")
  /\ \A s \in DOMAIN sessions : sessions[s] \in AdminSession
  /\ cookie \in 0 .. Len(sessions)
  /\ \A t \in Tabs : /\ tabs[t].csrf \in 0 .. Len(sessions)
                     /\ (tabs[t].page = "in") = (tabs[t].csrf # 0)

(* auth.ts: by the clock's reading, what is served was asked for within 24     *)
(* hours of the session's creation, however much it was used, and 12 hours of  *)
(* its last look, and never once it was logged out, also across restarts and   *)
(* in every tab that still shows it.  The reading of a real clock is the time  *)
(* that has passed; a manual one starts over with the process, and what had    *)
(* run out by it is served again.                                              *)
ServedWithinLife ==
  served.session # 0 =>
    LET s == sessions[served.session] IN
      /\ s.live
      /\ adminNow - s.created <= SessionAbsolute /\ adminNow - s.touched <= SessionIdle

(* auth.ts: a write with the cookie carries the CSRF token of that session,    *)
(* not the one of an earlier session that another tab still holds.             *)
WritesCarryCsrf == served.by = "write" => served.csrf = served.session

(* auth.ts: the bootstrap token is spent with the session it buys.  No wrong   *)
(* token, crash or overlapping exchange leaves it spent with nobody let in, or *)
(* somebody let in and the token still good.                                   *)
TokenBuysSession == bootRow = "consumed" <=> \E s \in DOMAIN sessions : sessions[s].by = "bootstrap"

(* readiness.ts: without the recovery token an instance calls itself ready     *)
(* only after somebody got in with the bootstrap token.                        *)
ReadyOnceEntered ==
  ComputeReadiness /\ ~adminEnv => \E s \in DOMAIN sessions : sessions[s].by = "bootstrap"

(* auth.ts, readiness.ts: what is served was asked for within a session the    *)
(* clock still grants and with its own CSRF token, and the bootstrap token and *)
(* with it readiness turn exactly when a session is made.                      *)
(* Two exchanges that overlap both buy one, and a ready instance whose session *)
(* ended has no way in: neither is excluded.                                   *)
AccessSound ==
  AdminTypeOK /\ ServedWithinLife /\ WritesCarryCsrf /\ TokenBuysSession /\ ReadyOnceEntered
=============================================================================
