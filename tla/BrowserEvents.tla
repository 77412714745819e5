---------------------------- MODULE BrowserEvents ----------------------------
(* The durable channel from scenario timelines to open checkout pages:         *)
(* sessions with a heartbeat, persisted browser events numbered per session,   *)
(* and their server-sent streams.  core/browser-events.ts, core/checkout-      *)
(* sessions-repository.ts, checkout/checkout-routes.ts and the reconnecting    *)
(* EventSource of apps/web/src/checkout/CheckoutPage.tsx.                      *)
(*                                                                             *)
(* All sessions belong to one intention.  The handlers modelled here do not    *)
(* await, so each is one step; the streams live in memory, the rest in SQLite. *)
EXTENDS Integers, Sequences, FiniteSets, SequencesExt

CONSTANTS
  Window,      \* HEARTBEAT_ACTIVE_WINDOW_MS (20 s)
  Interval,    \* HEARTBEAT_INTERVAL_MS (15 s)
  MaxSessions, \* bound on rendered pages
  MaxEvents,   \* bound on browser actions
  MaxTime      \* bound on the instance clock

ASSUME TimingAssumption ==
  /\ Interval \in Nat \ {0} /\ Window \in Nat
  /\ Interval <= Window
  /\ {MaxSessions, MaxEvents, MaxTime} \subseteq Nat

VARIABLES
  mode,     \* clock_state.mode, chosen at the first start
  now,      \* the instance clock
  sessions, \* table checkout_sessions, in insertion order
  events,   \* table browser_events, in insertion order
  streams   \* the server-sent stream of each session

vars == <<mode, now, sessions, events, streams>>

NavigationTypes == {"browser.redirect"}
EventTypes == NavigationTypes \cup {"browser.show_result"}

Closed == [open |-> FALSE, after |-> 0, sent |-> << >>, beat |-> 0, beaten |-> FALSE]

Init ==
  /\ mode \in {"real", "manual"}
  /\ now = 0
  /\ sessions = << >>
  /\ events = << >>
  /\ streams = << >>

-----------------------------------------------------------------------------
(* Rows. *)

EventsOf(s) == {n \in DOMAIN events : events[n].session = s}
SeqsOf(s) == {events[n].seq : n \in EventsOf(s)}

(* Mutant of NextEventSeq: one numbering for all sessions of the checkout. *)
NextEventSeqGlobal(s) == Len(events) + 1

NextEventSeq(s) == Max({0} \cup SeqsOf(s)) + 1

(* Mutant of IsSessionActive: the age of the session, not of its heartbeat. *)
IsSessionActiveByAge(s) == now - sessions[s].createdAt <= Window

IsSessionActive(s) == now - sessions[s].heartbeat <= Window

(* findLatestCheckoutSessionForIntention: a stable sort by creation time, so   *)
(* of sessions created at the same instant the first row wins.                 *)
Newest(s) == \A r \in DOMAIN sessions : sessions[r].createdAt <= sessions[s].createdAt
LatestSession == Min({s \in DOMAIN sessions : Newest(s)})

(* Rows in the order of their numbers: the n-th has n - 1 before it.           *)
InOrder(seqs) ==
  [n \in 1 .. Cardinality(seqs) |->
     CHOOSE seq \in seqs : Cardinality({earlier \in seqs : earlier < seq}) = n - 1]

(* Mutant of Backlog: the cursor itself is sent again. *)
BacklogFrom(s, after) == InOrder({seq \in SeqsOf(s) : seq >= after})

(* listBrowserEventsAfter *)
Backlog(s, after) == InOrder({seq \in SeqsOf(s) : seq > after})

-----------------------------------------------------------------------------
(* Pages. *)

(* POST .../open: every render has a session of its own. *)
OpenSession ==
  /\ Len(sessions) < MaxSessions
  /\ sessions' = Append(sessions, [createdAt |-> now, heartbeat |-> now])
  /\ streams' = Append(streams, Closed)
  /\ UNCHANGED <<mode, now, events>>

(* What the page remembers: the last id it was sent.                           *)
LastEventId(s) == IF streams[s].sent = << >> THEN streams[s].after ELSE Last(streams[s].sent)

(* GET .../events: the backlog is written and the listener registered in one   *)
(* segment.  An EventSource that reconnects sends its last id; the page's      *)
(* effect opens a new one, from zero, when its status changes.                 *)
Connect(s, after) ==
  /\ ~streams[s].open
  /\ after \in {0, LastEventId(s)}
  /\ streams' = [streams EXCEPT ![s] =
       [open |-> TRUE, after |-> after, sent |-> Backlog(s, after),
        beat |-> Interval, beaten |-> FALSE]]
  /\ UNCHANGED <<mode, now, sessions, events>>

(* The request closes: listener and interval are removed.                      *)
Disconnect(s) ==
  /\ streams[s].open
  /\ streams' = [streams EXCEPT ![s].open = FALSE]
  /\ UNCHANGED <<mode, now, sessions, events>>

(* Mutant of Heartbeat: the time until which the session is active is stored. *)
HeartbeatAhead(s) ==
  /\ streams[s].open
  /\ streams[s].beat = 0
  /\ sessions' = [sessions EXCEPT ![s].heartbeat = now + Window]
  /\ streams' = [streams EXCEPT ![s].beat = Interval, ![s].beaten = TRUE]
  /\ UNCHANGED <<mode, now, events>>

(* touchHeartbeat from the stream's interval. *)
Heartbeat(s) ==
  /\ streams[s].open
  /\ streams[s].beat = 0
  /\ sessions' = [sessions EXCEPT ![s].heartbeat = now]
  /\ streams' = [streams EXCEPT ![s].beat = Interval, ![s].beaten = TRUE]
  /\ UNCHANGED <<mode, now, events>>

(* POST .../ack, by a page that was sent the event. *)
Acknowledge(s, seq) ==
  /\ seq \in Range(streams[s].sent)
  /\ events' = [n \in DOMAIN events |->
       IF n \in EventsOf(s) /\ events[n].seq = seq
       THEN [events[n] EXCEPT !.acked = TRUE] ELSE events[n]]
  /\ sessions' = [sessions EXCEPT ![s].heartbeat = now]
  /\ UNCHANGED <<mode, now, streams>>

-----------------------------------------------------------------------------
(* The scheduler executes a browser action: createBrowserEvent.                *)

StatusOf(s, type) ==
  IF type \in NavigationTypes /\ ~IsSessionActive(s)
  THEN "missed_no_active_browser" ELSE "delivered"

Sent(stream, seq) ==
  IF stream.open THEN [stream EXCEPT !.sent = Append(@, seq)] ELSE stream

(* Without a session, of a headless completion, nothing happens.               *)
CreateBrowserEvent(type) ==
  /\ sessions # << >>
  /\ Len(events) < MaxEvents
  /\ LET s == LatestSession
         row == [session |-> s, seq |-> NextEventSeq(s), type |-> type,
                 status |-> StatusOf(s, type), acked |-> FALSE]
     IN  /\ events' = Append(events, row)
         /\ streams' = [streams EXCEPT ![s] = Sent(@, row.seq)]
  /\ UNCHANGED <<mode, now, sessions>>

-----------------------------------------------------------------------------
(* loadOrInitClock of the next start: clock_state holds the time a manual clock*)
(* was first started at, and advancing it has only changed memory.             *)
TimeAtRestart == IF mode = "manual" THEN 0 ELSE now

(* The server restarts: streams are lost, tables stay.  A session from before  *)
(* may then be from the future of a manual clock.                              *)
Restart ==
  /\ now' = TimeAtRestart
  /\ streams' = [s \in DOMAIN streams |-> [streams[s] EXCEPT !.open = FALSE]]
  /\ UNCHANGED <<mode, sessions, events>>

(* Wall time passes; the intervals of open streams fire on time.  Only a real  *)
(* clock follows it.                                                           *)
Tick ==
  /\ \A s \in DOMAIN streams : streams[s].open => streams[s].beat > 0
  /\ now < MaxTime
  /\ now' = IF mode = "real" THEN now + 1 ELSE now
  /\ streams' = [s \in DOMAIN streams |->
       IF streams[s].open THEN [streams[s] EXCEPT !.beat = @ - 1] ELSE streams[s]]
  /\ UNCHANGED <<mode, sessions, events>>

(* POST /clock/advance *)
Advance ==
  /\ mode = "manual"
  /\ \E time \in now + 1 .. MaxTime : now' = time
  /\ UNCHANGED <<mode, sessions, events, streams>>

(* POST /clock/set: 409 in real mode, and for a time before the clock's.       *)
SetClock(time) ==
  /\ mode = "manual"
  /\ time >= now
  /\ now' = time
  /\ UNCHANGED <<mode, sessions, events, streams>>

Next ==
  \/ OpenSession
  \/ \E s \in DOMAIN sessions :
       \/ \E after \in 0 .. MaxEvents : Connect(s, after)
       \/ Disconnect(s)
       \/ Heartbeat(s)
       \/ \E seq \in 1 .. MaxEvents : Acknowledge(s, seq)
  \/ \E type \in EventTypes : CreateBrowserEvent(type)
  \/ Restart
  \/ Tick
  \/ Advance
  \/ \E time \in 0 .. MaxTime : SetClock(time)

Spec == Init /\ [][Next]_vars

-----------------------------------------------------------------------------
(* Properties. *)

CheckoutSessionRow == [createdAt : 0 .. MaxTime, heartbeat : 0 .. MaxTime]
BrowserEventRow ==
  [session : 1 .. MaxSessions, seq : 1 .. MaxEvents, type : EventTypes,
   status : {"delivered", "missed_no_active_browser"}, acked : BOOLEAN]

(* Rows are well formed, a stream belongs to a session, and under a real clock *)
(* no session is from the future.                                              *)
TypeOK ==
  /\ now \in 0 .. MaxTime
  /\ DOMAIN streams = DOMAIN sessions
  /\ \A s \in DOMAIN sessions :
       /\ sessions[s] \in CheckoutSessionRow
       /\ mode = "real" => sessions[s].createdAt <= sessions[s].heartbeat
                           /\ sessions[s].heartbeat <= now
       /\ streams[s].beat \in 0 .. Interval
  /\ \A n \in DOMAIN events :
       events[n] \in BrowserEventRow /\ events[n].session \in DOMAIN sessions

(* The ids a page sees are 1, 2, 3, ... in the order the actions were          *)
(* executed, whatever other tabs were sent in between: a cursor names a        *)
(* position.                                                                   *)
CursorIsPosition ==
  \A n \in DOMAIN events :
    events[n].seq = Cardinality({m \in 1 .. n : events[m].session = events[n].session})

(* An open stream has written exactly the events after its cursor, in order:   *)
(* none falls between the backlog and the listener, none is written twice.     *)
StreamComplete ==
  \A s \in DOMAIN streams : streams[s].open =>
    streams[s].sent = [n \in 1 .. Cardinality(EventsOf(s)) - streams[s].after |->
                         streams[s].after + n]

(* While a page stays connected under a real clock, its session stays active   *)
(* from its first heartbeat on: no redirect of a live page is recorded as      *)
(* missed.                                                                     *)
SteadyStreamActive ==
  mode = "real" =>
    \A s \in DOMAIN streams :
      streams[s].open /\ streams[s].beaten => IsSessionActive(s)
=============================================================================
