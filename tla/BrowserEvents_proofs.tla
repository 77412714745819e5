------------------------ MODULE BrowserEvents_proofs ------------------------
(* Proofs about BrowserEvents, for any number of sessions and events and for   *)
(* any window that is no shorter than the interval of the heartbeats.          *)
(*                                                                             *)
(* The ids of one session are 1 .. Count(s), which is what makes a cursor a    *)
(* position; every stream, open or closed, has sent a run of them that starts  *)
(* after its cursor, and an open one has sent it to the end.                   *)
EXTENDS BrowserEvents, FiniteSetTheorems, SequenceTheorems, WellFoundedInduction, TLAPS

Count(s) == Cardinality(EventsOf(s))

Stream ==
  [open : BOOLEAN, after : Nat, sent : Seq(Nat), beat : 0 .. Interval, beaten : BOOLEAN]

BrowserShapes ==
  /\ mode \in {"real", "manual"}
  /\ sessions \in Seq(CheckoutSessionRow) /\ Len(sessions) <= MaxSessions
  /\ events \in Seq(BrowserEventRow) /\ Len(events) <= MaxEvents
  /\ streams \in Seq(Stream) /\ Len(streams) = Len(sessions)

SeqsDense == \A s \in DOMAIN sessions : SeqsOf(s) = 1 .. Count(s)

(* What a stream has sent, of an intention's session with `count` events.      *)
Follows(stream, count) ==
  /\ stream.after + Len(stream.sent) <= count
  /\ \A n \in 1 .. Len(stream.sent) : stream.sent[n] = stream.after + n
  /\ stream.open => stream.after + Len(stream.sent) = count

StreamsFollow == \A s \in DOMAIN sessions : Follows(streams[s], Count(s))

(* The heartbeat before and the one to come are an interval apart.             *)
BeatsOnTime ==
  mode = "real" => \A s \in DOMAIN sessions :
    streams[s].open /\ streams[s].beaten => now - sessions[s].heartbeat + streams[s].beat <= Interval

BrowserInv ==
  /\ TypeOK
  /\ BrowserShapes
  /\ CursorIsPosition
  /\ SeqsDense
  /\ StreamsFollow
  /\ BeatsOnTime

-----------------------------------------------------------------------------
(* Numbers and their order.                                                    *)

(* A set of numbers that is not empty has a least one.                         *)
LEMMA LeastExists ==
  ASSUME NEW T, T \subseteq Nat, T # {}
  PROVE  Min(T) \in T /\ \A y \in T : Min(T) <= y
<1> DEFINE R == {ss \in Nat \X Nat : ss[1] < ss[2]}
<1>0. IsWellFoundedOn(R, Nat)
  BY NatLessThanWellFounded DEF OpToRel
<1>1. PICK x \in T : \A y \in T : <<y, x>> \notin R
  BY <1>0, WFMin
<1>2. \A y \in T : x <= y
  <2> SUFFICES ASSUME NEW y \in T, ~(x <= y) PROVE FALSE
    OBVIOUS
  <2>1. x \in Nat /\ y \in Nat /\ y < x
    OBVIOUS
  <2>2. <<y, x>> \in R
    BY <2>1
  <2> QED
    BY <1>1, <2>2
<1> QED
  BY <1>2 DEF Min

LEMMA MaxOfRun ==
  ASSUME NEW c \in Nat
  PROVE  Max({0} \cup (1 .. c)) = c
<1>1. c \in {0} \cup (1 .. c) /\ \A y \in {0} \cup (1 .. c) : c >= y
  OBVIOUS
<1>2. \A x \in {0} \cup (1 .. c) : x >= c => x = c
  OBVIOUS
<1> QED
  BY <1>1, <1>2 DEF Max

(* The n-th of a run of numbers.                                               *)
LEMMA RunInOrder ==
  ASSUME NEW after \in Nat, NEW c \in Nat, after <= c
  PROVE  InOrder(after + 1 .. c) = [n \in 1 .. c - after |-> after + n]
<1> DEFINE run == after + 1 .. c
           before(seq) == {earlier \in run : earlier < seq}
<1>0. /\ after + 1 \in Int /\ c \in Int
      /\ (IF after + 1 > c THEN 0 ELSE c - (after + 1) + 1) = c - after
  OBVIOUS
<1>1. Cardinality(run) = c - after
  BY <1>0, FS_Interval
<1>2. ASSUME NEW seq \in run
      PROVE  Cardinality(before(seq)) = seq - 1 - after
  <2>1. before(seq) = after + 1 .. seq - 1
    OBVIOUS
  <2>2. /\ after + 1 \in Int /\ seq - 1 \in Int
        /\ (IF after + 1 > seq - 1 THEN 0 ELSE (seq - 1) - (after + 1) + 1) = seq - 1 - after
    OBVIOUS
  <2> QED
    BY <2>1, <2>2, FS_Interval
<1>3. ASSUME NEW n \in 1 .. c - after
      PROVE  (CHOOSE seq \in run : Cardinality(before(seq)) = n - 1) = after + n
  <2>1. after + n \in run /\ Cardinality(before(after + n)) = n - 1
    BY <1>2
  <2>2. \A seq \in run : Cardinality(before(seq)) = n - 1 => seq = after + n
    BY <1>2
  <2> QED
    BY <2>1, <2>2
<1> QED
  BY <1>1, <1>3, Zenon DEF InOrder

LEMMA CountTyped ==
  ASSUME BrowserShapes, NEW s
  PROVE  Count(s) \in Nat /\ Count(s) <= Len(events) /\ IsFiniteSet(EventsOf(s))
<1>1. EventsOf(s) \subseteq 1 .. Len(events) /\ Len(events) \in Nat
  BY DEF EventsOf, BrowserShapes
<1>2. IsFiniteSet(1 .. Len(events)) /\ Cardinality(1 .. Len(events)) = Len(events)
  <2>1. 1 \in Int /\ Len(events) \in Int /\ (IF 1 > Len(events) THEN 0 ELSE Len(events) - 1 + 1) = Len(events)
    BY <1>1
  <2> QED
    BY <2>1, FS_Interval
<1> QED
  BY <1>1, <1>2, FS_Subset, FS_CardinalityType DEF Count

LEMMA LatestSessionExists ==
  ASSUME BrowserInv, sessions # << >>
  PROVE  LatestSession \in DOMAIN sessions
<1> DEFINE T == {s \in DOMAIN sessions : Newest(s)}
<1>1. sessions \in Seq(CheckoutSessionRow) /\ DOMAIN sessions \subseteq Nat
      /\ Len(sessions) \in DOMAIN sessions
      /\ \A r \in DOMAIN sessions : r <= Len(sessions)
  BY DEF BrowserInv, BrowserShapes
<1> DEFINE left(s) == MaxTime - sessions[s].createdAt
           ages == {left(s) : s \in DOMAIN sessions}
<1>2. \A s \in DOMAIN sessions : sessions[s].createdAt \in 0 .. MaxTime
  <2>1. \A s \in DOMAIN sessions : sessions[s] \in CheckoutSessionRow
    BY <1>1
  <2> QED
    BY <2>1 DEF CheckoutSessionRow
<1>3. ages \subseteq Nat /\ ages # {}
  <2>1. MaxTime \in Nat
    BY TimingAssumption
  <2>2. \A s \in DOMAIN sessions : left(s) \in Nat
    BY <1>2, <2>1
  <2>3. left(Len(sessions)) \in ages
    BY <1>1
  <2> QED
    BY <2>2, <2>3
<1>4. Min(ages) \in ages /\ \A age \in ages : Min(ages) <= age
  <2> HIDE DEF ages
  <2> QED
    BY <1>3, LeastExists
<1>5. PICK s \in DOMAIN sessions : left(s) = Min(ages)
  BY <1>4
<1>6. Newest(s)
  <2>1. \A r \in DOMAIN sessions : left(s) <= left(r)
    BY <1>4, <1>5
  <2> QED
    BY <1>2, <2>1, TimingAssumption DEF Newest
<1>7. Min(T) \in T
  BY <1>1, <1>5, <1>6, LeastExists
<1> QED
  BY <1>7 DEF LatestSession

LEMMA FunctionIsSequence ==
  ASSUME NEW S, NEW n \in Nat, NEW f \in [1 .. n -> S]
  PROVE  f \in Seq(S) /\ Len(f) = n
  OBVIOUS

-----------------------------------------------------------------------------
(* The clock, the sessions and the streams, while no event is added.           *)

LEMMA StreamsStep ==
  ASSUME BrowserInv, UNCHANGED <<mode, events>>,
         now' \in 0 .. MaxTime, mode = "real" => now <= now',
         sessions' \in Seq(CheckoutSessionRow), Len(sessions') = Len(sessions),
         streams' \in Seq(Stream), Len(streams') = Len(sessions),
         \A s \in DOMAIN sessions :
           /\ sessions'[s].createdAt = sessions[s].createdAt
           /\ sessions'[s].heartbeat \in {sessions[s].heartbeat, now'}
           /\ Follows(streams'[s], Count(s))
           /\ mode = "real" /\ streams'[s].open /\ streams'[s].beaten =>
                now' - sessions'[s].heartbeat + streams'[s].beat <= Interval
  PROVE  BrowserInv'
<1>0. TypeOK /\ BrowserShapes /\ CursorIsPosition /\ SeqsDense
  BY DEF BrowserInv
<1>1. /\ DOMAIN sessions' = DOMAIN sessions /\ DOMAIN streams' = DOMAIN sessions
      /\ now \in Nat /\ now' \in Nat
  BY <1>0 DEF BrowserShapes, TypeOK
<1>2. \A s : Count(s)' = Count(s) /\ SeqsOf(s)' = SeqsOf(s)
  BY DEF Count, SeqsOf, EventsOf
<1>3. BrowserShapes'
  BY <1>0, <1>1 DEF BrowserShapes
<1>4. TypeOK'
  <2>1. ASSUME NEW s \in DOMAIN sessions
        PROVE  /\ sessions'[s] \in CheckoutSessionRow
               /\ mode = "real" => sessions'[s].createdAt <= sessions'[s].heartbeat
                                   /\ sessions'[s].heartbeat <= now'
               /\ streams'[s].beat \in 0 .. Interval
    <3>1. sessions'[s] \in CheckoutSessionRow /\ streams'[s] \in Stream
          /\ sessions[s] \in CheckoutSessionRow
      BY <1>0, <1>1 DEF BrowserShapes
    <3>2. /\ sessions[s].createdAt \in Nat /\ sessions[s].heartbeat \in Nat
          /\ mode = "real" => /\ sessions[s].createdAt <= sessions[s].heartbeat
                              /\ sessions[s].heartbeat <= now
      BY <1>0, <3>1 DEF TypeOK, CheckoutSessionRow
    <3>3. streams'[s].beat \in 0 .. Interval
      BY <3>1 DEF Stream
    <3>4. CASE sessions'[s].heartbeat = sessions[s].heartbeat
      BY <1>1, <3>1, <3>2, <3>3, <3>4
    <3>5. CASE sessions'[s].heartbeat = now'
      BY <1>1, <3>1, <3>2, <3>3, <3>5
    <3> QED
      BY <3>4, <3>5
  <2>2. \A n \in DOMAIN events' :
          events'[n] \in BrowserEventRow /\ events'[n].session \in DOMAIN sessions'
    BY <1>0, <1>1 DEF TypeOK
  <2> QED
    BY <1>1, <2>1, <2>2 DEF TypeOK
<1>6. CursorIsPosition' /\ SeqsDense'
  BY <1>0, <1>1, <1>2 DEF CursorIsPosition, SeqsDense
<1>7. StreamsFollow' /\ BeatsOnTime'
  BY <1>1, <1>2 DEF StreamsFollow, BeatsOnTime
<1> QED
  BY <1>3, <1>4, <1>6, <1>7 DEF BrowserInv

(* The same of a step that touches the stream of one session alone.            *)
LEMMA OneStreamStep ==
  ASSUME BrowserInv, UNCHANGED <<mode, events, now>>,
         NEW s \in DOMAIN sessions, NEW stream \in Stream,
         streams' = [streams EXCEPT ![s] = stream],
         Follows(stream, Count(s)),
         sessions' = sessions \/ sessions' = [sessions EXCEPT ![s].heartbeat = now],
         mode = "real" /\ stream.open /\ stream.beaten =>
           now - sessions'[s].heartbeat + stream.beat <= Interval
  PROVE  BrowserInv'
<1>0. TypeOK /\ BrowserShapes /\ StreamsFollow /\ BeatsOnTime
  BY DEF BrowserInv
<1>1. /\ sessions \in Seq(CheckoutSessionRow) /\ streams \in Seq(Stream)
      /\ Len(streams) = Len(sessions) /\ now \in 0 .. MaxTime /\ now <= now
  BY <1>0, TimingAssumption DEF TypeOK, BrowserShapes
<1>2. /\ streams' \in Seq(Stream) /\ Len(streams') = Len(sessions) /\ streams'[s] = stream
      /\ \A r \in DOMAIN sessions : r # s => streams'[r] = streams[r]
  BY <1>1
<1>3. /\ sessions' \in Seq(CheckoutSessionRow) /\ Len(sessions') = Len(sessions)
      /\ sessions'[s].createdAt = sessions[s].createdAt
      /\ sessions'[s].heartbeat \in {sessions[s].heartbeat, now}
      /\ \A r \in DOMAIN sessions : r # s => sessions'[r] = sessions[r]
  <2>1. CASE sessions' = sessions
    BY <1>1, <2>1
  <2>2. CASE sessions' = [sessions EXCEPT ![s].heartbeat = now]
    <3> DEFINE row == [sessions[s] EXCEPT !.heartbeat = now]
    <3>1. sessions[s] \in CheckoutSessionRow
      BY <1>1
    <3>2. row \in CheckoutSessionRow /\ row.createdAt = sessions[s].createdAt /\ row.heartbeat = now
      BY <1>1, <3>1 DEF CheckoutSessionRow
    <3>3. sessions' = [sessions EXCEPT ![s] = row]
      BY <2>2
    <3> HIDE DEF row
    <3> QED
      BY <1>1, <3>2, <3>3
  <2> QED
    BY <2>1, <2>2
<1>4. ASSUME NEW r \in DOMAIN sessions
      PROVE  /\ sessions'[r].createdAt = sessions[r].createdAt
             /\ sessions'[r].heartbeat \in {sessions[r].heartbeat, now}
             /\ Follows(streams'[r], Count(r))
             /\ mode = "real" /\ streams'[r].open /\ streams'[r].beaten =>
                  now - sessions'[r].heartbeat + streams'[r].beat <= Interval
  <2>1. CASE r = s
    BY <1>2, <1>3, <2>1
  <2>2. CASE r # s
    BY <1>0, <1>2, <1>3, <2>2 DEF StreamsFollow, BeatsOnTime
  <2> QED
    BY <2>1, <2>2
<1> QED
  BY <1>1, <1>2, <1>3, <1>4, StreamsStep
LEMMA ConnectPreserves ==
  ASSUME BrowserInv, NEW s \in DOMAIN sessions, NEW after \in Nat, Connect(s, after)
  PROVE  BrowserInv'
<1> DEFINE c == Count(s)
           stream == [open |-> TRUE, after |-> after, sent |-> Backlog(s, after),
                      beat |-> Interval, beaten |-> FALSE]
<1>0. BrowserShapes /\ SeqsDense /\ StreamsFollow
  BY DEF BrowserInv
<1>1. c \in Nat
  BY <1>0, CountTyped
<1>2. streams[s] \in Stream /\ Follows(streams[s], c)
  BY <1>0 DEF BrowserShapes, StreamsFollow
<1>3. after <= c
  <2>1. streams[s].sent \in Seq(Nat) /\ streams[s].after \in Nat /\ Len(streams[s].sent) \in Nat
    BY <1>2 DEF Stream
  <2>2. LastEventId(s) = streams[s].after + Len(streams[s].sent)
    BY <1>2, <2>1 DEF LastEventId, Last, Follows
  <2>3. LastEventId(s) <= c /\ 0 <= c
    BY <1>1, <1>2, <2>1, <2>2 DEF Follows
  <2> QED
    BY <2>3 DEF Connect
<1>4. Backlog(s, after) = [n \in 1 .. c - after |-> after + n]
  <2>1. {seq \in SeqsOf(s) : seq > after} = after + 1 .. c
    BY <1>0, <1>1 DEF SeqsDense
  <2> QED
    BY <1>1, <1>3, <2>1, RunInOrder DEF Backlog
<1>5. Backlog(s, after) \in Seq(Nat) /\ Len(Backlog(s, after)) = c - after
  <2>1. c - after \in Nat /\ Backlog(s, after) \in [1 .. c - after -> Nat]
    BY <1>1, <1>3, <1>4
  <2> QED
    BY <2>1, FunctionIsSequence
<1> HIDE DEF c
<1>6. stream \in Stream /\ ~stream.beaten
  BY <1>5, TimingAssumption DEF Stream
<1>7. Follows(stream, c)
  BY <1>1, <1>3, <1>4, <1>5 DEF Follows
<1>8. streams' = [streams EXCEPT ![s] = stream] /\ UNCHANGED <<mode, now, sessions, events>>
  BY DEF Connect
<1> HIDE DEF stream
<1> QED
  BY <1>6, <1>7, <1>8, OneStreamStep DEF c

LEMMA StreamPreserves ==
  ASSUME BrowserInv, NEW s \in DOMAIN sessions, Disconnect(s) \/ Heartbeat(s)
  PROVE  BrowserInv'
<1>0. /\ BrowserShapes /\ StreamsFollow /\ BeatsOnTime /\ TypeOK
      /\ streams[s] \in Stream /\ Follows(streams[s], Count(s)) /\ now \in Nat
      /\ sessions[s] \in CheckoutSessionRow
  BY TimingAssumption DEF BrowserInv, BrowserShapes, StreamsFollow, TypeOK
<1>1. CASE Disconnect(s)
  <2> DEFINE stream == [streams[s] EXCEPT !.open = FALSE]
  <2>1. /\ stream \in Stream /\ stream.after = streams[s].after /\ stream.sent = streams[s].sent
        /\ ~stream.open
    BY <1>0 DEF Stream
  <2>2. streams' = [streams EXCEPT ![s] = stream] /\ UNCHANGED <<mode, now, sessions, events>>
    BY <1>0, <1>1 DEF Disconnect
  <2> HIDE DEF stream
  <2>3. Follows(stream, Count(s))
    BY <1>0, <2>1 DEF Follows
  <2> QED
    BY <2>1, <2>2, <2>3, OneStreamStep
<1>2. CASE Heartbeat(s)
  <2> DEFINE stream == [streams[s] EXCEPT !.beat = Interval, !.beaten = TRUE]
  <2>1. /\ stream \in Stream /\ stream.after = streams[s].after /\ stream.sent = streams[s].sent
        /\ stream.beat = Interval
    <3>1. Interval \in 0 .. Interval
      BY TimingAssumption
    <3> QED
      BY <1>0, <3>1 DEF Stream
  <2>2. stream.open = streams[s].open
    BY <1>0 DEF Stream
  <2>3. /\ streams' = [streams EXCEPT ![s] = stream] /\ UNCHANGED <<mode, now, events>>
        /\ sessions' = [sessions EXCEPT ![s].heartbeat = now]
    BY <1>0, <1>2 DEF Heartbeat
  <2>4. sessions'[s].heartbeat = now
    BY <1>0, <2>3 DEF CheckoutSessionRow, BrowserShapes
  <2> HIDE DEF stream
  <2>5. Follows(stream, Count(s))
    BY <1>0, <2>1, <2>2 DEF Follows
  <2>6. now - sessions'[s].heartbeat + stream.beat <= Interval
    BY <1>0, <2>1, <2>4, TimingAssumption
  <2> QED
    BY <2>1, <2>3, <2>5, <2>6, OneStreamStep
<1> QED
  BY <1>1, <1>2

(* The server restarts, or time passes.                                        *)
LEMMA TimePreserves ==
  ASSUME BrowserInv, Restart \/ Tick \/ Advance \/ \E time \in 0 .. MaxTime : SetClock(time)
  PROVE  BrowserInv'
<1>0. /\ BrowserShapes /\ StreamsFollow /\ BeatsOnTime /\ now \in 0 .. MaxTime
      /\ sessions \in Seq(CheckoutSessionRow) /\ streams \in Seq(Stream)
      /\ Len(streams) = Len(sessions) /\ MaxTime \in Nat /\ Len(streams) \in Nat
      /\ DOMAIN streams = 1 .. Len(streams) /\ DOMAIN sessions = DOMAIN streams
  BY TimingAssumption DEF BrowserInv, BrowserShapes, TypeOK
<1>1. ASSUME NEW s \in DOMAIN sessions
      PROVE  /\ streams[s] \in Stream /\ sessions[s] \in CheckoutSessionRow
             /\ sessions[s].heartbeat \in Nat
             /\ Follows(streams[s], Count(s)) /\ streams[s].beat \in Nat
  <2>1. streams[s] \in Stream /\ sessions[s] \in CheckoutSessionRow
    BY <1>0
  <2>2. Follows(streams[s], Count(s))
    BY <1>0 DEF StreamsFollow
  <2>3. sessions[s].heartbeat \in Nat
    BY <1>0, <2>1 DEF CheckoutSessionRow
  <2>4. streams[s].beat \in Nat
    BY <2>1 DEF Stream
  <2> QED
    BY <2>1, <2>2, <2>3, <2>4
<1>2. CASE Restart
  <2>1. /\ streams' = [s \in DOMAIN streams |-> [streams[s] EXCEPT !.open = FALSE]]
        /\ UNCHANGED <<mode, sessions, events>>
        /\ now' \in 0 .. MaxTime
        /\ mode = "real" => now <= now'
    BY <1>0, <1>2 DEF Restart, TimeAtRestart
  <2>2. ASSUME NEW s \in DOMAIN sessions
        PROVE  streams'[s] \in Stream /\ ~streams'[s].open /\ Follows(streams'[s], Count(s))
    <3>1. /\ streams'[s] \in Stream /\ ~streams'[s].open /\ streams'[s].after = streams[s].after
          /\ streams'[s].sent = streams[s].sent
      BY <1>0, <1>1, <2>1 DEF Stream
    <3> QED
      BY <1>1, <3>1 DEF Follows
  <2>3. streams' \in [1 .. Len(streams) -> Stream]
    BY <1>0, <2>1, <2>2
  <2>4. streams' \in Seq(Stream) /\ Len(streams') = Len(streams)
    BY <1>0, <2>3, FunctionIsSequence
  <2>5. \A s \in DOMAIN sessions :
           /\ sessions'[s].createdAt = sessions[s].createdAt
           /\ sessions'[s].heartbeat \in {sessions[s].heartbeat, now'}
           /\ Follows(streams'[s], Count(s)) /\ ~streams'[s].open
    BY <2>1, <2>2
  <2>6. /\ UNCHANGED <<mode, events>> /\ sessions' \in Seq(CheckoutSessionRow)
        /\ Len(sessions') = Len(sessions) /\ Len(streams') = Len(sessions)
    BY <1>0, <2>1, <2>4
  <2> QED
    BY <2>1, <2>4, <2>5, <2>6, StreamsStep
<1>3. CASE Tick
  <2>1. /\ streams' = [s \in DOMAIN streams |->
               IF streams[s].open THEN [streams[s] EXCEPT !.beat = @ - 1] ELSE streams[s]]
        /\ UNCHANGED <<mode, sessions, events>> /\ now < MaxTime
        /\ now' = IF mode = "real" THEN now + 1 ELSE now
    BY <1>3 DEF Tick
  <2>2. ASSUME NEW s \in DOMAIN sessions
        PROVE  /\ streams'[s] \in Stream /\ Follows(streams'[s], Count(s))
               /\ mode = "real" /\ streams'[s].open /\ streams'[s].beaten =>
                     now' - sessions'[s].heartbeat + streams'[s].beat <= Interval
    <3>1. CASE streams[s].open
      <4>1. streams[s].beat > 0
        BY <1>0, <1>3, <3>1 DEF Tick
      <4>2. streams'[s] = [streams[s] EXCEPT !.beat = streams[s].beat - 1]
        BY <1>0, <2>1, <3>1
      <4>3. streams[s].beat - 1 \in 0 .. Interval
        BY <1>1, <4>1, TimingAssumption DEF Stream
      <4>4. /\ streams'[s] \in Stream /\ streams'[s].beat = streams[s].beat - 1
            /\ streams'[s].after = streams[s].after /\ streams'[s].sent = streams[s].sent
        BY <1>1, <4>2, <4>3 DEF Stream
      <4>5. streams'[s].open = streams[s].open /\ streams'[s].beaten = streams[s].beaten
        BY <1>1, <4>2 DEF Stream
      <4>6. Follows(streams'[s], Count(s))
        BY <1>1, <4>4, <4>5 DEF Follows
      <4>7. ASSUME mode = "real", streams'[s].beaten
            PROVE  now' - sessions'[s].heartbeat + streams'[s].beat <= Interval
        <5>1. now - sessions[s].heartbeat + streams[s].beat <= Interval
          BY <1>0, <3>1, <4>5, <4>7 DEF BeatsOnTime
        <5> QED
          BY <1>0, <1>1, <2>1, <4>4, <4>7, <5>1, TimingAssumption
      <4> QED
        BY <4>4, <4>6, <4>7
    <3>2. CASE ~streams[s].open
      BY <1>0, <1>1, <2>1, <3>2
    <3> QED
      BY <3>1, <3>2
  <2>3. streams' \in [1 .. Len(streams) -> Stream]
    BY <1>0, <2>1, <2>2
  <2>4. streams' \in Seq(Stream) /\ Len(streams') = Len(streams)
    BY <1>0, <2>3, FunctionIsSequence
  <2>5. now' \in 0 .. MaxTime /\ now <= now'
    BY <1>0, <2>1
  <2> QED
    BY <1>0, <2>1, <2>2, <2>4, <2>5, StreamsStep
<1>4. CASE Advance \/ \E time \in 0 .. MaxTime : SetClock(time)
  <2>1. /\ mode = "manual" /\ UNCHANGED <<mode, sessions, events, streams>>
        /\ now' \in 0 .. MaxTime /\ now <= now'
    BY <1>0, <1>4 DEF Advance, SetClock
  <2> QED
    BY <1>0, <1>1, <2>1, StreamsStep
<1> QED
  BY <1>2, <1>3, <1>4
-----------------------------------------------------------------------------
(* A page is rendered, an event acknowledged, an event added.                  *)

LEMMA OpenPreserves ==
  ASSUME BrowserInv, OpenSession
  PROVE  BrowserInv'
<1> DEFINE n == Len(sessions) + 1
           row == [createdAt |-> now, heartbeat |-> now]
<1>0. /\ TypeOK /\ BrowserShapes /\ CursorIsPosition /\ SeqsDense
      /\ StreamsFollow /\ BeatsOnTime
  BY DEF BrowserInv
<1>1. /\ sessions \in Seq(CheckoutSessionRow) /\ streams \in Seq(Stream)
      /\ Len(streams) = Len(sessions) /\ Len(sessions) \in Nat
      /\ now \in 0 .. MaxTime /\ now \in Nat /\ Len(sessions) < MaxSessions /\ MaxSessions \in Nat
      /\ sessions' = Append(sessions, row) /\ streams' = Append(streams, Closed)
      /\ UNCHANGED <<mode, now, events>>
  BY <1>0, TimingAssumption DEF BrowserShapes, TypeOK, OpenSession
<1>2. row \in CheckoutSessionRow /\ row.createdAt = now /\ row.heartbeat = now
  BY <1>1 DEF CheckoutSessionRow
<1>3. /\ Closed \in Stream /\ Closed.after = 0 /\ Closed.sent = << >> /\ Closed.beat = 0
      /\ ~Closed.open
  <2>1. 0 \in 0 .. Interval /\ << >> \in Seq(Nat)
    BY TimingAssumption
  <2> QED
    BY <2>1 DEF Closed, Stream
<1> HIDE DEF row
<1>4. /\ sessions' \in Seq(CheckoutSessionRow) /\ Len(sessions') = n /\ sessions'[n] = row
      /\ streams' \in Seq(Stream) /\ Len(streams') = n /\ streams'[n] = Closed
      /\ DOMAIN sessions' = DOMAIN sessions \cup {n} /\ DOMAIN streams' = DOMAIN sessions'
      /\ n \notin DOMAIN sessions
      /\ \A s \in DOMAIN sessions : sessions'[s] = sessions[s] /\ streams'[s] = streams[s]
  BY <1>1, <1>2, <1>3
<1>5. \A s : Count(s)' = Count(s) /\ SeqsOf(s)' = SeqsOf(s)
  BY <1>1 DEF Count, SeqsOf, EventsOf
<1>6. EventsOf(n) = {} /\ Count(n) = 0 /\ SeqsOf(n) = {}
  <2>1. EventsOf(n) = {}
    BY <1>0, <1>4 DEF EventsOf, TypeOK
  <2> QED
    BY <2>1, FS_EmptySet DEF Count, SeqsOf
<1>7. BrowserShapes'
  BY <1>0, <1>1, <1>4 DEF BrowserShapes
<1>8. TypeOK'
  <2>1. ASSUME NEW s \in DOMAIN sessions'
        PROVE  /\ sessions'[s] \in CheckoutSessionRow
               /\ mode = "real" => sessions'[s].createdAt <= sessions'[s].heartbeat
                                   /\ sessions'[s].heartbeat <= now'
               /\ streams'[s].beat \in 0 .. Interval
    <3>1. CASE s = n
      BY <1>1, <1>2, <1>3, <1>4, <3>1, TimingAssumption
    <3>2. CASE s # n
      BY <1>0, <1>1, <1>4, <3>2 DEF TypeOK
    <3> QED
      BY <3>1, <3>2
  <2>2. \A m \in DOMAIN events' :
          events'[m] \in BrowserEventRow /\ events'[m].session \in DOMAIN sessions'
    BY <1>0, <1>1, <1>4 DEF TypeOK
  <2> QED
    BY <1>1, <1>4, <2>1, <2>2 DEF TypeOK
<1>10. CursorIsPosition'
  BY <1>0, <1>1 DEF CursorIsPosition
<1>11. SeqsDense'
  <2>1. 1 .. Count(n) = {}
    BY <1>6
  <2>2. SeqsOf(n) = 1 .. Count(n)
    BY <1>6, <2>1
  <2> QED
    BY <1>0, <1>4, <1>5, <2>2 DEF SeqsDense
<1>12. StreamsFollow'
  <2>1. Follows(Closed, 0)
    BY <1>3 DEF Follows
  <2> QED
    BY <1>0, <1>4, <1>5, <1>6, <2>1 DEF StreamsFollow
<1>13. BeatsOnTime'
  BY <1>0, <1>1, <1>3, <1>4 DEF BeatsOnTime
<1> QED
  BY <1>7, <1>8, <1>10, <1>11, <1>12, <1>13 DEF BrowserInv

LEMMA AcknowledgePreserves ==
  ASSUME BrowserInv, NEW s \in DOMAIN sessions, NEW seq, Acknowledge(s, seq)
  PROVE  BrowserInv'
<1> DEFINE row == [sessions[s] EXCEPT !.heartbeat = now]
<1>0. /\ TypeOK /\ BrowserShapes /\ CursorIsPosition /\ SeqsDense
      /\ StreamsFollow /\ BeatsOnTime
  BY DEF BrowserInv
<1>1. /\ sessions \in Seq(CheckoutSessionRow) /\ streams \in Seq(Stream)
      /\ events \in Seq(BrowserEventRow) /\ Len(events) \in Nat /\ DOMAIN events = 1 .. Len(events)
      /\ now \in 0 .. MaxTime /\ UNCHANGED <<mode, now, streams>>
      /\ sessions' = [sessions EXCEPT ![s].heartbeat = now]
      /\ events' = [n \in DOMAIN events |->
              IF n \in EventsOf(s) /\ events[n].seq = seq
              THEN [events[n] EXCEPT !.acked = TRUE] ELSE events[n]]
  BY <1>0 DEF BrowserShapes, TypeOK, Acknowledge
<1>2. ASSUME NEW n \in DOMAIN events
      PROVE  /\ events'[n] \in BrowserEventRow /\ events'[n].session = events[n].session
             /\ events'[n].seq = events[n].seq
  <2>1. events[n] \in BrowserEventRow
    BY <1>1
  <2>2. /\ [events[n] EXCEPT !.acked = TRUE] \in BrowserEventRow
        /\ [events[n] EXCEPT !.acked = TRUE].session = events[n].session
        /\ [events[n] EXCEPT !.acked = TRUE].seq = events[n].seq
    BY <2>1 DEF BrowserEventRow
  <2>3. events'[n] \in {events[n], [events[n] EXCEPT !.acked = TRUE]}
    BY <1>1
  <2> QED
    BY <2>1, <2>2, <2>3
<1>3. /\ events' \in Seq(BrowserEventRow) /\ Len(events') = Len(events)
      /\ DOMAIN events' = DOMAIN events
  <2>1. events' \in [1 .. Len(events) -> BrowserEventRow]
    BY <1>1, <1>2
  <2> QED
    BY <1>1, <2>1, FunctionIsSequence
<1>4. \A r : EventsOf(r)' = EventsOf(r)
  BY <1>2, <1>3 DEF EventsOf
<1>5. \A r : Count(r)' = Count(r) /\ SeqsOf(r)' = SeqsOf(r)
  <2> SUFFICES ASSUME NEW r PROVE Count(r)' = Count(r) /\ SeqsOf(r)' = SeqsOf(r)
    OBVIOUS
  <2>1. EventsOf(r)' = EventsOf(r) /\ EventsOf(r) \subseteq DOMAIN events
    BY <1>4 DEF EventsOf
  <2>2. SeqsOf(r)' = {events'[n].seq : n \in EventsOf(r)}
    BY <2>1 DEF SeqsOf
  <2>3. {events'[n].seq : n \in EventsOf(r)} = {events[n].seq : n \in EventsOf(r)}
    BY <1>2, <2>1
  <2> QED
    BY <2>1, <2>2, <2>3 DEF Count, SeqsOf
<1>6. /\ sessions[s] \in CheckoutSessionRow
      /\ row \in CheckoutSessionRow /\ row.createdAt = sessions[s].createdAt /\ row.heartbeat = now
  <2>1. sessions[s] \in CheckoutSessionRow
    BY <1>1
  <2> QED
    BY <1>1, <2>1 DEF CheckoutSessionRow
<1> HIDE DEF row
<1>7. /\ sessions' \in Seq(CheckoutSessionRow) /\ Len(sessions') = Len(sessions)
      /\ DOMAIN sessions' = DOMAIN sessions /\ sessions'[s] = row
      /\ \A r \in DOMAIN sessions : r # s => sessions'[r] = sessions[r]
  <2>1. sessions' = [sessions EXCEPT ![s] = row] /\ sessions \in Seq(CheckoutSessionRow)
    BY <1>1 DEF row
  <2> QED
    BY <1>6, <2>1
<1>8. BrowserShapes'
  BY <1>0, <1>1, <1>3, <1>7 DEF BrowserShapes
<1>9. TypeOK'
  <2>1. ASSUME NEW r \in DOMAIN sessions
        PROVE  /\ sessions'[r] \in CheckoutSessionRow
               /\ mode = "real" => sessions'[r].createdAt <= sessions'[r].heartbeat
                                   /\ sessions'[r].heartbeat <= now'
               /\ streams'[r].beat \in 0 .. Interval
    <3>0. /\ sessions[s] \in CheckoutSessionRow /\ streams[r].beat \in 0 .. Interval
          /\ mode = "real" => /\ sessions[s].createdAt <= sessions[s].heartbeat
                              /\ sessions[s].heartbeat <= now
      BY <1>0 DEF TypeOK
    <3>1. CASE r = s
      <4>1. mode = "real" => sessions[s].createdAt <= now /\ now <= now
        BY <1>1, <3>0, TimingAssumption DEF CheckoutSessionRow
      <4> QED
        BY <1>1, <1>6, <1>7, <3>0, <3>1, <4>1
    <3>2. CASE r # s
      BY <1>0, <1>1, <1>7, <3>2 DEF TypeOK
    <3> QED
      BY <3>1, <3>2
  <2>2. \A m \in DOMAIN events' :
          events'[m] \in BrowserEventRow /\ events'[m].session \in DOMAIN sessions'
    BY <1>0, <1>2, <1>3, <1>7 DEF TypeOK
  <2> QED
    BY <1>0, <1>1, <1>7, <2>1, <2>2 DEF TypeOK
<1>11. CursorIsPosition'
  <2> SUFFICES ASSUME NEW n \in DOMAIN events'
               PROVE  events'[n].seq
                        = Cardinality({m \in 1 .. n : events'[m].session = events'[n].session})
    BY DEF CursorIsPosition
  <2>1. n \in DOMAIN events /\ 1 .. n \subseteq DOMAIN events
    BY <1>1, <1>3
  <2>2. {m \in 1 .. n : events'[m].session = events'[n].session}
          = {m \in 1 .. n : events[m].session = events[n].session}
    BY <1>2, <2>1
  <2>3. events'[n].seq = events[n].seq
    BY <1>2, <2>1
  <2> QED
    BY <1>0, <2>1, <2>2, <2>3 DEF CursorIsPosition
<1>12. SeqsDense' /\ StreamsFollow'
  BY <1>0, <1>1, <1>5, <1>7 DEF SeqsDense, StreamsFollow
<1>13. BeatsOnTime'
  <2> SUFFICES ASSUME mode = "real", NEW r \in DOMAIN sessions, streams[r].open, streams[r].beaten
               PROVE  now - sessions'[r].heartbeat + streams[r].beat <= Interval
    BY <1>1, <1>7 DEF BeatsOnTime
  <2>1. CASE r = s
    <3>1. streams[r].beat \in 0 .. Interval /\ sessions'[r].heartbeat = now
      BY <1>0, <1>6, <1>7, <2>1 DEF TypeOK
    <3> QED
      BY <1>1, <3>1, TimingAssumption
  <2>2. CASE r # s
    BY <1>0, <1>7, <2>2 DEF BeatsOnTime
  <2> QED
    BY <2>1, <2>2
<1> QED
  BY <1>8, <1>9, <1>11, <1>12, <1>13 DEF BrowserInv
LEMMA CreatePreserves ==
  ASSUME BrowserInv, NEW type \in EventTypes, CreateBrowserEvent(type)
  PROVE  BrowserInv'
<1>0. /\ TypeOK /\ BrowserShapes /\ CursorIsPosition /\ SeqsDense
      /\ StreamsFollow /\ BeatsOnTime /\ UNCHANGED <<mode, now, sessions>>
  BY DEF BrowserInv, CreateBrowserEvent
<1>1. PICK s \in DOMAIN sessions : s = LatestSession
  BY LatestSessionExists DEF CreateBrowserEvent
<1>2. PICK c \in Nat : c = Count(s) /\ c <= Len(events)
  BY <1>0, CountTyped
<1> DEFINE n == Len(events) + 1
           row == [session |-> s, seq |-> c + 1, type |-> type,
                   status |-> StatusOf(s, type), acked |-> FALSE]
           stream == Sent(streams[s], c + 1)
<1>3. NextEventSeq(s) = c + 1
  <2>1. SeqsOf(s) = 1 .. c
    BY <1>0, <1>2 DEF SeqsDense
  <2> QED
    BY <2>1, MaxOfRun DEF NextEventSeq
<1>4. events' = Append(events, row) /\ streams' = [streams EXCEPT ![s] = stream]
      /\ Len(events) < MaxEvents
  BY <1>1, <1>3 DEF CreateBrowserEvent
<1>5. /\ sessions \in Seq(CheckoutSessionRow) /\ streams \in Seq(Stream)
      /\ events \in Seq(BrowserEventRow) /\ Len(events) \in Nat /\ Len(streams) = Len(sessions)
      /\ MaxEvents \in Nat /\ MaxSessions \in Nat /\ Len(sessions) <= MaxSessions
      /\ streams[s] \in Stream
  BY <1>0, TimingAssumption DEF BrowserShapes
<1>6. /\ row \in BrowserEventRow /\ row.session = s /\ row.seq = c + 1
  <2>1. s \in 1 .. MaxSessions /\ c + 1 \in 1 .. MaxEvents
    BY <1>2, <1>4, <1>5
  <2>2. StatusOf(s, type) \in {"delivered", "missed_no_active_browser"}
    BY DEF StatusOf
  <2> QED
    BY <2>1, <2>2 DEF BrowserEventRow
<1>7. /\ stream \in Stream /\ stream.after = streams[s].after /\ stream.beat = streams[s].beat
      /\ stream.sent = IF streams[s].open THEN Append(streams[s].sent, c + 1) ELSE streams[s].sent
  <2>1. Append(streams[s].sent, c + 1) \in Seq(Nat)
    <3>1. streams[s].sent \in Seq(Nat) /\ c + 1 \in Nat
      BY <1>5 DEF Stream
    <3> QED
      BY <3>1
  <2> QED
    BY <1>5, <2>1 DEF Stream, Sent
<1>8. stream.open = streams[s].open /\ stream.beaten = streams[s].beaten
  BY <1>5 DEF Stream, Sent
<1> HIDE DEF row, stream
<1>9. /\ events' \in Seq(BrowserEventRow) /\ Len(events') = n /\ events'[n] = row
      /\ DOMAIN events' = DOMAIN events \cup {n} /\ n \notin DOMAIN events
      /\ \A m \in DOMAIN events : events'[m] = events[m]
  BY <1>4, <1>5, <1>6
<1>10. /\ streams' \in Seq(Stream) /\ Len(streams') = Len(sessions) /\ streams'[s] = stream
       /\ \A r \in DOMAIN sessions : r # s => streams'[r] = streams[r]
  BY <1>4, <1>5, <1>7
<1>11. /\ EventsOf(s)' = EventsOf(s) \cup {n} /\ n \notin EventsOf(s)
       /\ \A r \in DOMAIN sessions : r # s => EventsOf(r)' = EventsOf(r)
  BY <1>6, <1>9 DEF EventsOf
<1>12. Count(s)' = c + 1
  <2>1. IsFiniteSet(EventsOf(s))
    BY <1>0, CountTyped
  <2> QED
    BY <1>2, <1>11, <2>1, FS_AddElement DEF Count
<1>13. /\ SeqsOf(s)' = SeqsOf(s) \cup {c + 1}
       /\ \A r \in DOMAIN sessions : r # s => SeqsOf(r)' = SeqsOf(r) /\ Count(r)' = Count(r)
  <2>1. SeqsOf(s)' = {events'[m].seq : m \in EventsOf(s) \cup {n}}
    BY <1>11 DEF SeqsOf
  <2>2. EventsOf(s) \subseteq DOMAIN events
    BY DEF EventsOf
  <2>3. {events'[m].seq : m \in EventsOf(s) \cup {n}} = {events[m].seq : m \in EventsOf(s)} \cup {c + 1}
    BY <1>6, <1>9, <2>2
  <2>4. ASSUME NEW r \in DOMAIN sessions, r # s
        PROVE  SeqsOf(r)' = SeqsOf(r) /\ Count(r)' = Count(r)
    <3>1. EventsOf(r)' = EventsOf(r) /\ EventsOf(r) \subseteq DOMAIN events
      BY <1>11, <2>4 DEF EventsOf
    <3>2. {events'[m].seq : m \in EventsOf(r)} = {events[m].seq : m \in EventsOf(r)}
      BY <1>9, <3>1
    <3> QED
      BY <3>1, <3>2 DEF SeqsOf, Count
  <2> QED
    BY <2>1, <2>3, <2>4 DEF SeqsOf
<1>14. BrowserShapes'
  BY <1>0, <1>4, <1>5, <1>9, <1>10 DEF BrowserShapes
<1>15. TypeOK'
  <2>1. ASSUME NEW r \in DOMAIN sessions
        PROVE  streams'[r].beat = streams[r].beat
    BY <1>7, <1>10
  <2>2. \A m \in DOMAIN events' :
          events'[m] \in BrowserEventRow /\ events'[m].session \in DOMAIN sessions
    BY <1>0, <1>6, <1>9 DEF TypeOK
  <2>3. DOMAIN streams' = DOMAIN sessions
    BY <1>5, <1>10
  <2> QED
    BY <1>0, <2>1, <2>2, <2>3 DEF TypeOK
<1>17. CursorIsPosition'
  <2> SUFFICES ASSUME NEW k \in DOMAIN events'
               PROVE  events'[k].seq
                        = Cardinality({m \in 1 .. k : events'[m].session = events'[k].session})
    BY DEF CursorIsPosition
  <2>1. CASE k = n
    <3>1. {m \in 1 .. n : events'[m].session = s} = EventsOf(s)'
      BY <1>5, <1>9 DEF EventsOf
    <3> QED
      BY <1>6, <1>9, <1>12, <2>1, <3>1 DEF Count
  <2>2. CASE k # n
    <3>1. k \in DOMAIN events /\ 1 .. k \subseteq DOMAIN events
      BY <1>5, <1>9, <2>2
    <3>2. {m \in 1 .. k : events'[m].session = events'[k].session}
            = {m \in 1 .. k : events[m].session = events[k].session}
      BY <1>9, <3>1
    <3> QED
      BY <1>0, <1>9, <3>1, <3>2 DEF CursorIsPosition
  <2> QED
    BY <2>1, <2>2
<1>18. SeqsDense'
  <2>1. SeqsOf(s)' = 1 .. c + 1
    <3>1. SeqsOf(s) = 1 .. c
      BY <1>0, <1>2 DEF SeqsDense
    <3> QED
      BY <1>13, <3>1
  <2> SUFFICES ASSUME NEW r \in DOMAIN sessions
               PROVE  SeqsOf(r)' = 1 .. Count(r)'
    BY <1>0 DEF SeqsDense
  <2> QED
    BY <1>0, <1>12, <1>13, <2>1 DEF SeqsDense
<1>19. StreamsFollow'
  <2>1. Follows(stream, c + 1)
    <3> DEFINE old == streams[s].sent
               after == streams[s].after
    <3>1. /\ old \in Seq(Nat) /\ after \in Nat /\ Len(old) \in Nat /\ after + Len(old) <= c
          /\ \A k \in 1 .. Len(old) : old[k] = after + k
      BY <1>0, <1>2, <1>5 DEF Stream, StreamsFollow, Follows
    <3>2. CASE streams[s].open
      <4>1. after + Len(old) = c
        BY <1>0, <1>2, <3>2 DEF StreamsFollow, Follows
      <4>2. /\ stream.sent = Append(old, c + 1) /\ stream.after = after
        BY <1>7, <3>2
      <4>3. /\ Len(stream.sent) = Len(old) + 1 /\ stream.sent[Len(old) + 1] = c + 1
            /\ \A k \in 1 .. Len(old) : stream.sent[k] = old[k]
        BY <1>2, <3>1, <4>2
      <4> HIDE DEF old, after
      <4>4. after + Len(stream.sent) = c + 1
        BY <1>2, <3>1, <4>1, <4>3
      <4>5. ASSUME NEW k \in 1 .. Len(stream.sent)
            PROVE  stream.sent[k] = after + k
        <5>1. CASE k = Len(old) + 1
          BY <3>1, <4>1, <4>3, <5>1
        <5>2. CASE k # Len(old) + 1
          <6>1. k \in 1 .. Len(old) /\ stream.sent[k] = old[k]
            BY <3>1, <4>3, <5>2
          <6> QED
            BY <3>1, <6>1
        <5> QED
          BY <5>1, <5>2
      <4> QED
        BY <1>2, <4>2, <4>4, <4>5 DEF Follows
    <3>3. CASE ~streams[s].open
      BY <1>2, <1>7, <1>8, <3>1, <3>3 DEF Follows
    <3> QED
      BY <3>2, <3>3
  <2> SUFFICES ASSUME NEW r \in DOMAIN sessions
               PROVE  Follows(streams'[r], Count(r)')
    BY <1>0 DEF StreamsFollow
  <2>2. CASE r = s
    BY <1>10, <1>12, <2>1, <2>2
  <2>3. CASE r # s
    BY <1>0, <1>10, <1>13, <2>3 DEF StreamsFollow
  <2> QED
    BY <2>2, <2>3
<1>20. BeatsOnTime'
  <2> SUFFICES ASSUME mode = "real", NEW r \in DOMAIN sessions, streams'[r].open, streams'[r].beaten
               PROVE  now - sessions[r].heartbeat + streams'[r].beat <= Interval
    BY <1>0 DEF BeatsOnTime
  <2>1. streams[r].open /\ streams[r].beaten /\ streams'[r].beat = streams[r].beat
    BY <1>7, <1>8, <1>10
  <2> QED
    BY <1>0, <2>1 DEF BeatsOnTime
<1> QED
  BY <1>14, <1>15, <1>17, <1>18, <1>19, <1>20 DEF BrowserInv

-----------------------------------------------------------------------------

(* The inductive invariant of the channel, for any number of sessions, events  *)
(* and streams.                                                                *)
THEOREM BrowserInvariance == Spec => []BrowserInv
<1>1. Init => BrowserInv
  <2> SUFFICES ASSUME Init PROVE BrowserInv
    OBVIOUS
  <2>1. sessions = << >> /\ events = << >> /\ streams = << >> /\ now = 0
    BY DEF Init
  <2>2. BrowserShapes /\ TypeOK
    BY <2>1, TimingAssumption DEF Init, BrowserShapes, TypeOK
  <2> QED
    BY <2>1, <2>2
    DEF BrowserInv, CursorIsPosition, SeqsDense, StreamsFollow, BeatsOnTime
<1>2. BrowserInv /\ [Next]_vars => BrowserInv'
  <2> SUFFICES ASSUME BrowserInv, [Next]_vars
               PROVE  BrowserInv'
    OBVIOUS
  <2>1. ASSUME NEW s \in DOMAIN sessions, NEW after \in 0 .. MaxEvents, Connect(s, after)
        PROVE  BrowserInv'
    <3>1. after \in Nat
      BY TimingAssumption
    <3> QED
      BY <2>1, <3>1, ConnectPreserves
  <2>2. CASE UNCHANGED vars
    <3>1. UNCHANGED <<mode, now, sessions, events, streams>>
      BY <2>2 DEF vars
    <3>2. TypeOK' /\ BrowserShapes' /\ CursorIsPosition' /\ BeatsOnTime'
      BY <3>1 DEF BrowserInv, TypeOK, BrowserShapes, CursorIsPosition, BeatsOnTime
    <3>3. \A s : Count(s)' = Count(s) /\ SeqsOf(s)' = SeqsOf(s)
      BY <3>1 DEF Count, SeqsOf, EventsOf
    <3>4. SeqsDense' /\ StreamsFollow'
      BY <3>1, <3>3 DEF BrowserInv, SeqsDense, StreamsFollow
    <3> QED
      BY <3>2, <3>4 DEF BrowserInv
  <2> QED
    BY <2>1, <2>2, OpenPreserves, StreamPreserves, AcknowledgePreserves, CreatePreserves,
       TimePreserves
    DEF Next
<1> QED
  BY <1>1, <1>2, PTL DEF Spec

(* The tables of sessions, events and streams keep their types.                *)
THEOREM TypeCorrect == Spec => []TypeOK
<1>1. BrowserInv => TypeOK
  BY DEF BrowserInv
<1> QED
  BY <1>1, BrowserInvariance, PTL

(* browser-events.ts: the ids a page sees are 1, 2, 3, ... in the order of the *)
(* actions, so that a cursor names a position.                                 *)
THEOREM CursorsArePositions == Spec => []CursorIsPosition
<1>1. BrowserInv => CursorIsPosition
  BY DEF BrowserInv
<1> QED
  BY <1>1, BrowserInvariance, PTL

(* checkout-routes.ts: an open stream has written exactly the events after its *)
(* cursor, in order: none lost between backlog and listener, none twice.       *)
THEOREM StreamsComplete == Spec => []StreamComplete
<1>1. BrowserInv => StreamComplete
  <2> SUFFICES ASSUME BrowserInv, NEW s \in DOMAIN streams, streams[s].open
               PROVE  streams[s].sent = [n \in 1 .. Cardinality(EventsOf(s)) - streams[s].after |->
                                          streams[s].after + n]
    BY DEF StreamComplete
  <2>1. streams[s] \in Stream /\ Follows(streams[s], Count(s)) /\ Count(s) \in Nat
    BY CountTyped DEF BrowserInv, BrowserShapes, StreamsFollow
  <2>2. streams[s].sent \in Seq(Nat) /\ streams[s].after \in Nat
    BY <2>1 DEF Stream
  <2>3. Len(streams[s].sent) = Count(s) - streams[s].after
    BY <2>1, <2>2 DEF Follows
  <2>4. streams[s].sent = [n \in 1 .. Len(streams[s].sent) |-> streams[s].sent[n]]
    BY <2>2
  <2>5. \A n \in 1 .. Len(streams[s].sent) : streams[s].sent[n] = streams[s].after + n
    BY <2>1 DEF Follows
  <2>6. streams[s].sent = [n \in 1 .. Len(streams[s].sent) |-> streams[s].after + n]
    BY <2>4, <2>5, Zenon
  <2> QED
    BY <2>3, <2>6 DEF Count
<1> QED
  BY <1>1, BrowserInvariance, PTL

(* checkout-sessions-repository.ts: under a real clock the session of a page   *)
(* that stays connected stays active from its first heartbeat on.              *)
THEOREM SteadyStreamsActive == Spec => []SteadyStreamActive
<1>1. BrowserInv => SteadyStreamActive
  <2> SUFFICES ASSUME BrowserInv, mode = "real", NEW s \in DOMAIN streams,
                      streams[s].open, streams[s].beaten
               PROVE  IsSessionActive(s)
    BY DEF SteadyStreamActive
  <2>1. /\ now - sessions[s].heartbeat + streams[s].beat <= Interval
        /\ streams[s].beat \in 0 .. Interval /\ sessions[s] \in CheckoutSessionRow
        /\ now \in 0 .. MaxTime
    BY DEF BrowserInv, BrowserShapes, BeatsOnTime, TypeOK
  <2> QED
    BY <2>1, TimingAssumption DEF IsSessionActive, CheckoutSessionRow
<1> QED
  BY <1>1, BrowserInvariance, PTL
=============================================================================
