------------------------ MODULE KlippyConnection_proofs ------------------------
(***************************************************************************)
(* Theorems about KlippyConnection: its types, the order in which the      *)
(* events of a connection are sent, and that Klippy reports to every       *)
(* subscriber.                                                             *)
(***************************************************************************)
EXTENDS KlippyConnection, QueueLemmas

\* The flags of the connection: close() is under way exactly while closing is
\* set and no task runs then; the writer is there exactly while there is a
\* socket; the reader comes after it and goes with it; the task works on an
\* open connection and initialises from the moment it reads.
ConnInv ==
    /\ closing <=> closer # None
    /\ closing => task = "done"
    /\ closer = "event" => ~writer
    /\ writer <=> link # "none"
    /\ reading => writer
    /\ task = "sleep" => ~writer
    /\ task \notin {"sleep", "done"} => writer
    /\ task \in {"sleep", "service"} => ~reading
    /\ task \notin {"sleep", "service", "done"} => reading /\ initializing /\ state \in States
    /\ link = "up" => klippy # "down"

\* The requests: one that does not exist is empty, one that was answered has
\* the answer; the task makes one only where it waits for one, and is in the
\* queue of the lock only while it subscribes. An answer that comes back after
\* the connection has finds no status to differ from.
RequestInv ==
    /\ \A a \in Actors : /\ req[a].at = None => req[a] = NoRequest
                         /\ req[a].at = "ok" => req[a].val \in States
    /\ req[Init_].at # None => task \in {"info", "subscribe"}
    /\ task = "info" => req[Init_].want = {}
    /\ task = "subscribe" /\ ~Idle(Init_) => req[Init_].want # {}
    /\ task = "subscribe" <=> Init_ \in Range(sublock)
    /\ task \in {"identified", "state"} => info \in States
    /\ stray \in Seq((SUBSET Actors) \ {{}})
    /\ reading \/ cache = None \/ \A a \in Actors : req[a].at = "ok" => req[a].want = {}

\* The last event sent goes with the place of the task; once it has ended
\* without being cut off, a shutdown announced last is the state Moonraker has,
\* and one not announced since the start or a way back is not.
Names == {"identified", "started", "ready", "shutdown", "back"}
Heard(e) == events # <<>> /\ Last(events) = e
Settled ==
    \/ Heard("started")
    \/ (Heard("ready") \/ Heard("back")) /\ state # "shutdown"
    \/ Heard("shutdown") /\ state = "shutdown"
EventsFollowTask ==
    /\ events \in Seq(Names)
    /\ ~reading => events = <<>> /\ ~identified /\ ~started /\ state = "disconnected"
    /\ task \in {"pause", "info"} => (IF identified THEN Heard("identified") ELSE events = <<>>) /\ ~started
    /\ task \in {"identified", "state", "subscribe", "endpoints"} => identified /\ Heard("identified") /\ ~started
    /\ task = "started" => Heard("started") /\ ~started
    /\ task = "verify" => Heard("started") /\ started
    /\ task = "ready" => Heard("ready") /\ started
    /\ reading /\ ~initializing => Settled

\* What Klippy will report once it has taken every subscription sent to it
\* that Moonraker no longer waits for.
LastAsked == IF stray = <<>> THEN served ELSE Last(stray)

\* From its first subscription on the connection asks for every subscriber,
\* in the request under way and in what Klippy was last asked for.
Subscribing == task = "subscribe" /\ req[Init_].at # None
Subscribes  == task \in {"endpoints", "started"} \/ started
AskedForAll ==
    link = "up" =>
        /\ Subscribing \/ Subscribes =>
             \A a \in Actors : req[a].want # {} =>
                 /\ Pending(a) => {a} \cup subs \subseteq req[a].want
                 /\ req[a].at = "ok" => {a} \cup subs \subseteq LastAsked
        /\ Subscribes \/ (Subscribing /\ req[Init_].at = "error") => subs \subseteq LastAsked

IInv == TypeOK /\ ConnInv /\ RequestInv /\ EventOrder /\ EventsFollowTask /\ AskedForAll

-----------------------------------------------------------------------------
\* Sending an event that may follow the last one keeps the order.
LEMMA SendNext ==
    ASSUME EventOrder, events \in Seq(Names), NEW e, events' = Append(events, e),
           \/ events = <<>> /\ e = "identified"
           \/ Heard("identified") /\ e = "started"
           \/ Heard("started") /\ e \in {"ready", "shutdown", "back"}
           \/ Heard("ready") /\ e = "shutdown"
           \/ Heard("shutdown") /\ e = "back"
           \/ Heard("back") /\ e = "shutdown"
    PROVE  EventOrder' /\ events' \in Seq(Names) /\ events' # <<>> /\ Last(events') = e
  <1>1. /\ events' \in Seq(Names) /\ events' # <<>> /\ Len(events') = Len(events) + 1
        /\ events'[Len(events) + 1] = e /\ \A i \in 1..Len(events) : events'[i] = events[i]
    <2>1. e \in Names
      BY DEF Names
    <2>. QED
      BY <2>1, AppendProperties
  <1>2. Len(events) \in Nat /\ (events # <<>> => Len(events) # 0)
    BY EmptySeq
  <1>3. events' # <<>> /\ Last(events') = e
    BY <1>1 DEF Last
  <1>4. events # <<>> => <<events[Len(events)], e>> \in Follows
    BY DEF Heard, Last, Follows
  <1>5. events'[1] = "identified"
    <2>1. CASE events = <<>>
      BY <1>1, <2>1 DEF Heard
    <2>2. CASE events # <<>>
      BY <1>1, <1>2, <2>2 DEF EventOrder
    <2>. QED
      BY <2>1, <2>2
  <1>6. ASSUME NEW i \in 1..(Len(events') - 1)
        PROVE  <<events'[i], events'[i + 1]>> \in Follows
    <2>1. i \in 1..Len(events) /\ events # <<>> /\ events'[i] = events[i]
      BY <1>1, <1>2
    <2>2. CASE i = Len(events)
      BY <1>1, <1>4, <2>1, <2>2
    <2>3. CASE i # Len(events)
      <3>1. i \in 1..(Len(events) - 1) /\ i + 1 \in 1..Len(events)
        BY <1>2, <2>1, <2>3
      <3>2. events'[i + 1] = events[i + 1]
        BY <1>1, <3>1
      <3>. QED
        BY <2>1, <3>1, <3>2 DEF EventOrder
    <2>. QED
      BY <2>2, <2>3
  <1>. QED
    BY <1>1, <1>3, <1>5, <1>6 DEF EventOrder

\* Where no event is sent the history stays in order.
LEMMA NothingSent == EventOrder /\ UNCHANGED events => EventOrder'
  BY DEF EventOrder

\* A status that comes during initialisation sends nothing; one that comes
\* after it announces what is due.
LEMMA StatusSends ==
    ASSUME EventOrder, events \in Seq(Names), initializing \in BOOLEAN,
           NEW new \in States, ProcessStatus(new), ~initializing => Settled
    PROVE  /\ initializing => UNCHANGED events
           /\ EventOrder' /\ events' \in Seq(Names) /\ (~initializing => Settled')
  <1>1. CASE new = "shutdown" /\ Announces
    <2>1. events' = Append(events, "shutdown") /\ state' = "shutdown" /\ ~initializing
      BY <1>1 DEF ProcessStatus, Announces
    <2>2. Heard("started") \/ Heard("ready") \/ Heard("back")
      BY <1>1, <2>1 DEF Settled, Announces
    <2>3. EventOrder' /\ events' \in Seq(Names) /\ events' # <<>> /\ Last(events') = "shutdown"
      BY <2>1, <2>2, SendNext
    <2>. QED
      BY <2>1, <2>3 DEF Settled, Heard
  <1>2. CASE new # "shutdown" /\ ComesBack
    <2>1. events' = Append(events, "back") /\ state' # "shutdown" /\ ~initializing
      BY <1>2 DEF ProcessStatus, ComesBack
    <2>2. Heard("started") \/ Heard("shutdown")
      BY <1>2, <2>1 DEF Settled, ComesBack
    <2>3. EventOrder' /\ events' \in Seq(Names) /\ events' # <<>> /\ Last(events') = "back"
      BY <2>1, <2>2, SendNext
    <2>. QED
      BY <2>1, <2>3 DEF Settled, Heard
  <1>3. CASE ~(new = "shutdown" /\ Announces) /\ ~(new # "shutdown" /\ ComesBack)
    <2>1. events' = events /\ state' = new
      BY <1>3 DEF ProcessStatus
    <2>2. ~initializing => (state' = "shutdown" <=> state = "shutdown")
      BY <1>3, <2>1 DEF Announces, ComesBack
    <2>. QED
      BY <2>1, <2>2, NothingSent DEF Settled, Heard
  <1>. QED
    BY <1>1, <1>2, <1>3

\* What the answer of a subscription does besides giving the lock back: at most
\* its status is processed, on a connection that is read.
LEMMA StatusOfAnswer ==
    ASSUME FlagsTypeOK, RequestInv, NEW a \in Actors, req[a].want # {}, Subscribed(a)
    PROVE  /\ cache' \in States \cup {None}
           /\ \/ UNCHANGED <<state, history>>
              \/ reading /\ \E new \in States : ProcessStatus(new)
  <1>1. CASE req[a].at # "ok"
    BY <1>1 DEF Subscribed, FlagsTypeOK, known
  <1>2. CASE req[a].at = "ok"
    <2>1. req[a].val \in States /\ (reading \/ cache = None)
      BY <1>2 DEF RequestInv
    <2>2. PICK new \in States \cup {None} :
            /\ cache' = new
            /\ IF None \in {cache, new} \/ new = cache THEN UNCHANGED <<state, history>> ELSE ProcessStatus(new)
      BY <1>2, <2>1, Zenon DEF Subscribed
    <2>3. CASE None \in {cache, new} \/ new = cache
      BY <2>2, <2>3
    <2>4. CASE ~(None \in {cache, new} \/ new = cache)
      <3>1. new \in States /\ reading /\ ProcessStatus(new)
        BY <2>1, <2>2, <2>4
      <3>. QED
        BY <2>2, <3>1
    <2>. QED
      BY <2>3, <2>4
  <1>. QED
    BY <1>1, <1>2

\* Settling a request changes nothing but its stage.
LEMMA SettleOne ==
    ASSUME RequestsTypeOK, NEW a \in Actors, NEW how \in {"sent", "ok", "error"}
    PROVE  /\ Settle(a, how) \in [Actors -> Request]
           /\ Settle(a, how)[a].at = how
           /\ \A b \in Actors : /\ Settle(a, how)[b].want = req[b].want
                                /\ Settle(a, how)[b].val = req[b].val
                                /\ Settle(a, how)[b] = req[b] \/ (b = a /\ Settle(a, how)[b].at = how)
  BY DEF RequestsTypeOK, Request, Settle

\* When the connection is lost every request that was pending has failed.
LEMMA FailAllPending ==
    ASSUME RequestsTypeOK
    PROVE  /\ FailAll \in [Actors -> Request]
           /\ \A a \in Actors : /\ FailAll[a].want = req[a].want
                                /\ FailAll[a].val = req[a].val
                                /\ FailAll[a].at = IF Pending(a) THEN "error" ELSE req[a].at
                                /\ ~Pending(a) => FailAll[a] = req[a]
  BY DEF RequestsTypeOK, Request, FailAll

\* What returns from a subscription leaves the queue of the lock to the next.
LEMMA SubscribedLeaves ==
    ASSUME RequestsTypeOK, NEW a \in Actors, req[a].want # {}, Subscribed(a)
    PROVE  /\ req' \in [Actors -> Request] /\ req' = [req EXCEPT ![a] = NoRequest]
           /\ sublock' \in Seq(Actors) /\ IsInjective(sublock')
           /\ Range(sublock') = Range(sublock) \ {a}
           /\ \A b \in Actors : req'[b].want = {}
           /\ subs' \subseteq Actors
  <1>1. req' = [req EXCEPT ![a] = NoRequest] /\ NoRequest \in Request
    BY DEF Subscribed, NoRequest, Request
  <1>2. sublock # <<>> /\ Head(sublock) = a /\ sublock' = Tail(sublock)
    BY DEF RequestsTypeOK, Subscribed
  <1>3. sublock' \in Seq(Actors) /\ IsInjective(sublock') /\ Range(sublock') = Range(sublock) \ {a}
    BY <1>2, QueueTail DEF RequestsTypeOK
  <1>4. \A b \in Actors : req'[b].want = {}
    BY <1>1, <1>2 DEF RequestsTypeOK, NoRequest
  <1>5. subs' \subseteq Actors
    BY DEF Subscribed, RequestsTypeOK, known
  <1>. QED
    BY <1>1, <1>3, <1>4, <1>5 DEF RequestsTypeOK

\* close() takes the task out of the queue of the lock and drops its request.
LEMMA CloseLeaves ==
    ASSUME RequestsTypeOK, NEW rs \in [Actors -> Request],
           \A a \in Actors : rs[a].want = req[a].want,
           req' = [rs EXCEPT ![Init_] = NoRequest],
           sublock' = RemoveFirst(sublock, Init_), UNCHANGED <<served, known>>
    PROVE  /\ RequestsTypeOK'
           /\ req'[Init_] = NoRequest /\ \A a \in Actors \ {Init_} : req'[a] = rs[a]
           /\ Init_ \notin Range(sublock')
  <1>. Init_ \in Actors
    BY DEF Actors
  <1>1. NoRequest \in Request
    BY DEF NoRequest, Request
  <1>2. /\ sublock' \in Seq(Actors) /\ IsInjective(sublock')
        /\ Range(sublock') = Range(sublock) \ {Init_}
        /\ sublock # <<>> /\ Head(sublock) # Init_ => sublock' # <<>> /\ Head(sublock') = Head(sublock)
    BY QueueRemove DEF RequestsTypeOK
  <1>3. \A a \in Actors : req'[a].want # {} => a # Init_ /\ req[a].want # {}
    BY DEF NoRequest
  <1>4. RequestsTypeOK'
    BY <1>1, <1>2, <1>3 DEF RequestsTypeOK, known
  <1>. QED
    BY <1>2, <1>4

\* What close() leaves of the requests is as it must be without the task.
LEMMA CloseRequests ==
    ASSUME RequestsTypeOK, RequestInv, NEW rs \in [Actors -> Request],
           \A a \in Actors : rs[a].want = req[a].want /\ (rs[a] = req[a] \/ rs[a].at = "error"),
           req' = [rs EXCEPT ![Init_] = NoRequest],
           sublock' = RemoveFirst(sublock, Init_), UNCHANGED <<served, known, stray, reading>>, task' = "done"
    PROVE  RequestInv'
  <1>. Init_ \in Actors
    BY DEF Actors
  <1>1. req'[Init_] = NoRequest /\ (\A a \in Actors \ {Init_} : req'[a] = rs[a]) /\ Init_ \notin Range(sublock')
    BY CloseLeaves
  <1>4. reading' \/ cache' = None \/ \A a \in Actors : req'[a].at = "ok" => req'[a].want = {}
    BY <1>1 DEF RequestInv, NoRequest, None, known
  <1>2. \A a \in Actors : /\ req'[a].at = None => req'[a] = NoRequest
                          /\ req'[a].at = "ok" => req'[a].val \in States
    BY <1>1 DEF RequestInv, NoRequest, None
  <1>3. req'[Init_].at = None
    BY <1>1 DEF NoRequest
  <1>. QED
    BY <1>1, <1>2, <1>3, <1>4 DEF RequestInv

\* What Klippy was last asked for, as requests are given up and taken.
LEMMA LastAskedNext ==
    ASSUME RequestInv
    PROVE  /\ UNCHANGED <<served, stray>> => LastAsked' = LastAsked
           /\ \A want \in (SUBSET Actors) \ {{}} : stray' = Append(stray, want) => LastAsked' = want
           /\ stray # <<>> /\ Served(Head(stray)) /\ stray' = Tail(stray) => LastAsked' = LastAsked
           /\ stray = <<>> => LastAsked = served
  <1>. stray \in Seq((SUBSET Actors) \ {{}})
    BY DEF RequestInv
  <1>1. UNCHANGED <<served, stray>> => LastAsked' = LastAsked
    BY DEF LastAsked
  <1>2. ASSUME NEW want \in (SUBSET Actors) \ {{}}, stray' = Append(stray, want)
        PROVE  LastAsked' = want
    <2>1. stray' # <<>> /\ Len(stray') = Len(stray) + 1 /\ stray'[Len(stray) + 1] = want
      BY <1>2, AppendProperties
    <2>. QED
      BY <2>1 DEF LastAsked, Last
  <1>3. ASSUME stray # <<>>, Served(Head(stray)), stray' = Tail(stray)
        PROVE  LastAsked' = LastAsked
    <2>1. served' = Head(stray)
      BY <1>3, HeadTailProperties DEF Served
    <2>. QED
      BY <2>1, <1>3, QueueLast DEF LastAsked
  <1>4. stray = <<>> => LastAsked = served
    BY DEF LastAsked
  <1>. QED
    BY <1>1, <1>2, <1>3, <1>4

-----------------------------------------------------------------------------
(* One step of the system keeps each part of the invariant.                *)

\* Every step keeps the types of the flags of the connection.
LEMMA FlagsTypeOKStep ==
    ASSUME IInv, [Next]_vars
    PROVE  FlagsTypeOK'
  <1>. USE DEF TypeOK, FlagsTypeOK, ConnInv, States, Goto, Close, Settle, Send, IInv, None, vars, server, conn, flags, locals, outside, asked, known, history, bounds
  <1>1. CASE DoConnect
    BY <1>1 DEF DoConnect
  <1>2. CASE InitKlippyConnection
    BY <1>2 DEF InitKlippyConnection
  <1>3. CASE RequestInfo
    BY <1>3 DEF RequestInfo
  <1>4. CASE GotInfo
    <2>1. info' \in States \cup {None} /\ task' \in {"pause", "state", "identified"} /\ identified' \in BOOLEAN
      BY <1>4 DEF GotInfo, Done, Actors, RequestInv
    <2>. QED
      BY <1>4, <2>1 DEF GotInfo
  <1>5. CASE SetState
    BY <1>5 DEF SetState, RequestInv
  <1>d. ASSUME NEW a \in Actors, Subscribed(a), req[a].want # {}
        PROVE  cache' \in States \cup {None} /\ state' \in States \cup {"disconnected"} /\ deferred' \in BOOLEAN
    <2>1. FlagsTypeOK /\ RequestInv
      OBVIOUS
    <2>2. cache' \in States \cup {None}
      BY <1>d, <2>1, StatusOfAnswer
    <2>3. UNCHANGED <<state, history>> \/ \E new \in States : ProcessStatus(new)
      BY <1>d, <2>1, StatusOfAnswer
    <2>. QED
      BY <2>2, <2>3 DEF ProcessStatus
  <1>6. CASE InitialSubscriptions
    <2>1. req[Init_].want # {} /\ Init_ \in Actors /\ Subscribed(Init_)
      BY <1>6 DEF InitialSubscriptions, RequestInv, Idle, NoRequest, Done, Actors
    <2>2. cache' \in States \cup {None} /\ state' \in States \cup {"disconnected"} /\ deferred' \in BOOLEAN
      BY <1>d, <2>1
    <2>. QED
      BY <1>6, <2>2 DEF InitialSubscriptions
  <1>7. CASE AnnounceStarted
    BY <1>7 DEF AnnounceStarted
  <1>8. CASE StartedHandled
    BY <1>8 DEF StartedHandled
  <1>9. CASE Verified
    BY <1>9 DEF Verified
  <1>10. CASE ReadyHandled
    BY <1>10 DEF ReadyHandled
  <1>11. CASE OnConnectionClosed
    BY <1>11 DEF OnConnectionClosed
  <1>12. CASE DisconnectHandled
    BY <1>12 DEF DisconnectHandled
  <1>13. CASE StatusUpdate
    BY <1>13 DEF StatusUpdate, ProcessStatus
  <1>14. CASE AnswerStray
    BY <1>14 DEF AnswerStray, Served
  <1>15. CASE StopServer
    <2>1. UNCHANGED <<klippy, told, cache, link, task, closer, state, startup_state, info>>
      BY <1>15 DEF StopServer
    <2>2. running' = FALSE /\ UNCHANGED <<writer, closing, reading, identified, initializing, started, deferred>>
      BY <1>15 DEF StopServer
    <2>3. {running, writer, closing, reading, identified, initializing, started, deferred}' \subseteq BOOLEAN
      BY <2>2, Zenon
    <2>. QED
      BY <2>1, <2>3
  <1>16. CASE KlippyChanges
    BY <1>16 DEF KlippyChanges
  <1>17. CASE EndOfStream
    BY <1>17 DEF EndOfStream
  <1>18. CASE ServerCloses
    BY <1>18 DEF ServerCloses
  <1>19. ASSUME NEW a \in Actors, WriteRequest(a) PROVE FlagsTypeOK'
    BY <1>19 DEF WriteRequest
  <1>20. ASSUME NEW a \in Actors, Answer(a) PROVE FlagsTypeOK'
    BY <1>20 DEF Answer, Served
  <1>21. ASSUME NEW a \in Actors, Subscribe(a) PROVE FlagsTypeOK'
    BY <1>21 DEF Subscribe
  <1>22. ASSUME NEW a \in Actors, TimeOut(a) PROVE FlagsTypeOK'
    BY <1>22 DEF TimeOut
  <1>23. ASSUME NEW a \in Actors, WriteFails(a) PROVE FlagsTypeOK'
    BY <1>23 DEF WriteFails
  <1>24. ASSUME NEW c \in Clients, CallStandard(c) PROVE FlagsTypeOK'
    BY <1>24 DEF CallStandard
  <1>25. ASSUME NEW c \in Clients, CallSubscribe(c) PROVE FlagsTypeOK'
    BY <1>25 DEF CallSubscribe
  <1>26. ASSUME NEW c \in Clients, Return(c) PROVE FlagsTypeOK'
    <2>1. CASE req[c].want # {}
      <3>1. cache' \in States \cup {None} /\ state' \in States \cup {"disconnected"} /\ deferred' \in BOOLEAN
        BY <1>d, <1>26, <2>1 DEF Return, Actors
      <3>. QED
        BY <1>26, <3>1 DEF Return
    <2>2. CASE req[c].want = {}
      BY <1>26, <2>2 DEF Return
    <2>. QED
      BY <2>1, <2>2
  <1>27. ASSUME NEW c \in Clients, Leave(c) PROVE FlagsTypeOK'
    BY <1>27 DEF Leave
  <1>28. CASE UNCHANGED vars
    BY <1>28
  <1>. QED
    BY <1>1, <1>2, <1>3, <1>4, <1>5, <1>6, <1>7, <1>8, <1>9, <1>10, <1>11, <1>12, <1>13, <1>14, <1>15, <1>16, <1>17, <1>18, <1>19, <1>20, <1>21, <1>22, <1>23, <1>24, <1>25, <1>26, <1>27, <1>28 DEF Next, Task, Closing, Requests

\* Every step keeps the flags, the socket and the task in agreement.
LEMMA ConnInvStep ==
    ASSUME IInv, [Next]_vars
    PROVE  ConnInv'
  <1>. USE DEF ConnInv, RequestInv, EventsFollowTask, NextState, TypeOK, FlagsTypeOK, States, Goto, Close, Settle, Send, IInv, None, vars, server, conn, flags, locals, outside, asked, known, history, bounds
  <1>1. CASE DoConnect
    BY <1>1 DEF DoConnect
  <1>2. CASE InitKlippyConnection
    BY <1>2 DEF InitKlippyConnection
  <1>3. CASE RequestInfo
    BY <1>3 DEF RequestInfo
  <1>4. CASE GotInfo
    BY <1>4 DEF GotInfo
  <1>5. CASE SetState
    BY <1>5 DEF SetState
  <1>d. ASSUME NEW a \in Actors, Subscribed(a), req[a].want # {}
        PROVE  state' = state \/ state' \in States
    <2>1. FlagsTypeOK /\ RequestInv
      OBVIOUS
    <2>2. UNCHANGED <<state, history>> \/ \E new \in States : ProcessStatus(new)
      BY <1>d, <2>1, StatusOfAnswer
    <2>. QED
      BY <2>2 DEF ProcessStatus
  <1>6. CASE InitialSubscriptions
    <2>1. req[Init_].want # {} /\ Init_ \in Actors /\ Subscribed(Init_)
      BY <1>6 DEF InitialSubscriptions, RequestInv, Idle, NoRequest, Done, Actors
    <2>2. state' = state \/ state' \in States
      BY <1>d, <2>1
    <2>. QED
      BY <1>6, <2>2 DEF InitialSubscriptions
  <1>7. CASE AnnounceStarted
    BY <1>7 DEF AnnounceStarted
  <1>8. CASE StartedHandled
    BY <1>8 DEF StartedHandled
  <1>9. CASE Verified
    BY <1>9 DEF Verified
  <1>10. CASE ReadyHandled
    BY <1>10 DEF ReadyHandled
  <1>11. CASE OnConnectionClosed
    BY <1>11 DEF OnConnectionClosed
  <1>12. CASE DisconnectHandled
    BY <1>12 DEF DisconnectHandled
  <1>13. CASE StatusUpdate
    BY <1>13 DEF StatusUpdate, ProcessStatus
  <1>14. CASE AnswerStray
    BY <1>14 DEF AnswerStray
  <1>15. CASE StopServer
    BY <1>15 DEF StopServer
  <1>16. CASE KlippyChanges
    BY <1>16 DEF KlippyChanges
  <1>17. CASE EndOfStream
    BY <1>17 DEF EndOfStream
  <1>18. CASE ServerCloses
    BY <1>18 DEF ServerCloses
  <1>19. ASSUME NEW a \in Actors, WriteRequest(a) PROVE ConnInv'
    BY <1>19 DEF WriteRequest
  <1>20. ASSUME NEW a \in Actors, Answer(a) PROVE ConnInv'
    BY <1>20 DEF Answer
  <1>21. ASSUME NEW a \in Actors, Subscribe(a) PROVE ConnInv'
    BY <1>21 DEF Subscribe
  <1>22. ASSUME NEW a \in Actors, TimeOut(a) PROVE ConnInv'
    BY <1>22 DEF TimeOut
  <1>23. ASSUME NEW a \in Actors, WriteFails(a) PROVE ConnInv'
    BY <1>23 DEF WriteFails
  <1>24. ASSUME NEW c \in Clients, CallStandard(c) PROVE ConnInv'
    BY <1>24 DEF CallStandard
  <1>25. ASSUME NEW c \in Clients, CallSubscribe(c) PROVE ConnInv'
    BY <1>25 DEF CallSubscribe
  <1>26. ASSUME NEW c \in Clients, Return(c) PROVE ConnInv'
    <2>1. CASE req[c].want # {}
      <3>1. state' = state \/ state' \in States
        BY <1>d, <1>26, <2>1 DEF Return, Actors
      <3>. QED
        BY <1>26, <3>1 DEF Return
    <2>2. CASE req[c].want = {}
      BY <1>26, <2>2 DEF Return
    <2>. QED
      BY <2>1, <2>2
  <1>27. ASSUME NEW c \in Clients, Leave(c) PROVE ConnInv'
    BY <1>27 DEF Leave
  <1>28. CASE UNCHANGED vars
    BY <1>28
  <1>. QED
    BY <1>1, <1>2, <1>3, <1>4, <1>5, <1>6, <1>7, <1>8, <1>9, <1>10, <1>11, <1>12, <1>13, <1>14, <1>15, <1>16, <1>17, <1>18, <1>19, <1>20, <1>21, <1>22, <1>23, <1>24, <1>25, <1>26, <1>27, <1>28 DEF Next, Task, Closing, Requests

\* Every step keeps the requests typed and the lock with their makers: only
\* the head of its queue has a subscription under way.
LEMMA RequestsTypeOKStep ==
    ASSUME IInv, [Next]_vars
    PROVE  RequestsTypeOK'
  <1>. USE DEF TypeOK, RequestsTypeOK, Request, RequestInv, States, Register, Actors, NoRequest, Idle, Goto, Send, IInv, None, vars, server, conn, flags, locals, outside, asked, known, history, bounds
  <1>1. CASE DoConnect
    BY <1>1 DEF DoConnect
  <1>2. CASE InitKlippyConnection
    BY <1>2 DEF InitKlippyConnection
  <1>3. CASE RequestInfo
    BY <1>3 DEF RequestInfo
  <1>4. CASE GotInfo
    BY <1>4 DEF GotInfo
  <1>5. CASE SetState
    <2>1. CASE info = "startup"
      BY <1>5, <2>1 DEF SetState
    <2>2. CASE info # "startup"
      <3>1. Init_ \in Actors /\ Init_ \notin Range(sublock) /\ sublock' = Append(sublock, Init_)
        BY <1>5, <2>2 DEF SetState, Enter
      <3>. QED
        BY <1>5, <3>1, QueueAppend DEF SetState
    <2>. QED
      BY <2>1, <2>2
  <1>6. CASE InitialSubscriptions
    BY <1>6, SubscribedLeaves DEF InitialSubscriptions, Done
  <1>7. CASE AnnounceStarted
    BY <1>7 DEF AnnounceStarted
  <1>8. CASE StartedHandled
    BY <1>8 DEF StartedHandled
  <1>9. CASE Verified
    BY <1>9 DEF Verified
  <1>10. CASE ReadyHandled
    BY <1>10 DEF ReadyHandled
  <1>11. CASE OnConnectionClosed
    BY <1>11, FailAllPending DEF OnConnectionClosed
  <1>12. CASE DisconnectHandled
    BY <1>12 DEF DisconnectHandled
  <1>13. CASE StatusUpdate
    BY <1>13 DEF StatusUpdate
  <1>14. CASE AnswerStray
    BY <1>14 DEF AnswerStray, Served
  <1>15. CASE StopServer
    BY <1>15 DEF StopServer
  <1>16. CASE KlippyChanges
    BY <1>16 DEF KlippyChanges
  <1>17. CASE EndOfStream
    BY <1>17, CloseLeaves DEF EndOfStream, Close
  <1>18. CASE ServerCloses
    BY <1>18, CloseLeaves DEF ServerCloses, Close
  <1>19. ASSUME NEW a \in Actors, WriteRequest(a) PROVE RequestsTypeOK'
    <2>1. PICK how \in {"sent", "error"} : req' = Settle(a, how)
      BY <1>19 DEF WriteRequest
    <2>. QED
      BY <1>19, <2>1, SettleOne DEF WriteRequest
  <1>20. ASSUME NEW a \in Actors, Answer(a) PROVE RequestsTypeOK'
    BY <1>20 DEF Answer, Served
  <1>21. ASSUME NEW a \in Actors, Subscribe(a) PROVE RequestsTypeOK'
    BY <1>21, QueueRange, ClientsAssumption DEF Subscribe, Turn, SuperSet
  <1>22. ASSUME NEW a \in Actors, TimeOut(a) PROVE RequestsTypeOK'
    <2>1. req' = Settle(a, "error") /\ UNCHANGED <<sublock, subs, served>>
      BY <1>22 DEF TimeOut
    <2>2. req' \in [Actors -> Request] /\ \A b \in Actors : req'[b].want = req[b].want
      BY <2>1, SettleOne
    <2>. QED
      BY <2>1, <2>2
  <1>23. ASSUME NEW a \in Actors, WriteFails(a) PROVE RequestsTypeOK'
    <2>1. Close(Settle(a, "error"))
      BY <1>23 DEF WriteFails
    <2>2. Settle(a, "error") \in [Actors -> Request] /\ \A b \in Actors : Settle(a, "error")[b].want = req[b].want
      BY SettleOne
    <2>. QED
      BY <2>1, <2>2, CloseLeaves DEF Close
  <1>24. ASSUME NEW c \in Clients, CallStandard(c) PROVE RequestsTypeOK'
    BY <1>24, ClientsAssumption DEF CallStandard
  <1>25. ASSUME NEW c \in Clients, CallSubscribe(c) PROVE RequestsTypeOK'
    BY <1>25, QueueAppend, QueueRange, ClientsAssumption DEF CallSubscribe, Enter
  <1>26. ASSUME NEW c \in Clients, Return(c) PROVE RequestsTypeOK'
    <2>1. CASE req[c].want # {}
      BY <1>26, <2>1, SubscribedLeaves DEF Return
    <2>2. CASE req[c].want = {}
      <3>1. req' = [req EXCEPT ![c] = NoRequest] /\ UNCHANGED <<sublock, subs, served>>
        BY <1>26, <2>2 DEF Return
      <3>. QED
        BY <3>1
    <2>. QED
      BY <2>1, <2>2
  <1>27. ASSUME NEW c \in Clients, Leave(c) PROVE RequestsTypeOK'
    BY <1>27 DEF Leave
  <1>28. CASE UNCHANGED vars
    BY <1>28
  <1>. QED
    BY <1>1, <1>2, <1>3, <1>4, <1>5, <1>6, <1>7, <1>8, <1>9, <1>10, <1>11, <1>12, <1>13, <1>14, <1>15, <1>16, <1>17, <1>18, <1>19, <1>20, <1>21, <1>22, <1>23, <1>24, <1>25, <1>26, <1>27, <1>28 DEF Next, Task, Closing, Requests

\* Every step keeps the requests of the task with the places where it waits.
LEMMA RequestInvStep ==
    ASSUME IInv, [Next]_vars
    PROVE  RequestInv'
  <1>. USE DEF TypeOK, RequestsTypeOK, Request, RequestInv, ConnInv, FlagsTypeOK, States, Register, Actors, NoRequest, Idle, Goto, Send, IInv, None, vars, server, conn, flags, locals, outside, asked, known, history, bounds
  <1>a. ASSUME reading => reading', cache' = cache \/ cache' = None,
               \A a \in Actors : req'[a].at = "ok" /\ req'[a].want # {} => req[a].at = "ok" /\ req[a].want # {}
        PROVE  reading' \/ cache' = None \/ \A a \in Actors : req'[a].at = "ok" => req'[a].want = {}
    BY <1>a
  <1>1. CASE DoConnect
    BY <1>1 DEF DoConnect
  <1>2. CASE InitKlippyConnection
    BY <1>2 DEF InitKlippyConnection
  <1>3. CASE RequestInfo
    BY <1>3 DEF RequestInfo
  <1>4. CASE GotInfo
    BY <1>4 DEF GotInfo, Done
  <1>5. CASE SetState
    <2>1. UNCHANGED <<req, stray, reading, cache>> /\ req[Init_].at = None
      BY <1>5 DEF SetState
    <2>2. CASE info = "startup"
      BY <1>5, <2>1, <2>2 DEF SetState
    <2>3. CASE info # "startup"
      <3>1. task' = "subscribe" /\ sublock' = Append(sublock, Init_)
        BY <1>5, <2>3 DEF SetState, Enter
      <3>2. Init_ \in Range(sublock')
        <4>1. Init_ \in Actors /\ Init_ \notin Range(sublock) /\ sublock \in Seq(Actors) /\ IsInjective(sublock)
          BY <1>5 DEF SetState
        <4>. QED
          BY <3>1, <4>1, QueueAppend
      <3>3. req'[Init_] = NoRequest
        BY <2>1
      <3>. QED
        BY <2>1, <3>1, <3>2, <3>3
    <2>. QED
      BY <2>2, <2>3
  <1>6. CASE InitialSubscriptions
    <2>1. req[Init_].want # {} /\ Subscribed(Init_)
      BY <1>6 DEF InitialSubscriptions, Done
    <2>2. task' = "endpoints" /\ UNCHANGED stray
      BY <1>6 DEF InitialSubscriptions
    <2>3. Init_ \notin Range(sublock')
      BY <2>1, SubscribedLeaves
    <2>4. req'[Init_] = NoRequest /\ (\A a \in Actors \ {Init_} : req'[a] = req[a])
      BY <2>1 DEF Subscribed
    <2>5. reading'
      BY <1>6 DEF InitialSubscriptions
    <2>. QED
      BY <2>2, <2>3, <2>4, <2>5
  <1>7. CASE AnnounceStarted
    BY <1>7 DEF AnnounceStarted
  <1>8. CASE StartedHandled
    BY <1>8 DEF StartedHandled
  <1>9. CASE Verified
    BY <1>9 DEF Verified
  <1>10. CASE ReadyHandled
    BY <1>10 DEF ReadyHandled
  <1>11. CASE OnConnectionClosed
    <2>1. req' = FailAll /\ stray' = <<>> /\ UNCHANGED <<task, sublock>> /\ task = "done"
      BY <1>11 DEF OnConnectionClosed
    <2>2. \A a \in Actors : req'[a] = req[a] \/ req'[a].at = "error"
      BY <2>1, FailAllPending
    <2>3. req'[Init_].at = None
      BY <2>1, FailAllPending DEF Pending
    <2>4. cache' = None
      BY <1>11 DEF OnConnectionClosed
    <2>. QED
      BY <2>1, <2>2, <2>3, <2>4
  <1>12. CASE DisconnectHandled
    BY <1>12 DEF DisconnectHandled
  <1>13. CASE StatusUpdate
    BY <1>13 DEF StatusUpdate
  <1>14. CASE AnswerStray
    BY <1>14 DEF AnswerStray, Served
  <1>15. CASE StopServer
    BY <1>15 DEF StopServer
  <1>16. CASE KlippyChanges
    BY <1>16 DEF KlippyChanges
  <1>17. CASE EndOfStream
    BY <1>17, CloseRequests DEF EndOfStream, Close
  <1>18. CASE ServerCloses
    BY <1>18, CloseRequests DEF ServerCloses, Close
  <1>19. ASSUME NEW a \in Actors, WriteRequest(a) PROVE RequestInv'
    <2>1. PICK how \in {"sent", "error"} : req' = Settle(a, how)
      BY <1>19 DEF WriteRequest
    <2>2. \A b \in Actors : /\ req'[b].want = req[b].want /\ req'[b].val = req[b].val
                            /\ req'[b] = req[b] \/ (b = a /\ req'[b].at = how)
      BY <2>1, SettleOne
    <2>3. req[a].at = "queued" /\ UNCHANGED <<task, info, sublock, stray, reading, cache>>
      BY <1>19 DEF WriteRequest
    <2>4. reading' \/ cache' = None \/ \A b \in Actors : req'[b].at = "ok" => req'[b].want = {}
      BY <1>a, <2>2, <2>3
    <2>. QED
      BY <2>2, <2>3, <2>4
  <1>20. ASSUME NEW a \in Actors, Answer(a) PROVE RequestInv'
    BY <1>20 DEF Answer, Served
  <1>21. ASSUME NEW a \in Actors, Subscribe(a) PROVE RequestInv'
    <2>1. req' = Register(a, SuperSet(a)) /\ UNCHANGED <<task, info, stray, sublock, reading, cache>> /\ Idle(a) /\ Turn(a)
      BY <1>21 DEF Subscribe
    <2>2. a = Init_ => task = "subscribe"
      BY <2>1, QueueRange DEF Turn
    <2>3. SuperSet(a) # {}
      BY DEF SuperSet
    <2>. QED
      BY <2>1, <2>2, <2>3
  <1>22. ASSUME NEW a \in Actors, TimeOut(a) PROVE RequestInv'
    <2>1. req' = Settle(a, "error") /\ UNCHANGED <<task, sublock, info, reading, cache>>
      BY <1>22 DEF TimeOut
    <2>2. req[a].want \in (SUBSET Actors) \ {{}} /\ stray' = Append(stray, req[a].want)
      BY <1>22 DEF TimeOut
    <2>3. stray' \in Seq((SUBSET Actors) \ {{}})
      BY <2>2, AppendProperties
    <2>4. /\ req[a].at = "sent"
          /\ \A b \in Actors : req'[b].want = req[b].want /\ (req'[b] = req[b] \/ (b = a /\ req'[b].at = "error"))
      BY <1>22, <2>1, SettleOne DEF TimeOut
    <2>. QED
      BY <2>1, <2>3, <2>4
  <1>23. ASSUME NEW a \in Actors, WriteFails(a) PROVE RequestInv'
    <2>. DEFINE rs == Settle(a, "error")
    <2>1. /\ req' = [rs EXCEPT ![Init_] = NoRequest] /\ task' = "done"
          /\ sublock' = RemoveFirst(sublock, Init_) /\ UNCHANGED <<served, known, stray, reading>>
      BY <1>23 DEF WriteFails, Close
    <2>2. /\ rs \in [Actors -> Request]
          /\ \A b \in Actors : rs[b].want = req[b].want /\ (rs[b] = req[b] \/ rs[b].at = "error")
      BY SettleOne
    <2>. HIDE DEF rs
    <2>. QED
      BY <2>1, <2>2, CloseRequests
  <1>24. ASSUME NEW c \in Clients, CallStandard(c) PROVE RequestInv'
    BY <1>24, ClientsAssumption DEF CallStandard
  <1>25. ASSUME NEW c \in Clients, CallSubscribe(c) PROVE RequestInv'
    BY <1>25, QueueAppend, QueueRange, ClientsAssumption DEF CallSubscribe, Enter
  <1>26. ASSUME NEW c \in Clients, Return(c) PROVE RequestInv'
    <2>1. req'[c] = NoRequest /\ (\A a \in Actors \ {c} : req'[a] = req[a]) /\ c # Init_
      <3>1. req' = [req EXCEPT ![c] = NoRequest] /\ c # Init_
        BY <1>26, ClientsAssumption DEF Return, Subscribed
      <3>. QED
        BY <3>1
    <2>2. Range(sublock') = Range(sublock) \/ Range(sublock') = Range(sublock) \ {c}
      BY <1>26, SubscribedLeaves DEF Return
    <2>3. UNCHANGED <<task, info, stray, reading>>
      BY <1>26 DEF Return
    <2>4. reading' \/ cache' = None \/ \A a \in Actors : req'[a].at = "ok" => req'[a].want = {}
      <3>1. CASE req[c].want # {}
        <4>1. \A a \in Actors : req'[a].want = {}
          BY <1>26, <3>1, SubscribedLeaves DEF Return
        <4>. QED
          BY <4>1
      <3>2. CASE req[c].want = {}
        <4>1. cache' = cache
          BY <1>26, <3>2 DEF Return
        <4>. QED
          BY <1>a, <2>1, <2>3, <4>1
      <3>. QED
        BY <3>1, <3>2
    <2>. QED
      BY <2>1, <2>2, <2>3, <2>4
  <1>27. ASSUME NEW c \in Clients, Leave(c) PROVE RequestInv'
    BY <1>27 DEF Leave
  <1>28. CASE UNCHANGED vars
    BY <1>28
  <1>. QED
    BY <1>1, <1>2, <1>3, <1>4, <1>5, <1>6, <1>7, <1>8, <1>9, <1>10, <1>11, <1>12, <1>13, <1>14, <1>15, <1>16, <1>17, <1>18, <1>19, <1>20, <1>21, <1>22, <1>23, <1>24, <1>25, <1>26, <1>27, <1>28 DEF Next, Task, Closing, Requests

\* Every step that sends an event sends the one that is due, and the events
\* sent go with the place of the task.
LEMMA EventsStep ==
    ASSUME IInv, [Next]_vars
    PROVE  EventOrder' /\ EventsFollowTask'
  <1>. USE DEF Heard, Goto, Close, None, vars, server, conn, flags, locals, outside, asked, known, history, bounds
  <1>a. EventOrder /\ EventsFollowTask /\ ConnInv /\ FlagsTypeOK /\ RequestInv
    BY DEF IInv, TypeOK
  <1>b. ASSUME UNCHANGED events PROVE EventOrder'
    BY <1>a, <1>b, NothingSent
  <1>c. UNCHANGED <<events, state>> => (Settled' <=> Settled)
    BY DEF Settled, Heard
  <1>d. ASSUME NEW a \in Actors, req[a].want # {}, Subscribed(a), UNCHANGED <<reading, initializing>>
        PROVE  /\ EventOrder' /\ events' \in Seq(Names)
               /\ initializing \/ ~reading => UNCHANGED events
               /\ ~reading => UNCHANGED state
               /\ reading /\ ~initializing => Settled'
    <2>1. CASE UNCHANGED <<state, history>>
      BY <1>a, <1>b, <1>c, <1>d, <2>1 DEF EventsFollowTask
    <2>2. CASE reading /\ \E new \in States : ProcessStatus(new)
      <3>1. PICK new \in States : ProcessStatus(new)
        BY <2>2
      <3>2. (initializing => UNCHANGED events) /\ EventOrder' /\ events' \in Seq(Names) /\ (~initializing => Settled')
        <4>1. events \in Seq(Names) /\ initializing \in BOOLEAN /\ (~initializing => Settled)
          BY <1>a, <2>2 DEF EventsFollowTask, FlagsTypeOK
        <4>. QED
          BY <1>a, <3>1, <4>1, StatusSends
      <3>. QED
        BY <2>2, <3>2
    <2>. QED
      BY <1>a, <1>d, <2>1, <2>2, StatusOfAnswer
  <1>1. CASE DoConnect
    BY <1>a, <1>b, <1>c, <1>1 DEF DoConnect, EventsFollowTask, ConnInv
  <1>2. CASE InitKlippyConnection
    BY <1>a, <1>b, <1>c, <1>2 DEF InitKlippyConnection, EventsFollowTask, ConnInv
  <1>3. CASE RequestInfo
    BY <1>a, <1>b, <1>c, <1>3 DEF RequestInfo, EventsFollowTask, ConnInv
  <1>4. CASE GotInfo
    <2>1. CASE UNCHANGED events
      BY <1>a, <1>b, <1>4, <2>1 DEF GotInfo, Send, EventsFollowTask, ConnInv
    <2>2. CASE ~identified /\ Send("identified")
      <3>1. events = <<>> /\ events' = Append(events, "identified") /\ events \in Seq(Names)
        BY <1>a, <1>4, <2>2 DEF GotInfo, EventsFollowTask, Send
      <3>2. EventOrder' /\ events' \in Seq(Names) /\ events' # <<>> /\ Last(events') = "identified"
        BY <1>a, <3>1, SendNext
      <3>3. /\ task' \in {"identified", "pause", "state"} /\ (task' # "identified" => UNCHANGED events)
            /\ (task' = "identified" => identified')
            /\ UNCHANGED <<reading, initializing, started>> /\ ~started /\ reading /\ initializing
        BY <1>a, <1>4 DEF GotInfo, EventsFollowTask, ConnInv
      <3>4. task' = "identified"
        <4>1. events' # events
          BY <3>1, AppendProperties
        <4>. QED
          BY <3>3, <4>1
      <3>. QED
        BY <3>2, <3>3, <3>4 DEF EventsFollowTask
    <2>. QED
      BY <1>4, <2>1, <2>2 DEF GotInfo
  <1>5. CASE SetState
    BY <1>a, <1>b, <1>c, <1>5 DEF SetState, EventsFollowTask, ConnInv
  <1>6. CASE InitialSubscriptions
    <2>1. /\ task = "subscribe" /\ task' = "endpoints" /\ Subscribed(Init_)
          /\ UNCHANGED <<reading, identified, initializing, started>> /\ reading /\ initializing
      BY <1>a, <1>6 DEF InitialSubscriptions, ConnInv
    <2>2. req[Init_].want # {} /\ Init_ \in Actors
      BY <1>a, <1>6 DEF InitialSubscriptions, RequestInv, Idle, NoRequest, Done, Actors
    <2>3. EventOrder' /\ events' \in Seq(Names) /\ UNCHANGED events
      BY <1>d, <2>1, <2>2
    <2>. QED
      BY <1>a, <1>b, <2>1, <2>3 DEF EventsFollowTask
  <1>7. CASE AnnounceStarted
    <2>1. /\ Heard("identified") /\ events' = Append(events, "started") /\ events \in Seq(Names)
          /\ task' = "started" /\ ~started' /\ reading' /\ initializing'
      BY <1>a, <1>7 DEF AnnounceStarted, EventsFollowTask, ConnInv, Send
    <2>2. EventOrder' /\ events' \in Seq(Names) /\ events' # <<>> /\ Last(events') = "started"
      BY <1>a, <2>1, SendNext
    <2>. QED
      BY <2>1, <2>2 DEF EventsFollowTask
  <1>8. CASE StartedHandled
    <2>1. Heard("started") /\ events \in Seq(Names) /\ reading' /\ started' /\ task' \in {"verify", "done"} /\ UNCHANGED state
      BY <1>a, <1>8 DEF StartedHandled, EventsFollowTask, ConnInv
    <2>2. CASE UNCHANGED events
      BY <1>b, <2>1, <2>2 DEF EventsFollowTask, Settled
    <2>3. CASE state = "shutdown" /\ Send("shutdown")
      <3>1. EventOrder' /\ events' \in Seq(Names) /\ events' # <<>> /\ Last(events') = "shutdown"
        BY <1>a, <2>1, <2>3, SendNext DEF Send
      <3>2. task' = "done" /\ state' = "shutdown"
        BY <1>8, <2>1, <2>3 DEF StartedHandled
      <3>. QED
        BY <2>1, <3>1, <3>2 DEF EventsFollowTask, Settled
    <2>. QED
      BY <1>8, <2>2, <2>3 DEF StartedHandled
  <1>9. CASE Verified
    <2>1. Heard("started") /\ events \in Seq(Names) /\ reading' /\ started'
      BY <1>a, <1>9 DEF Verified, EventsFollowTask, ConnInv
    <2>2. CASE task' = "done" /\ UNCHANGED events
      BY <1>b, <2>1, <2>2 DEF EventsFollowTask, Settled
    <2>3. CASE task' = "ready" /\ initializing' /\ Send("ready")
      <3>1. EventOrder' /\ events' \in Seq(Names) /\ events' # <<>> /\ Last(events') = "ready"
        BY <1>a, <2>1, SendNext, <2>3 DEF Send
      <3>. QED
        BY <2>1, <2>3, <3>1 DEF EventsFollowTask
    <2>. QED
      BY <1>a, <1>9, <2>2, <2>3 DEF Verified, ConnInv
  <1>10. CASE ReadyHandled
    <2>1. Heard("ready") /\ events \in Seq(Names) /\ reading' /\ task' = "done" /\ UNCHANGED state
      BY <1>a, <1>10 DEF ReadyHandled, EventsFollowTask, ConnInv
    <2>2. CASE state # "shutdown" /\ UNCHANGED events
      BY <1>b, <2>1, <2>2 DEF EventsFollowTask, Settled
    <2>3. CASE state = "shutdown" /\ Send("shutdown")
      <3>1. EventOrder' /\ events' \in Seq(Names) /\ events' # <<>> /\ Last(events') = "shutdown"
        BY <1>a, <2>1, SendNext, <2>3 DEF Send
      <3>. QED
        BY <2>1, <2>3, <3>1 DEF EventsFollowTask, Settled
    <2>. QED
      BY <1>10, <2>2, <2>3 DEF ReadyHandled
  <1>11. CASE OnConnectionClosed
    <2>1. events' = <<>> /\ task' = "done" /\ ~reading' /\ ~identified' /\ ~started' /\ state' = "disconnected"
      BY <1>a, <1>11 DEF OnConnectionClosed, ConnInv
    <2>. QED
      BY <2>1 DEF EventOrder, EventsFollowTask
  <1>12. CASE DisconnectHandled
    BY <1>a, <1>b, <1>c, <1>12 DEF DisconnectHandled, EventsFollowTask, ConnInv
  <1>13. CASE StatusUpdate
    <2>1. /\ ProcessStatus(klippy) /\ klippy \in States /\ reading
          /\ UNCHANGED <<reading, task, identified, initializing, started>>
      BY <1>a, <1>13 DEF StatusUpdate, FlagsTypeOK, States
    <2>2. events \in Seq(Names) /\ initializing \in BOOLEAN /\ (~initializing => Settled)
      BY <1>a, <2>1 DEF EventsFollowTask, FlagsTypeOK
    <2>3. (initializing => UNCHANGED events) /\ EventOrder' /\ events' \in Seq(Names) /\ (~initializing => Settled')
      BY <1>a, <2>1, <2>2, StatusSends
    <2>. QED
      BY <1>a, <1>b, <2>1, <2>3 DEF EventsFollowTask, ConnInv
  <1>14. CASE AnswerStray
    BY <1>a, <1>b, <1>c, <1>14 DEF AnswerStray, EventsFollowTask, ConnInv
  <1>15. CASE StopServer
    BY <1>a, <1>b, <1>c, <1>15 DEF StopServer, EventsFollowTask, ConnInv
  <1>16. CASE KlippyChanges
    BY <1>a, <1>b, <1>c, <1>16 DEF KlippyChanges, EventsFollowTask, ConnInv
  <1>17. CASE EndOfStream
    BY <1>a, <1>b, <1>c, <1>17 DEF EndOfStream, EventsFollowTask, ConnInv
  <1>18. CASE ServerCloses
    BY <1>a, <1>b, <1>c, <1>18 DEF ServerCloses, EventsFollowTask, ConnInv
  <1>19. ASSUME NEW a \in Actors, WriteRequest(a) PROVE EventOrder' /\ EventsFollowTask'
    BY <1>a, <1>b, <1>c, <1>19 DEF WriteRequest, EventsFollowTask, ConnInv
  <1>20. ASSUME NEW a \in Actors, Answer(a) PROVE EventOrder' /\ EventsFollowTask'
    BY <1>a, <1>b, <1>c, <1>20 DEF Answer, EventsFollowTask, ConnInv
  <1>21. ASSUME NEW a \in Actors, Subscribe(a) PROVE EventOrder' /\ EventsFollowTask'
    BY <1>a, <1>b, <1>c, <1>21 DEF Subscribe, EventsFollowTask, ConnInv
  <1>22. ASSUME NEW a \in Actors, TimeOut(a) PROVE EventOrder' /\ EventsFollowTask'
    BY <1>a, <1>b, <1>c, <1>22 DEF TimeOut, EventsFollowTask, ConnInv
  <1>23. ASSUME NEW a \in Actors, WriteFails(a) PROVE EventOrder' /\ EventsFollowTask'
    BY <1>a, <1>b, <1>c, <1>23 DEF WriteFails, EventsFollowTask, ConnInv
  <1>24. ASSUME NEW c \in Clients, CallStandard(c) PROVE EventOrder' /\ EventsFollowTask'
    BY <1>a, <1>b, <1>c, <1>24 DEF CallStandard, EventsFollowTask, ConnInv
  <1>25. ASSUME NEW c \in Clients, CallSubscribe(c) PROVE EventOrder' /\ EventsFollowTask'
    BY <1>a, <1>b, <1>c, <1>25 DEF CallSubscribe, EventsFollowTask, ConnInv
  <1>26. ASSUME NEW c \in Clients, Return(c) PROVE EventOrder' /\ EventsFollowTask'
    <2>1. UNCHANGED <<reading, task, identified, initializing, started>> /\ c \in Actors
      BY <1>26 DEF Return, Actors
    <2>2. CASE req[c].want # {}
      <3>1. /\ EventOrder' /\ events' \in Seq(Names)
            /\ initializing \/ ~reading => UNCHANGED events
            /\ ~reading => UNCHANGED state
            /\ reading /\ ~initializing => Settled'
        BY <1>d, <1>26, <2>1, <2>2 DEF Return
      <3>. QED
        BY <1>a, <1>b, <2>1, <3>1 DEF EventsFollowTask, ConnInv
    <2>3. CASE req[c].want = {}
      BY <1>a, <1>b, <1>c, <1>26, <2>1, <2>3 DEF Return, EventsFollowTask
    <2>. QED
      BY <2>2, <2>3
  <1>27. ASSUME NEW c \in Clients, Leave(c) PROVE EventOrder' /\ EventsFollowTask'
    BY <1>a, <1>b, <1>c, <1>27 DEF Leave, EventsFollowTask, ConnInv
  <1>28. CASE UNCHANGED vars
    BY <1>a, <1>b, <1>c, <1>28 DEF EventsFollowTask
  <1>. QED
    BY <1>1, <1>2, <1>3, <1>4, <1>5, <1>6, <1>7, <1>8, <1>9, <1>10, <1>11, <1>12, <1>13, <1>14, <1>15, <1>16, <1>17, <1>18, <1>19, <1>20, <1>21, <1>22, <1>23, <1>24, <1>25, <1>26, <1>27, <1>28 DEF Next, Task, Closing, Requests

\* What the connection asked for stays enough for every subscriber, because
\* only the holder of the lock has a subscription under way and subscribers
\* are added only by it.
LEMMA AskedForAllStep ==
    ASSUME IInv, [Next]_vars
    PROVE  AskedForAll'
  <1>. USE DEF Subscribing, Subscribes, Pending, Goto, None, vars, server, conn, flags, locals, outside, asked, known, history, bounds
  <1>a. AskedForAll /\ RequestsTypeOK /\ RequestInv /\ ConnInv /\ EventsFollowTask
    BY DEF IInv, TypeOK
  <1>b. Init_ \in Actors /\ \A c \in Clients : c \in Actors /\ c # Init_
    BY ClientsAssumption DEF Actors
  <1>c. \A a, b \in Actors : req[a].want # {} /\ req[b].want # {} => a = b
    BY <1>a DEF RequestsTypeOK
  <1>d. ASSUME UNCHANGED <<req, subs, served, stray>>,
               (link = "up")' => link = "up", Subscribing' => Subscribing, Subscribes' => Subscribes
        PROVE  AskedForAll'
    BY <1>a, <1>d, LastAskedNext DEF AskedForAll
  <1>1. CASE DoConnect
    BY <1>a, <1>1 DEF DoConnect, ConnInv, EventsFollowTask, AskedForAll
  <1>2. CASE InitKlippyConnection
    BY <1>a, <1>d, <1>2 DEF InitKlippyConnection, ConnInv, EventsFollowTask, AskedForAll
  <1>3. CASE RequestInfo
    <2>1. UNCHANGED <<subs, served, stray, link>> /\ ~Subscribing' /\ ~Subscribes'
      BY <1>a, <1>3 DEF RequestInfo, EventsFollowTask
    <2>. QED
      BY <2>1 DEF AskedForAll
  <1>4. CASE GotInfo
    <2>1. UNCHANGED <<subs, served, stray, link>> /\ ~Subscribing' /\ ~Subscribes'
      BY <1>a, <1>4 DEF GotInfo, EventsFollowTask
    <2>. QED
      BY <2>1 DEF AskedForAll
  <1>5. CASE SetState
    <2>1. UNCHANGED <<subs, served, stray, link>> /\ ~Subscribing' /\ ~Subscribes'
      BY <1>a, <1>5 DEF SetState, EventsFollowTask, RequestInv
    <2>. QED
      BY <2>1 DEF AskedForAll
  <1>6. CASE InitialSubscriptions
    <2>1. req[Init_].want # {} /\ Subscribed(Init_) /\ UNCHANGED <<served, stray, link, started>>
      BY <1>a, <1>6 DEF InitialSubscriptions, Done, RequestInv, Idle, NoRequest
    <2>2. (\A a \in Actors : req'[a].want = {}) /\ task' = "endpoints"
      BY <1>a, <1>b, <2>1, <1>6, SubscribedLeaves DEF InitialSubscriptions
    <2>3. link = "up" => subs' \subseteq LastAsked
      BY <1>a, <1>b, <1>6, <2>1 DEF InitialSubscriptions, Subscribed, Done, AskedForAll
    <2>. QED
      BY <1>a, <2>1, <2>2, <2>3, LastAskedNext DEF AskedForAll
  <1>7. CASE AnnounceStarted
    BY <1>a, <1>d, <1>7 DEF AnnounceStarted, EventsFollowTask
  <1>8. CASE StartedHandled
    BY <1>a, <1>d, <1>8 DEF StartedHandled, EventsFollowTask
  <1>9. CASE Verified
    BY <1>a, <1>d, <1>9 DEF Verified, EventsFollowTask
  <1>10. CASE ReadyHandled
    BY <1>a, <1>d, <1>10 DEF ReadyHandled, EventsFollowTask
  <1>11. CASE OnConnectionClosed
    <2>1. link' = "none"
      BY <1>11 DEF OnConnectionClosed
    <2>. QED
      BY <2>1 DEF AskedForAll
  <1>12. CASE DisconnectHandled
    BY <1>a, <1>d, <1>12 DEF DisconnectHandled
  <1>13. CASE StatusUpdate
    BY <1>a, <1>d, <1>13 DEF StatusUpdate
  <1>14. CASE StopServer
    BY <1>a, <1>d, <1>14 DEF StopServer
  <1>15. CASE KlippyChanges
    BY <1>a, <1>d, <1>15 DEF KlippyChanges
  <1>16. CASE AnswerStray
    <2>1. UNCHANGED <<req, subs, link, started, task>> /\ LastAsked' = LastAsked
      BY <1>a, <1>16, LastAskedNext DEF AnswerStray
    <2>. QED
      BY <1>a, <2>1 DEF AskedForAll
  <1>17. CASE EndOfStream
    <2>1. link' # "up"
      BY <1>17 DEF EndOfStream, Close
    <2>. QED
      BY <2>1 DEF AskedForAll
  <1>18. CASE ServerCloses
    <2>1. UNCHANGED <<subs, served, stray, link, started>> /\ task' = "done" /\ req' = [req EXCEPT ![Init_] = NoRequest]
      BY <1>18 DEF ServerCloses, Close
    <2>2. \A a \in Actors : req'[a].want # {} => req'[a] = req[a]
      BY <1>a, <2>1 DEF RequestsTypeOK, NoRequest
    <2>. QED
      BY <1>a, <2>1, <2>2, LastAskedNext DEF AskedForAll
  <1>19. ASSUME NEW a \in Actors, WriteRequest(a) PROVE AskedForAll'
    <2>1. /\ req' = Settle(a, IF IsConnected THEN "sent" ELSE "error") /\ req[a].at = "queued"
          /\ UNCHANGED <<link, subs, started, task, stray, served>>
      BY <1>19 DEF WriteRequest
    <2>2. LastAsked' = LastAsked
      BY <1>a, <2>1, LastAskedNext
    <2>3. PICK how \in {"sent", "error"} : req' = Settle(a, how) /\ (how = "error" => ~IsConnected)
      BY <2>1
    <2>4. \A b \in Actors : /\ req'[b].want = req[b].want
                            /\ req'[b] = req[b] \/ (b = a /\ req'[b].at = how)
      BY <1>a, <2>3, SettleOne
    <2>5. Subscribing' => Subscribing
      BY <1>b, <2>1, <2>4
    <2>6. Subscribing /\ req'[Init_].at = "error" => req'[Init_] = req[Init_]
      BY <1>a, <1>b, <2>3, <2>4 DEF IsConnected, ConnInv
    <2>7. \A b \in Actors : (Pending(b)' => Pending(b)) /\ (req'[b].at = "ok" => req[b].at = "ok")
      BY <2>1, <2>4
    <2>8. \A b \in Actors : req'[b].want = req[b].want
      BY <1>a, <2>3, SettleOne
    <2>9. UNCHANGED <<link, subs>> /\ (Subscribes' => Subscribes)
      <3>1. UNCHANGED <<link, subs, started, task>>
        BY <1>19 DEF WriteRequest
      <3>. QED
        BY <3>1
    <2>10. link = "up" /\ (Subscribing' \/ Subscribes') =>
             \A b \in Actors : req'[b].want # {} =>
                 /\ Pending(b)' => {b} \cup subs \subseteq req'[b].want
                 /\ req'[b].at = "ok" => {b} \cup subs \subseteq LastAsked
      <3>. HIDE DEF Pending, Subscribing, Subscribes
      <3>. QED
        BY <1>a, <2>5, <2>7, <2>8, <2>9 DEF AskedForAll
    <2>11. link = "up" /\ (Subscribes' \/ (Subscribing' /\ req'[Init_].at = "error")) => subs \subseteq LastAsked
      BY <1>a, <2>1, <2>5, <2>6 DEF AskedForAll
    <2>. QED
      BY <2>2, <2>9, <2>10, <2>11 DEF AskedForAll
  <1>20. ASSUME NEW a \in Actors, Answer(a) PROVE AskedForAll'
    <2>1. UNCHANGED <<link, subs, started, task, stray>> /\ (req[a].want # {} => stray = <<>>) /\ req[a].at = "sent"
      BY <1>20 DEF Answer
    <2>2. req' = [req EXCEPT ![a].at = "ok", ![a].val = klippy]
      BY <1>20 DEF Answer
    <2>3. served' = IF req[a].want # {} THEN req[a].want ELSE served
      BY <1>20 DEF Answer, Served
    <2>4. stray = <<>> => LastAsked = served /\ LastAsked' = served'
      BY <2>1 DEF LastAsked
    <2>5. \A b \in Actors : req'[b].want = req[b].want /\ (b # a => req'[b] = req[b])
      BY <1>a, <2>2 DEF RequestsTypeOK, Request
    <2>6. req'[a].at = "ok"
      BY <1>a, <2>2 DEF RequestsTypeOK, Request
    <2>7. Subscribing' => Subscribing
      BY <1>b, <2>1, <2>5
    <2>8. CASE req[a].want = {}
      <3>1. \A b \in Actors : req'[b].want # {} => req'[b] = req[b]
        BY <2>5, <2>8
      <3>2. req'[Init_].at = "error" => req'[Init_] = req[Init_]
        BY <1>b, <2>5, <2>6
      <3>3. LastAsked' = LastAsked
        BY <1>a, <2>1, <2>3, <2>8, LastAskedNext
      <3>. QED
        BY <1>a, <2>1, <2>7, <3>1, <3>2, <3>3 DEF AskedForAll
    <2>9. CASE req[a].want # {}
      <3>1. link = "up" /\ (Subscribing \/ Subscribes) => {a} \cup subs \subseteq req[a].want
        BY <1>a, <2>1, <2>9 DEF AskedForAll
      <3>2. \A b \in Actors : req'[b].want # {} => b = a
        BY <1>c, <2>5, <2>9
      <3>3. req'[Init_].at = "error" => req'[Init_] = req[Init_]
        BY <1>b, <2>5, <2>6
      <3>4. LastAsked' = req[a].want
        BY <2>1, <2>3, <2>4, <2>9
      <3>. QED
        BY <3>1, <3>2, <3>3, <3>4, <2>1, <2>6, <2>7 DEF AskedForAll
    <2>. QED
      BY <2>8, <2>9
  <1>21. ASSUME NEW a \in Actors, Subscribe(a) PROVE AskedForAll'
    <2>1. /\ UNCHANGED <<link, subs, started, task, stray, served>> /\ Idle(a) /\ Turn(a)
          /\ req' = [req EXCEPT ![a] = [at |-> "queued", want |-> {a} \cup subs, val |-> None]]
      BY <1>21 DEF Subscribe, Register, SuperSet
    <2>2. LastAsked' = LastAsked
      BY <1>a, <2>1, LastAskedNext
    <2>3. \A b \in Actors : req'[b].want # {} => b = a
      BY <1>a, <2>1 DEF RequestsTypeOK, Turn
    <2>4. req'[a].at = "queued" /\ req'[a].want = {a} \cup subs /\ (a # Init_ => req'[Init_] = req[Init_])
      BY <1>a, <1>b, <2>1 DEF RequestsTypeOK
    <2>. QED
      BY <1>a, <2>1, <2>2, <2>3, <2>4 DEF AskedForAll
  <1>22. ASSUME NEW a \in Actors, TimeOut(a) PROVE AskedForAll'
    <2>1. /\ req' = Settle(a, "error") /\ req[a].at = "sent" /\ req[a].want # {}
          /\ UNCHANGED <<link, subs, started, task>> /\ stray' = Append(stray, req[a].want)
      BY <1>22 DEF TimeOut
    <2>2. LastAsked' = req[a].want
      BY <1>a, <2>1, LastAskedNext DEF RequestsTypeOK, Request
    <2>3. \A b \in Actors : req'[b].want = req[b].want /\ (req'[b] = req[b] \/ (b = a /\ req'[b].at = "error"))
      BY <1>a, <2>1, SettleOne
    <2>4. req'[a].at = "error"
      BY <1>a, <2>1, SettleOne
    <2>5. \A b \in Actors : req'[b].want # {} => b = a
      BY <1>c, <2>1, <2>3
    <2>6. Subscribing' => Subscribing
      BY <1>b, <2>1, <2>3
    <2>7. link = "up" /\ (Subscribing \/ Subscribes) => subs \subseteq req[a].want
      BY <1>a, <2>1 DEF AskedForAll
    <2>. QED
      BY <2>1, <2>2, <2>4, <2>5, <2>6, <2>7 DEF AskedForAll
  <1>23. ASSUME NEW a \in Actors, WriteFails(a) PROVE AskedForAll'
    <2>1. link' # "up"
      BY <1>23 DEF WriteFails, Close
    <2>. QED
      BY <2>1 DEF AskedForAll
  <1>24. ASSUME NEW c \in Clients, CallStandard(c) PROVE AskedForAll'
    <2>1. /\ UNCHANGED <<link, subs, started, task, stray, served>>
          /\ req' = [req EXCEPT ![c] = [at |-> "queued", want |-> {}, val |-> None]]
      BY <1>24 DEF CallStandard, Register
    <2>2. /\ \A b \in Actors : req'[b].want # {} => req'[b] = req[b]
          /\ req'[Init_] = req[Init_]
      BY <1>a, <1>b, <2>1 DEF RequestsTypeOK
    <2>. QED
      BY <1>a, <2>1, <2>2, LastAskedNext DEF AskedForAll
  <1>25. ASSUME NEW c \in Clients, CallSubscribe(c) PROVE AskedForAll'
    BY <1>a, <1>d, <1>25 DEF CallSubscribe
  <1>26. ASSUME NEW c \in Clients, Return(c) PROVE AskedForAll'
    <2>1. UNCHANGED <<served, stray, link, started, task>> /\ LastAsked' = LastAsked
      BY <1>a, <1>26, LastAskedNext DEF Return
    <2>2. CASE req[c].want # {}
      <3>1. Subscribed(c) /\ \A a \in Actors : req'[a].want = {}
        BY <1>a, <1>b, <1>26, <2>2, SubscribedLeaves DEF Return
      <3>2. req'[Init_] = req[Init_] /\ ~Subscribing
        BY <1>a, <1>b, <1>c, <3>1, <2>2 DEF Subscribed, RequestsTypeOK, RequestInv, Idle, NoRequest
      <3>3. link = "up" /\ Subscribes => subs' \subseteq LastAsked
        BY <1>a, <1>b, <3>1, <2>2 DEF Subscribed, AskedForAll
      <3>. QED
        BY <2>1, <3>1, <3>2, <3>3 DEF AskedForAll
    <2>3. CASE req[c].want = {}
      <3>1. req' = [req EXCEPT ![c] = NoRequest] /\ UNCHANGED subs
        BY <1>26, <2>3 DEF Return
      <3>2. (\A a \in Actors : req'[a].want # {} => req'[a] = req[a]) /\ req'[Init_] = req[Init_]
        BY <1>a, <1>b, <3>1 DEF RequestsTypeOK, NoRequest
      <3>. QED
        BY <1>a, <2>1, <3>1, <3>2 DEF AskedForAll
    <2>. QED
      BY <2>2, <2>3
  <1>27. ASSUME NEW c \in Clients, Leave(c) PROVE AskedForAll'
    BY <1>a, <1>27, LastAskedNext DEF Leave, AskedForAll
  <1>28. CASE UNCHANGED vars
    BY <1>a, <1>d, <1>28
  <1>. QED
    BY <1>1, <1>2, <1>3, <1>4, <1>5, <1>6, <1>7, <1>8, <1>9, <1>10, <1>11, <1>12, <1>13, <1>14, <1>15, <1>16, <1>17, <1>18, <1>19, <1>20, <1>21, <1>22, <1>23, <1>24, <1>25, <1>26, <1>27, <1>28 DEF Next, Task, Closing, Requests

-----------------------------------------------------------------------------
\* The connection starts in the invariant: nothing is connected, asked for or
\* announced.
LEMMA InitInv == Init => IInv
  <1>. SUFFICES ASSUME Init PROVE IInv
    OBVIOUS
  <1>. USE DEF Init, None, States
  <1>1. FlagsTypeOK
    BY DEF FlagsTypeOK
  <1>2. RequestsTypeOK
    BY DEF RequestsTypeOK, Request, NoRequest, IsInjective
  <1>3. ConnInv
    BY DEF ConnInv
  <1>4. RequestInv
    <2>1. Init_ \in Actors /\ Init_ \notin Range(sublock)
      BY DEF Actors, Range
    <2>. QED
      BY <2>1 DEF RequestInv, NoRequest, Idle
  <1>6. EventOrder
    BY DEF EventOrder
  <1>7. EventsFollowTask
    BY DEF EventsFollowTask
  <1>8. AskedForAll
    BY DEF AskedForAll
  <1>. QED
    BY <1>1, <1>2, <1>3, <1>4, <1>6, <1>7, <1>8 DEF IInv, TypeOK

\* The invariant holds in every reachable state.
THEOREM Invariance == Spec => []IInv
  <1>1. Init => IInv
    BY InitInv
  <1>2. IInv /\ [Next]_vars => IInv'
    <2>. SUFFICES ASSUME IInv, [Next]_vars PROVE IInv'
      OBVIOUS
    <2>1. FlagsTypeOK' /\ RequestsTypeOK'
      BY FlagsTypeOKStep, RequestsTypeOKStep
    <2>2. ConnInv' /\ RequestInv'
      BY ConnInvStep, RequestInvStep
    <2>3. EventOrder' /\ EventsFollowTask'
      BY EventsStep
    <2>4. AskedForAll'
      BY AskedForAllStep
    <2>. QED
      BY <2>1, <2>2, <2>3, <2>4 DEF IInv, TypeOK
  <1>. QED
    BY <1>1, <1>2, PTL DEF Spec

\* The variables have their types; a subscription under way is that of the
\* holder of the lock.
THEOREM TypeCorrect == Spec => []TypeOK
  <1>1. IInv => TypeOK
    BY DEF IInv
  <1>. QED
    BY <1>1, Invariance, PTL

\* However requests, status updates, shutdowns, late answers and the loss of
\* the connection interleave with _check_ready, the components hear identified,
\* started, ready and shutdown in this order, and a shutdown twice only if the
\* status of an answer took the state out of shutdown in between.
THEOREM EventsInOrder == Spec => []EventOrder
  <1>1. IInv => EventOrder
    BY DEF IInv
  <1>. QED
    BY <1>1, Invariance, PTL

\* Whatever clients come, leave or are timed out: once started is announced
\* and no given-up subscription is on its way, Klippy reports to each of them.
THEOREM AllSubscribersServed == Spec => []SubscribersServed
  <1>1. IInv => SubscribersServed
    BY LastAskedNext DEF IInv, AskedForAll, Subscribes, SubscribersServed
  <1>. QED
    BY <1>1, Invariance, PTL
=============================================================================
