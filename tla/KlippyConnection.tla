-------------------------- MODULE KlippyConnection --------------------------
(***************************************************************************)
(* Moonraker's connection to Klippy (klippy_connection.py): connecting,    *)
(* initialising, requests, subscriptions, closing and connecting again.    *)
(* Coroutines of one event loop; an action runs from one await to the      *)
(* next.  The socket is external; of Klippy only the state it reports and  *)
(* whose objects it reports are kept.  What Klippy sends is read in order  *)
(* and before the end of the stream, so reading a message is one step with *)
(* sending it.                                                             *)
(***************************************************************************)
EXTENDS Naturals, FiniteSets, SequencesExt

CONSTANTS Clients,      \* front ends, each with one call at a time
          Watchers,     \* those whose objects include webhooks
          MaxCalls,     \* bound: calls of front ends
          MaxChanges,   \* bound: starts, stops and shutdowns of Klippy
          MaxTimeouts   \* bound: subscriptions not answered in 20 seconds
ASSUME BoundsAssumption == MaxCalls \in Nat /\ MaxChanges \in Nat /\ MaxTimeouts \in Nat

Init_     == "task"                 \* connection_task, as a maker of requests
ASSUME ClientsAssumption == Init_ \notin Clients   \* which is no front end
ASSUME WatchersAssumption == Watchers \subseteq Clients
Actors    == Clients \cup {Init_}
None      == "none"

VARIABLES running,        \* the server runs
          klippy,         \* state of the Klippy process
          told,           \* the webhooks state Klippy last reported; None: not subscribed
          served,         \* whose objects Klippy reports
          stray,          \* subscriptions Moonraker has given up, not yet taken by Klippy
          link,           \* the socket: none, up, or lost and not yet noticed
          writer, closing, reading,
          task,           \* where connection_task is; "done": no such task
          closer,         \* where close() is
          identified, initializing, started, state,
          startup_state,  \* local of _check_ready: the state announced with klippy_started
          info,           \* local of _check_ready: the state Klippy answered
          req,            \* the requests: in which stage, and what they ask for
          sublock,        \* subscription_lock: its holder first, then who waits
          subs,           \* subscriptions
          cache,          \* the webhooks state in subscription_cache; None: no entry
          events,         \* history: events sent since the last klippy_disconnect, and "back" where,
                          \*   initialised, a late status put the state back from shutdown
          deferred,       \* history: a shutdown was reported during initialisation
          calls, changes, timeouts

conn    == <<running, writer, closing, reading, closer>>
flags   == <<identified, initializing, started, state>>
locals  == <<startup_state, info>>
server  == <<conn, task, flags, locals>>
outside == <<klippy, told, served, stray, link>>
known   == <<subs, cache>>
asked   == <<req, sublock, known>>
history == <<events, deferred>>
bounds  == <<calls, changes, timeouts>>
vars == <<server, outside, asked, history, bounds>>

NoRequest  == [at |-> None, want |-> {}, val |-> None]
Idle(a)    == req[a] = NoRequest
Pending(a) == req[a].at \in {"queued", "sent"}       \* in pending_requests
Done(a)    == req[a].at \in {"ok", "error"}          \* its future has a result
IsConnected == writer /\ ~closing
Send(e)     == events' = Append(events, e)
-----------------------------------------------------------------------------
(* Requests.  _request_standard registers one and schedules its writing.   *)
Register(a, want) == [req EXCEPT ![a] = [at |-> "queued", want |-> want, val |-> None]]

Settle(a, how)    == [req EXCEPT ![a].at = how]

WriteRequest(a) ==   \* into a socket just lost the write may still succeed
  /\ req[a].at = "queued"
  /\ req' = Settle(a, IF IsConnected THEN "sent" ELSE "error")
  /\ UNCHANGED <<sublock, known, server, outside, history, bounds>>

(* Klippy takes subscriptions in order; each replaces the one before it    *)
(* and is answered with the state, from which the next report differs.     *)
(* The reader gives the answer to the future.                              *)
Watches(want) == want \cap (Watchers \cup {Init_}) # {}
Served(want) == IF want = {} THEN UNCHANGED <<served, told>>
                ELSE served' = want /\ told' = IF Watches(want) THEN klippy ELSE None
Answer(a) ==
  /\ link = "up" /\ reading /\ req[a].at = "sent"
  /\ req[a].want # {} => stray = <<>>
  /\ req' = [req EXCEPT ![a].at = "ok", ![a].val = klippy]
  /\ Served(req[a].want)
  /\ UNCHANGED <<klippy, stray, link, sublock, known, server, history, bounds>>
AnswerStray ==   \* no request matches the answer
  /\ link = "up" /\ stray # <<>>
  /\ Served(Head(stray)) /\ stray' = Tail(stray)
  /\ UNCHANGED <<klippy, link, server, asked, history, bounds>>
TimeOut(a) ==
  /\ timeouts < MaxTimeouts /\ timeouts' = timeouts + 1
  /\ req[a].at = "sent" /\ req[a].want # {}
  /\ req' = Settle(a, "error") /\ stray' = Append(stray, req[a].want)
  /\ UNCHANGED <<klippy, told, served, link, sublock, known, server, history, calls, changes>>

(* Subscriptions go one at a time; each asks for what all clients want.    *)
Enter(a) == sublock' = Append(sublock, a)
SuperSet_Own(a) == {a}   \* mutant: what the other clients want is left out
SuperSet(a) == {a} \cup subs
Turn_Any(a) == a \in Range(sublock)   \* mutant: no lock
Turn(a) == sublock # <<>> /\ Head(sublock) = a
Subscribe(a) ==
  /\ Turn(a) /\ Idle(a)
  /\ req' = Register(a, SuperSet(a))
  /\ UNCHANGED <<sublock, known, server, outside, history, bounds>>

(* _process_status_update, for the webhooks object.                        *)
Announces_Always == state # "shutdown"   \* mutant: sent at once, initialising or not
Announces == ~initializing /\ state # "shutdown"
ComesBack == ~initializing /\ state = "shutdown"
ProcessStatus(new) ==
  /\ state' = new
  /\ events' = CASE new = "shutdown" /\ Announces -> Append(events, "shutdown")
                 [] new # "shutdown" /\ ComesBack -> Append(events, "back")
                 [] OTHER -> events
  /\ deferred' = (deferred \/ (new = "shutdown" /\ initializing))
StatusUpdate ==
  /\ link = "up" /\ reading /\ told \notin {None, klippy} /\ klippy # "down"
  /\ told' = klippy /\ cache' = klippy /\ ProcessStatus(klippy)
  /\ UNCHANGED <<conn, task, identified, initializing, started, locals, klippy, served, stray, link,
                 req, sublock, subs, bounds>>

(* The status in the answer goes through _process_status_update where it   *)
(* differs from the cache, and the cache then holds what it holds.  The    *)
(* answer may be older than a report that came before the coroutine went   *)
(* on.                                                                     *)
Subscribed(a) ==
  /\ sublock' = Tail(sublock) /\ req' = [req EXCEPT ![a] = NoRequest]
  /\ IF req[a].at # "ok" THEN UNCHANGED <<known, state, history>>
     ELSE LET new == IF Watches(req[a].want) THEN req[a].val ELSE None
          IN /\ subs' = subs \cup {a} /\ cache' = new
             /\ IF None \in {cache, new} \/ new = cache THEN UNCHANGED <<state, history>> ELSE ProcessStatus(new)

(* A client's call; one made without a connection is refused at once.      *)
CallStandard(c) ==
  /\ IsConnected /\ Idle(c) /\ c \notin Range(sublock)
  /\ calls < MaxCalls /\ calls' = calls + 1
  /\ req' = Register(c, {})
  /\ UNCHANGED <<sublock, known, server, outside, history, changes, timeouts>>
CallSubscribe(c) ==
  /\ IsConnected /\ Idle(c) /\ c \notin Range(sublock)
  /\ calls < MaxCalls /\ calls' = calls + 1
  /\ Enter(c)
  /\ UNCHANGED <<req, known, server, outside, history, changes, timeouts>>
Return(c) ==
  /\ Done(c)
  /\ IF req[c].want # {} THEN Subscribed(c)
     ELSE req' = [req EXCEPT ![c] = NoRequest] /\ UNCHANGED <<sublock, known, state, history>>
  /\ UNCHANGED <<conn, task, identified, initializing, started, locals, outside, bounds>>
Leave(c) ==   \* remove_subscription
  /\ c \in subs /\ subs' = subs \ {c}
  /\ UNCHANGED <<req, sublock, cache, server, outside, history, bounds>>
-----------------------------------------------------------------------------
(* connection_task.                                                        *)
Goto(pc) == task' = pc

DoConnect ==   \* one turn of the loop that waits for the socket
  /\ task = "sleep"
  /\ \/ ~running /\ Goto("done") /\ UNCHANGED <<writer, outside>>
     \/ /\ running /\ klippy # "down"
        /\ writer' = TRUE /\ link' = "up" /\ UNCHANGED <<klippy, told, served, stray>>
        /\ Goto("service")
  /\ UNCHANGED <<running, closing, reading, closer, flags, locals, asked, history, bounds>>

InitKlippyConnection ==   \* the reader starts once the service is known
  /\ task = "service" /\ Goto("pause")
  /\ reading' = TRUE /\ initializing' = TRUE
  /\ identified' = FALSE /\ started' = FALSE /\ state' = "startup"
  /\ UNCHANGED <<running, writer, closing, closer, locals, outside, asked, history, bounds>>

RequestInfo ==
  /\ task = "pause"
  /\ IF running THEN req' = Register(Init_, {}) /\ Goto("info")
                ELSE Goto("done") /\ UNCHANGED req
  /\ UNCHANGED <<conn, flags, locals, sublock, known, outside, history, bounds>>

GotInfo ==
  /\ task = "info" /\ Done(Init_)
  /\ req' = [req EXCEPT ![Init_] = NoRequest]
  /\ IF req[Init_].at = "error"
     THEN Goto("pause") /\ UNCHANGED <<identified, info, events>>
     ELSE /\ info' = req[Init_].val
          /\ IF identified THEN Goto("state") /\ UNCHANGED <<identified, events>>
                           ELSE Goto("identified") /\ identified' = TRUE /\ Send("identified")
  /\ UNCHANGED <<conn, initializing, started, state, startup_state, sublock, known, outside, deferred, bounds>>

(* After the handlers of klippy_identified and the endpoints.              *)
SetState ==
  /\ task \in {"identified", "state"}
  /\ state' = info /\ info' = None
  /\ IF info = "startup" THEN Goto("pause") /\ UNCHANGED sublock
                         ELSE Goto("subscribe") /\ Enter(Init_)
  /\ UNCHANGED <<conn, identified, initializing, started, startup_state, req, known, outside, history, bounds>>

InitialSubscriptions ==   \* an error is logged and ignored
  /\ task = "subscribe" /\ Done(Init_)
  /\ Subscribed(Init_)
  /\ Goto("endpoints")
  /\ UNCHANGED <<conn, identified, initializing, started, locals, outside, bounds>>

AnnounceStarted ==
  /\ task = "endpoints" /\ Goto("started")
  /\ startup_state' = state /\ Send("started")
  /\ UNCHANGED <<conn, flags, info, asked, outside, deferred, bounds>>

StartedHandled ==
  /\ task = "started"
  /\ started' = TRUE
  /\ IF state = "ready" THEN Goto("verify") /\ UNCHANGED <<initializing, events>>
     ELSE /\ Goto("done") /\ initializing' = FALSE
          /\ IF state = "shutdown" /\ startup_state # "shutdown" THEN Send("shutdown") ELSE UNCHANGED events
  /\ UNCHANGED <<conn, identified, state, locals, asked, outside, deferred, bounds>>

Verified ==   \* requirements verified, methods registered
  /\ task = "verify"
  /\ IF state = "ready" THEN Goto("ready") /\ Send("ready") /\ UNCHANGED initializing
                        ELSE Goto("done") /\ initializing' = FALSE /\ UNCHANGED events
  /\ UNCHANGED <<conn, identified, started, state, locals, asked, outside, deferred, bounds>>

ReadyHandled ==
  /\ task = "ready" /\ Goto("done") /\ initializing' = FALSE
  /\ IF state = "shutdown" THEN Send("shutdown") ELSE UNCHANGED events
  /\ UNCHANGED <<conn, identified, started, state, locals, asked, outside, deferred, bounds>>
-----------------------------------------------------------------------------
(* close(): by the reader at the end of the stream, by a write that fails, *)
(* or by the server when it stops.  A task under way is cancelled at its   *)
(* await and leaves what it holds or waits for.                            *)
Close(rs) ==
  /\ ~closing /\ closing' = TRUE /\ closer' = "closing"
  /\ Goto("done")
  /\ req' = [rs EXCEPT ![Init_] = NoRequest]
  /\ sublock' = RemoveFirst(sublock, Init_)
  /\ UNCHANGED <<running, writer, reading, flags, locals, known, outside, history, bounds>>
EndOfStream   == link = "lost" /\ reading /\ Close(req)
WriteFails(a) == link = "lost" /\ req[a].at = "queued" /\ Close(Settle(a, "error"))
ServerCloses  == ~running /\ writer /\ Close(req)

FailAll_Forget == req   \* mutant: pending_requests is only emptied
FailAll == [a \in Actors |-> IF Pending(a) THEN [req[a] EXCEPT !.at = "error"] ELSE req[a]]
OnConnectionClosed ==
  /\ closer = "closing" /\ closer' = "event"
  /\ writer' = FALSE /\ reading' = FALSE /\ link' = "none" /\ told' = None /\ served' = {} /\ stray' = <<>>
  /\ identified' = FALSE /\ initializing' = FALSE /\ started' = FALSE /\ state' = "disconnected"
  /\ startup_state' = None /\ info' = None
  /\ req' = FailAll /\ subs' = {} /\ cache' = None
  /\ events' = <<>> /\ deferred' = FALSE     \* klippy_disconnect
  /\ UNCHANGED <<running, closing, task, klippy, sublock, bounds>>

DisconnectHandled ==
  /\ closer = "event" /\ closer' = None /\ closing' = FALSE
  /\ IF running THEN Goto("sleep") ELSE UNCHANGED task
  /\ UNCHANGED <<running, writer, reading, flags, locals, outside, asked, history, bounds>>

StopServer == /\ running /\ running' = FALSE
              /\ UNCHANGED <<writer, closing, reading, task, closer, flags, locals, outside, asked, history, bounds>>
-----------------------------------------------------------------------------
(* The Klippy process, and the end of its connections with it.  Of a start *)
(* Moonraker may see startup or only what it led to.                       *)
NextState == {<<"down", "startup">>} \cup ({"down", "startup"} \X {"ready", "error"})
             \cup ({"startup", "ready", "error"} \X {"shutdown"})
             \cup ({"startup", "ready", "error", "shutdown"} \X {"down"})
KlippyChanges ==
  /\ changes < MaxChanges /\ changes' = changes + 1
  /\ \E k \in {"down", "startup", "ready", "error", "shutdown"} :
       /\ <<klippy, k>> \in NextState
       /\ klippy' = k /\ link' = IF k = "down" /\ link = "up" THEN "lost" ELSE link
  /\ UNCHANGED <<told, served, stray, server, asked, history, calls, timeouts>>

Init ==
  /\ running = TRUE /\ klippy \in {"down", "ready"} /\ told = None /\ served = {} /\ stray = <<>> /\ link = "none"
  /\ writer = FALSE /\ closing = FALSE /\ reading = FALSE /\ task = "sleep" /\ closer = None
  /\ identified = FALSE /\ initializing = FALSE /\ started = FALSE
  /\ state = "disconnected" /\ startup_state = None /\ info = None
  /\ req = [a \in Actors |-> NoRequest] /\ sublock = <<>> /\ subs = {} /\ cache = None
  /\ events = <<>> /\ deferred = FALSE /\ calls = 0 /\ changes = 0 /\ timeouts = 0

Task == \/ DoConnect \/ InitKlippyConnection \/ RequestInfo \/ GotInfo \/ SetState \/ InitialSubscriptions
        \/ AnnounceStarted \/ StartedHandled \/ Verified \/ ReadyHandled
Requests(a) == WriteRequest(a) \/ WriteFails(a) \/ Answer(a) \/ Subscribe(a)
Closing == EndOfStream \/ ServerCloses \/ OnConnectionClosed \/ DisconnectHandled
Next == \/ Task \/ Closing \/ StatusUpdate \/ AnswerStray \/ StopServer \/ KlippyChanges
        \/ \E a \in Actors : Requests(a) \/ TimeOut(a)
        \/ \E c \in Clients : CallStandard(c) \/ CallSubscribe(c) \/ Return(c) \/ Leave(c)

(* The loop runs what is ready; Klippy, while it runs, answers and reports.*)
Fairness == /\ WF_vars(Task \/ Requests(Init_))
            /\ WF_vars(Closing \/ StatusUpdate \/ AnswerStray)
            /\ WF_vars(\E c \in Clients : Requests(c) \/ Return(c))
Spec == Init /\ [][Next]_vars /\ Fairness
-----------------------------------------------------------------------------
States == {"startup", "ready", "error", "shutdown"}
(* Every variable has its type (klippy_connection.py); the holder of the   *)
(* subscription lock is the only one with a subscription request.          *)
FlagsTypeOK ==
  /\ {running, writer, closing, reading, identified, initializing, started, deferred} \subseteq BOOLEAN
  /\ klippy \in States \cup {"down"} /\ {told, cache} \subseteq States \cup {None} /\ link \in {"none", "up", "lost"}
  /\ task \in {"sleep", "service", "pause", "info", "identified", "state", "subscribe", "endpoints",
               "started", "verify", "ready", "done"}
  /\ closer \in {None, "closing", "event"}
  /\ state \in States \cup {"disconnected"} /\ startup_state \in States \cup {None} /\ info \in States \cup {None}
Request == [at: {None, "queued", "sent", "ok", "error"}, want: SUBSET Actors, val: States \cup {None}]
RequestsTypeOK ==
  /\ req \in [Actors -> Request]
  /\ sublock \in Seq(Actors) /\ IsInjective(sublock)
  /\ \A a \in Actors : req[a].want # {} => sublock # <<>> /\ Head(sublock) = a
  /\ served \subseteq Actors /\ subs \subseteq Actors
TypeOK == FlagsTypeOK /\ RequestsTypeOK

(* The components hear of a connection in order: identified, started,      *)
(* ready, shutdown, the first three once at most, though a shutdown may be *)
(* reported at any await of _check_ready and a close may cut it anywhere.  *)
(* A shutdown is announced again only if in between a subscription's late  *)
(* answer put the state back from shutdown, never because two of the four  *)
(* places that announce it (the end of either stage of _check_ready, a     *)
(* report, the status of an answer) see the same one.                      *)
Follows == {<<"identified", "started">>, <<"started", "ready">>, <<"started", "shutdown">>, <<"ready", "shutdown">>,
            <<"started", "back">>, <<"shutdown", "back">>, <<"back", "shutdown">>}
EventOrder ==
  /\ events # <<>> => events[1] = "identified"
  /\ \A i \in 1..(Len(events) - 1) : <<events[i], events[i + 1]>> \in Follows

(* Once klippy_started has been announced Klippy reports the objects of    *)
(* every client in subscriptions: a request of one client replaces the     *)
(* subscription of the connection and never drops another client's, though *)
(* clients come, leave, time out and return late from a lost connection.   *)
SubscribersServed == started /\ link = "up" /\ stray = <<>> => subs \subseteq served

(* Every call ends, be it answered, failed by the loss of the connection   *)
(* or given up; and whenever the connection is lost, Moonraker comes back: *)
(* while it and Klippy run it is initialised again and again, and does not *)
(* stay unconnected or half initialised.                                   *)
Recovers ==
  /\ \A c \in Clients : []<>(Idle(c) /\ c \notin Range(sublock))
  /\ []<>(running /\ klippy = "ready" => started /\ ~initializing)

(* A shutdown reported during initialisation is announced by its end: "If  *)
(* the shutdown state is received during initialization defer the event,   *)
(* the init routine will handle it" (_process_status_update).              *)
ShutdownIsAnnounced ==
  deferred /\ started /\ ~initializing /\ link = "up" =>
    "shutdown" \in Range(events) \/ startup_state = "shutdown"
=============================================================================
