----------------------------- MODULE LiveUpdates -----------------------------
(***************************************************************************)
(* From a committed ingest run to the tab that asks for fresh numbers: the *)
(* SSE hub (backend/events.py), the generator behind each GET /api/events  *)
(* (backend/api.py: event_stream) and the effects of src/app.jsx that bump *)
(* dashNonce on `ingest_done` and refetch the dashboard when it changes.   *)
(*                                                                         *)
(* One browser tab: tabs do not interact.  Its EventSource reconnects, so  *)
(* it may have an old request on the server beside the one it listens to.  *)
(* The client looks at no payload, so a queue is only its length.          *)
(* Names that DashClient has too begin with Live: both are extended where  *)
(* the tab is proved about.                                                *)
(***************************************************************************)
EXTENDS Integers, Sequences

CONSTANTS
  Conns,        \* GET /api/events requests the tab may make
  QueueSize,    \* maxsize of a subscriber's queue; the source says 16
  MaxCommits    \* bound: ingest runs that change the tables

ASSUME ConnsAssumption == 0 \notin Conns
ASSUME SizesAssumption == QueueSize \in Nat \ {0} /\ MaxCommits \in Nat

VARIABLES
  commits,      \* runs that have changed the tables so far
  unannounced,  \* of those, the ones that have not called broadcast_threadsafe yet
  subscribers,  \* _subscribers
  queue,        \* request -> length of its asyncio.Queue
  callbacks,    \* _put_all closures scheduled on the event loop: their targets
  shutdown,     \* _shutdown_event is set
  gen,          \* request -> where its generator stands
  wire,         \* request -> events sent and not yet read by the tab
  es,           \* the request the EventSource listens to, 0 while it backs off
  due,          \* dashNonce has changed and the fetch effect has not run yet
  told,         \* history: the tab was a target of a broadcast, and has not asked
                \* for the dashboard since
  current       \* history: the tab has asked since the last commit

ingest  == <<commits, unannounced>>
hub     == <<subscribers, queue, callbacks, shutdown>>
streams == <<gen, wire, es>>
history == <<told, current>>
liveVars == <<ingest, hub, streams, due, history>>

LiveInit ==
  /\ commits = 0 /\ unannounced = 0
  /\ subscribers = {} /\ callbacks = <<>> /\ shutdown = FALSE
  /\ queue = [c \in Conns |-> 0]
  /\ gen = [c \in Conns |-> "none"]
  /\ wire = [c \in Conns |-> 0]
  /\ es = 0
  /\ due = TRUE                        \* effects run once at mount
  /\ told = FALSE /\ current = FALSE

-----------------------------------------------------------------------------
(* The ingest thread: it commits, and announces later.                     *)

Commit ==
  /\ commits < MaxCommits
  /\ commits' = commits + 1
  /\ unannounced' = unannounced + 1
  /\ current' = FALSE
  /\ UNCHANGED <<hub, streams, due, told>>

\* Under the lock it only copies _subscribers; the queues are the loop's.
Broadcast ==
  /\ unannounced > 0
  /\ unannounced' = unannounced - 1
  /\ callbacks' = Append(callbacks, subscribers)
  /\ told' = (told \/ es \in subscribers)
  /\ UNCHANGED <<commits, subscribers, queue, shutdown, streams, due, current>>

-----------------------------------------------------------------------------
(* The event loop.                                                         *)

\* Mutants of PutAll: the queue has no maxsize; a full queue is emptied.
PutAllUnbounded ==
  /\ callbacks # <<>>
  /\ queue' = [c \in Conns |-> IF c \in Head(callbacks) THEN queue[c] + 1 ELSE queue[c]]
  /\ callbacks' = Tail(callbacks)
  /\ UNCHANGED <<ingest, subscribers, shutdown, streams, due, history>>

PutAllClearing ==
  /\ callbacks # <<>>
  /\ queue' = [c \in Conns |-> IF c \in Head(callbacks)
                               THEN (queue[c] + 1) % (QueueSize + 1) ELSE queue[c]]
  /\ callbacks' = Tail(callbacks)
  /\ UNCHANGED <<ingest, subscribers, shutdown, streams, due, history>>

\* _put_all: a full queue drops the payload.
PutAll ==
  /\ callbacks # <<>>
  /\ queue' = [c \in Conns |-> IF c \in Head(callbacks) /\ queue[c] < QueueSize
                               THEN queue[c] + 1 ELSE queue[c]]
  /\ callbacks' = Tail(callbacks)
  /\ UNCHANGED <<ingest, subscribers, shutdown, streams, due, history>>

\* signal_shutdown, from the lifespan's exit.
SignalShutdown ==
  /\ ~shutdown
  /\ shutdown' = TRUE
  /\ UNCHANGED <<ingest, subscribers, queue, callbacks, streams, due, history>>

\* First iteration of the generator: subscribe, then ": connected".
Subscribe(c) ==
  /\ gen[c] = "new"
  /\ subscribers' = subscribers \cup {c}
  /\ gen' = [gen EXCEPT ![c] = "top"]
  /\ UNCHANGED <<ingest, queue, callbacks, shutdown, wire, es, due, history>>

\* Mutant of Leave: the finally block is gone.
LeaveSubscribed(c) ==
  /\ gen' = [gen EXCEPT ![c] = "closed"]
  /\ es' = IF es = c THEN 0 ELSE es
  /\ told' = (told /\ es # c)
  /\ UNCHANGED subscribers

\* break, then finally: unsubscribe.  The stream ends, which the tab notices.
Leave(c) ==
  /\ gen' = [gen EXCEPT ![c] = "closed"]
  /\ subscribers' = subscribers \ {c}
  /\ es' = IF es = c THEN 0 ELSE es
  /\ told' = (told /\ es # c)

\* Top of the loop: is_disconnected, then the shutdown event, then wait.
Top(c) ==
  /\ gen[c] = "top"
  /\ IF es # c \/ shutdown
       THEN Leave(c)
       ELSE /\ gen' = [gen EXCEPT ![c] = "wait"]
            /\ UNCHANGED <<subscribers, es, told>>
  /\ UNCHANGED <<ingest, queue, callbacks, shutdown, wire, due, current>>

\* The task of q.get runs: it takes a payload and is done.
Get(c) ==
  /\ gen[c] = "wait"
  /\ queue[c] > 0
  /\ queue' = [queue EXCEPT ![c] = @ - 1]
  /\ gen' = [gen EXCEPT ![c] = "got"]
  /\ UNCHANGED <<ingest, subscribers, callbacks, shutdown, wire, es, due, history>>

\* The generator wakes up for it, and its payload is sent.
SendPayload(c) ==
  /\ gen[c] = "got"
  /\ ~shutdown
  /\ wire' = [wire EXCEPT ![c] = @ + 1]
  /\ gen' = [gen EXCEPT ![c] = "top"]
  /\ UNCHANGED <<ingest, hub, es, due, history>>

\* Mutant of WakeForShutdown: the wait races the queue and the timer only.
NeverWakeForShutdown(c) == FALSE /\ UNCHANGED liveVars

\* The shutdown task finished, alone or together with the queue task.
WakeForShutdown(c) ==
  /\ gen[c] \in {"wait", "got"}
  /\ shutdown
  /\ Leave(c)
  /\ UNCHANGED <<ingest, queue, callbacks, shutdown, wire, due, current>>

\* Mutant of Heartbeat: the timer wins over a q.get that has its payload already.
HeartbeatLosingPayload(c) ==
  /\ gen[c] \in {"wait", "got"}
  /\ gen' = [gen EXCEPT ![c] = "top"]
  /\ UNCHANGED <<ingest, hub, wire, es, due, history>>

\* 15 seconds and no task is done: ping, and round again.  The queue need not be empty:
\* a payload may have been put, and the getter woken, but its task is cancelled before
\* it runs, and what it has not taken stays in the queue.
Heartbeat(c) ==
  /\ gen[c] = "wait"
  /\ gen' = [gen EXCEPT ![c] = "top"]
  /\ UNCHANGED <<ingest, hub, wire, es, due, history>>

\* The framework cancels a response whose connection has gone: CancelledError is raised
\* where the generator waits, and only the finally block runs.
Cancel(c) ==
  /\ gen[c] \in {"new", "top", "wait", "got"}
  /\ es # c
  /\ Leave(c)
  /\ UNCHANGED <<ingest, queue, callbacks, shutdown, wire, due, current>>

-----------------------------------------------------------------------------
(* The browser.                                                            *)

\* new EventSource, or one of its reconnects; the server takes the request.
Connect(c) ==
  /\ es = 0
  /\ gen[c] = "none"
  /\ ~shutdown
  /\ es' = c
  /\ gen' = [gen EXCEPT ![c] = "new"]
  /\ UNCHANGED <<ingest, hub, wire, due, history>>

\* The connection breaks; what was on its way is lost, the server knows later.
Disconnect ==
  /\ es # 0
  /\ wire' = [wire EXCEPT ![es] = 0]
  /\ es' = 0
  /\ told' = FALSE
  /\ UNCHANGED <<ingest, hub, gen, due, current>>

\* onIngest: bump dashNonce.  React may batch two bumps into one effect.
OnIngest ==
  /\ es # 0
  /\ wire[es] > 0
  /\ wire' = [wire EXCEPT ![es] = @ - 1]
  /\ due' = TRUE
  /\ UNCHANGED <<ingest, hub, gen, es, history>>

\* The effect on dashNonce: GET /api/dashboard reads the tables as they are.
FetchDashboard ==
  /\ due
  /\ due' = FALSE
  /\ told' = FALSE
  /\ current' = TRUE
  /\ UNCHANGED <<ingest, hub, streams>>

-----------------------------------------------------------------------------
Loop(c) == Subscribe(c) \/ Top(c) \/ Get(c) \/ SendPayload(c) \/ WakeForShutdown(c)

LiveNext ==
  \/ Commit \/ Broadcast \/ PutAll \/ SignalShutdown
  \/ \E c \in Conns : Loop(c) \/ Heartbeat(c) \/ Cancel(c) \/ Connect(c)
  \/ Disconnect \/ OnIngest \/ FetchDashboard

LiveSpec == LiveInit /\ [][LiveNext]_liveVars

\* The server's threads and event loop go on, and so does the tab while it is open.
\* Nothing makes ingest commit, a connection break or the server stop; no property
\* below needs a heartbeat, and a timer of 15 seconds that is set anew at each round does
\* not always come before a task that is ready to run.
Fairness ==
  /\ WF_liveVars(Broadcast) /\ WF_liveVars(PutAll)
  /\ \A c \in Conns : WF_liveVars(Loop(c)) /\ SF_liveVars(Get(c)) /\ WF_liveVars(Connect(c))
  /\ WF_liveVars(OnIngest) /\ WF_liveVars(FetchDashboard)

FairSpec == LiveSpec /\ Fairness

-----------------------------------------------------------------------------
(* Correctness.                                                            *)

\* Shapes; and a queue never holds more than its maxsize.
LiveTypeOK ==
  /\ commits \in Nat /\ unannounced \in Nat
  /\ subscribers \subseteq Conns
  /\ queue \in [Conns -> 0 .. QueueSize]
  /\ callbacks \in Seq(SUBSET Conns)
  /\ gen \in [Conns -> {"none", "new", "top", "wait", "got", "closed"}]
  /\ wire \in [Conns -> Nat]
  /\ es \in Conns \cup {0}
  /\ shutdown \in BOOLEAN /\ due \in BOOLEAN
  /\ told \in BOOLEAN /\ current \in BOOLEAN

\* An announcement made while the tab was subscribed, and that it has not answered
\* with a request for the dashboard since, is on its way to it: in a scheduled callback, the
\* queue, the hands of a finished q.get, the stream or a pending effect.  So dropping
\* payloads of a full queue, cancelling q.get at each heartbeat, whether it was woken or
\* not, and batching effects lose no update.
AnnouncedIsOnItsWay ==
  told /\ ~shutdown =>
    \/ \E i \in DOMAIN callbacks : es \in callbacks[i]
    \/ queue[es] > 0 \/ gen[es] = "got"
    \/ wire[es] > 0
    \/ due

\* A tab that stays connected comes to ask for what was announced to it.
AnnouncedIsAsked ==
  told ~> (~told \/ shutdown)

\* events.py:35-37, generators "exit promptly when the server is shutting down":
\* every one that has begun ends, no heartbeat being needed for it.
ShutdownDrains ==
  shutdown ~> \A c \in Conns : gen[c] \in {"none", "closed"}

\* The hub writes to the queues of running generators and of no other, however a
\* generator was left: a dead queue would be filled by every later broadcast.
SubscribersRun == subscribers = {c \in Conns : gen[c] \in {"top", "wait", "got"}}

\* events.py:3-5, each browser "receives an `ingest_done` event whenever a fresh ingest
\* run lands in the DB" and "re-fetches /api/dashboard on receipt": a tab that stays
\* connected has asked for the last commit in the end.
LastCommitAsked == <>[](es # 0 /\ ~shutdown) => <>[]current

=============================================================================
