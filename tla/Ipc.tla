-------------------------------- MODULE Ipc --------------------------------
(***************************************************************************)
(* Subscriptions to Lift's broadcasts over Mach messages.  Four threads    *)
(* take part: the main thread answers requests one at a time (ipc.rs), the *)
(* bridge publishes the reactor's broadcasts (bin/lift.rs), the dispatch   *)
(* worker sends them out (ipc/subscriptions.rs), and every client waits    *)
(* for its own messages (LiftMachClient, or a program that speaks the      *)
(* protocol itself).  The first three share two concurrent maps.  A step   *)
(* on one entry of a map is atomic, a method of several steps is not.      *)
(***************************************************************************)
EXTENDS Naturals, Integers, Sequences, FiniteSets, SequencesExt

CONSTANTS Clients,      \* reply ports, each of a process of its own
          Library,      \* those of lift-cli, which use LiftMachClient
          Topics,       \* the names of broadcasts
          Star,          \* the name "*"
          InboxLimit,   \* the messages that a port holds (MACH_PORT_QLIMIT_LARGE)
          BatchLimit,   \* EVENT_DISPATCH_QUEUE_CAPACITY
          MaxRequests,  \* bound: requests sent in a behaviour
          MaxEvents,    \* bound: broadcasts in a behaviour
          None          \* an entry that is not in its map

Names == Topics \cup {Star}

ASSUME IpcAssumption ==
    /\ Library \subseteq Clients
    /\ Star \notin Topics
    /\ {InboxLimit, BatchLimit} \subseteq Nat \ {0}
    /\ {MaxRequests, MaxEvents} \subseteq Nat
    /\ \A s \in (SUBSET Names) \cup (SUBSET Clients) : s # None

VARIABLES
    phase,      \* of a client: "new", "asking" a question, "waiting" to be subscribed, "listening", "gone"
    inbox,      \* the messages queued on a client's port
    requests,   \* the messages queued on the server's port
    main,       \* what the main thread is doing
    bridge,     \* what the thread that publishes broadcasts is doing
    worker,     \* what the dispatch worker is doing
    batches,    \* the worker's queue
    byClient,   \* subscriptions_by_client
    byEvent,    \* subscriptions_by_event
    held,       \* the send rights that the server retained, less those it released
    asked,      \* requests so far
    published,  \* broadcasts so far
    due,        \* history: broadcasts a client must still get
    mishap      \* history: what happened that may lose a broadcast, and whose sends failed

clients == <<phase, inbox, asked>>
maps    == <<byClient, byEvent, held>>
history == <<due, mishap>>
vars    == <<clients, requests, main, bridge, worker, batches, maps, published, history>>

Idle == [pc |-> "idle"]

Init ==
    /\ phase = [c \in Clients |-> "new"]
    /\ inbox = [c \in Clients |-> <<>>]
    /\ requests = <<>> /\ batches = <<>>
    /\ main = Idle /\ bridge = Idle /\ worker = Idle
    /\ byClient = [c \in Clients |-> None]
    /\ byEvent = [n \in Names |-> None]
    /\ held = [c \in Clients |-> 0]
    /\ asked = 0 /\ published = 0
    /\ due = [c \in Clients |-> 0]
    /\ mishap = {}

Subscribed(c, n) == byClient[c] # None /\ n \in byClient[c]
Reachable(c)     == phase[c] # "gone"

(* A message that goes to a port whose receiver is gone, or that is full,  *)
(* is not sent: mach_msg without a timeout waits for room, with a timeout  *)
(* of zero it fails.                                                       *)
HasRoom(c) == Len(inbox[c]) < InboxLimit
Deliver(c, message) == inbox' = [inbox EXCEPT ![c] = Append(@, message)]

-----------------------------------------------------------------------------
(* The clients.                                                            *)

(* LiftMachClient::subscribe, or the same by hand: the reply port goes     *)
(* with the request and gets both the reply and the broadcasts.  A process *)
(* of its own may ask again and may unsubscribe over the same port.  A     *)
(* question (send_request) has a port of its own, for its answer only.     *)
Ask(c, kind, n) ==
    /\ asked < MaxRequests
    /\ \/ phase[c] = "new" /\ (kind = "subscribe" \/ (kind = "query" /\ n = Star))
       \/ phase[c] = "listening" /\ c \notin Library /\ kind # "query"
    /\ requests' = Append(requests, [from |-> c, kind |-> kind, name |-> n])
    /\ phase' = [phase EXCEPT ![c] = IF kind = "query" THEN "asking" ELSE "waiting"]
    /\ asked' = asked + 1
    /\ due' = [due EXCEPT ![c] = IF kind = "unsubscribe" THEN 0 ELSE @]
    /\ UNCHANGED <<inbox, main, bridge, worker, batches, maps, published, mishap>>

(* The library takes the first message for the reply; when it is a         *)
(* broadcast it does not parse, and the port is given up.  Another program *)
(* may tell them apart.                                                    *)
Read(c) ==
    /\ Reachable(c) /\ inbox[c] # <<>>
    /\ LET message == Head(inbox[c])
           overtaken == phase[c] = "waiting" /\ message = "event" /\ c \in Library
       IN  /\ phase' = [phase EXCEPT ![c] = IF overtaken \/ @ = "asking" THEN "gone"
                                            ELSE IF message = "reply" THEN "listening" ELSE @]
           /\ inbox' = [inbox EXCEPT ![c] = IF overtaken THEN <<>> ELSE Tail(@)]
           /\ due' = [due EXCEPT ![c] = IF overtaken THEN 0
                                        ELSE IF message = "event" /\ @ > 0 THEN @ - 1 ELSE @]
    /\ UNCHANGED <<asked, requests, main, bridge, worker, batches, maps, published, mishap>>

(* A process ends; its port dies with it (Drop for LiftMachSubscription).  *)
Quit(c) ==
    /\ phase[c] = "listening"
    /\ phase' = [phase EXCEPT ![c] = "gone"]
    /\ inbox' = [inbox EXCEPT ![c] = <<>>]
    /\ due' = [due EXCEPT ![c] = 0]
    /\ UNCHANGED <<asked, requests, main, bridge, worker, batches, maps, published, mishap>>

-----------------------------------------------------------------------------
(* The main thread: handle_mach_request_c, handle_request, send_response.  *)
Job(request) == [from |-> request.from, kind |-> request.kind, name |-> request.name, pc |-> request.kind,
                 dropped |-> FALSE, fits |-> TRUE]

Receive ==
    /\ main = Idle /\ requests # <<>>
    /\ main' = Job(Head(requests))
    /\ requests' = Tail(requests)
    /\ UNCHANGED <<clients, bridge, worker, batches, maps, published, history>>

Removing == worker.pc \in {"unlist", "clear"}
Changing == main.pc \notin {"idle", "subscribe", "unsubscribe", "query", "reply"}
Noting(overlap) == mishap' = IF overlap THEN mishap \cup {"overlap"} ELSE mishap

AtMain(pc) == main.pc = pc /\ UNCHANGED <<requests, clients, bridge, worker, batches, published, due>>
GoMain(pc) == main' = [main EXCEPT !.pc = pc]

(* subscribe_client: the entry of the client, ...                          *)
Enter ==
    /\ AtMain("subscribe")
    /\ byClient' = [byClient EXCEPT ![main.from] = IF @ = None THEN {main.name} ELSE @ \cup {main.name}]
    /\ GoMain(IF byClient[main.from] = None THEN "retain"
              ELSE IF main.name \in byClient[main.from] THEN "reply" ELSE "index")
    /\ Noting(Removing)
    /\ UNCHANGED <<byEvent, held>>

(* ... its send right, ...                                                 *)
Retain ==
    /\ AtMain("retain")
    /\ held' = [held EXCEPT ![main.from] = @ + 1]
    /\ GoMain("index")
    /\ UNCHANGED <<byClient, byEvent, mishap>>

(* ... and the entry of the event.                                         *)
Index ==
    /\ AtMain("index")
    /\ byEvent' = [byEvent EXCEPT ![main.name] = (IF @ = None THEN {} ELSE @) \cup {main.from}]
    /\ GoMain("reply")
    /\ UNCHANGED <<byClient, held, mishap>>

(* unsubscribe_client: the client's entry loses the name, ...              *)
Strike ==
    /\ AtMain("unsubscribe")
    /\ IF byClient[main.from] = None THEN GoMain("reply") /\ UNCHANGED byClient
       ELSE LET left == byClient[main.from] \ {main.name}
                removed == main.name \in byClient[main.from]
            IN  /\ byClient' = [byClient EXCEPT ![main.from] = left]
                /\ GoMain(IF left = {} THEN "drop" ELSE IF removed THEN "unindex" ELSE "reply")
    /\ Noting(Removing)
    /\ UNCHANGED <<byEvent, held>>

(* ... and is removed when nothing is left.  What the removal returned is  *)
(* not looked at.                                                          *)
DropClient ==
    /\ AtMain("drop")
    /\ byClient' = [byClient EXCEPT ![main.from] = None]
    /\ main' = [main EXCEPT !.pc = "unindex", !.dropped = TRUE]
    /\ UNCHANGED <<byEvent, held, mishap>>

(* The event's entry loses the client; an entry that is empty is removed   *)
(* after its lock was let go, with whatever it holds by then.              *)
Without(clientsOf, c) == IF clientsOf = None THEN None ELSE clientsOf \ {c}

Unindex ==
    /\ AtMain("unindex")
    /\ byEvent' = [byEvent EXCEPT ![main.name] = Without(@, main.from)]
    /\ GoMain(IF Without(byEvent[main.name], main.from) = {} THEN "sweep" ELSE "release")
    /\ UNCHANGED <<byClient, held, mishap>>

Sweep ==
    /\ AtMain("sweep")
    /\ byEvent' = [byEvent EXCEPT ![main.name] = None]
    /\ mishap' = IF byEvent[main.name] \in {None, {}} THEN mishap ELSE mishap \cup {"swept"}
    /\ GoMain("release")
    /\ UNCHANGED <<byClient, held>>

Release ==
    /\ AtMain("release")
    /\ held' = [held EXCEPT ![main.from] = IF main.dropped THEN @ - 1 ELSE @]
    /\ GoMain("reply")
    /\ UNCHANGED <<byClient, byEvent, mishap>>

(* A query reads the published snapshot; its answer may be of any length.  *)
Answer(size) ==
    /\ AtMain("query")
    /\ main' = [main EXCEPT !.pc = "reply", !.fits = size = "fits"]
    /\ UNCHANGED <<maps, mishap>>

(* send_mach_reply waits for room, and fails when the receiver is gone or  *)
(* the answer is longer than a message.                                    *)
Reply ==
    /\ main.pc = "reply"
    /\ IF Reachable(main.from) /\ main.fits THEN HasRoom(main.from) /\ Deliver(main.from, "reply")
       ELSE UNCHANGED inbox
    /\ main' = Idle
    /\ UNCHANGED <<phase, asked, requests, bridge, worker, batches, maps, published, history>>

-----------------------------------------------------------------------------
(* The bridge: publish and forward_event_to_subscribers, which looks the   *)
(* event's name up and then "*".                                           *)
ListedFor(n) == IF byEvent[n] = None THEN {} ELSE byEvent[n]

Publish(n) ==
    /\ bridge = Idle /\ published < MaxEvents
    /\ bridge' = [pc |-> "any", name |-> n, targets |-> ListedFor(n)]
    /\ published' = published + 1
    /\ due' = [c \in Clients |-> IF phase[c] = "listening" /\ byClient[c] # None /\ {n, Star} \cap byClient[c] # {}
                                 THEN due[c] + 1 ELSE due[c]]
    /\ UNCHANGED <<clients, requests, main, worker, batches, maps, mishap>>

(* A batch that finds the queue full is dropped.  A broadcast may be       *)
(* larger than a message.                                                  *)
(* Mutant of Targets: "*" is not looked up.                                *)
FaultyTargets == bridge.targets

Targets == bridge.targets \cup ListedFor(Star)

Forward(size) ==
    /\ bridge # Idle
    /\ bridge' = Idle
    /\ IF Targets = {} THEN UNCHANGED <<batches, mishap>>
       ELSE IF Len(batches) < BatchLimit
       THEN batches' = Append(batches, [to |-> Targets, size |-> size]) /\ UNCHANGED mishap
       ELSE mishap' = mishap \cup {"full"} /\ UNCHANGED batches
    /\ UNCHANGED <<clients, requests, main, worker, maps, published, due>>

-----------------------------------------------------------------------------
(* The worker: run_event_dispatch_worker.                                  *)
AtWorker(pc) == worker.pc = pc /\ UNCHANGED <<phase, asked, requests, main, bridge, published, due>>

Sending(left, size) == [pc |-> "send", left |-> left, size |-> size, to |-> None, names |-> {}, name |-> None]

Take ==
    /\ AtWorker("idle") /\ batches # <<>>
    /\ worker' = Sending(Head(batches).to, Head(batches).size)
    /\ batches' = Tail(batches)
    /\ UNCHANGED <<inbox, maps, mishap>>

NextTarget(c) == IF worker.left = {c} THEN Idle ELSE Sending(worker.left \ {c}, worker.size)

(* mach_try_send_message fails at once when the port is full or dead, and  *)
(* when the message is too long; each failure ends the subscription.       *)
Sends(c) == Reachable(c) /\ HasRoom(c) /\ worker.size = "fits"

Send(c) ==
    /\ AtWorker("send") /\ c \in worker.left
    /\ IF Sends(c) THEN Deliver(c, "event") /\ worker' = NextTarget(c) /\ UNCHANGED mishap
       ELSE /\ worker' = [worker EXCEPT !.pc = "forget", !.to = c]
            /\ mishap' = mishap \cup {c}
            /\ UNCHANGED inbox
    /\ UNCHANGED <<batches, maps>>

(* remove_client_from_maps, over the names that the entry had.             *)
Forget ==
    /\ AtWorker("forget")
    /\ byClient' = [byClient EXCEPT ![worker.to] = None]
    /\ worker' = IF byClient[worker.to] = None THEN NextTarget(worker.to)
                 ELSE [worker EXCEPT !.pc = "unlist", !.names = byClient[worker.to]]
    /\ Noting(Changing)
    /\ UNCHANGED <<inbox, batches, byEvent, held>>

Unlist(n) ==
    /\ AtWorker("unlist") /\ n \in worker.names
    /\ byEvent' = [byEvent EXCEPT ![n] = Without(@, worker.to)]
    /\ worker' = IF Without(byEvent[n], worker.to) = {}
                 THEN [worker EXCEPT !.pc = "clear", !.name = n]
                 ELSE [worker EXCEPT !.names = @ \ {n}]
    /\ UNCHANGED <<inbox, batches, byClient, held, mishap>>

Clear ==
    /\ AtWorker("clear")
    /\ byEvent' = [byEvent EXCEPT ![worker.name] = None]
    /\ mishap' = IF byEvent[worker.name] \in {None, {}} THEN mishap ELSE mishap \cup {"swept"}
    /\ worker' = [worker EXCEPT !.pc = "unlist", !.names = @ \ {worker.name}]
    /\ UNCHANGED <<inbox, batches, byClient, held>>

Disown ==
    /\ AtWorker("unlist") /\ worker.names = {}
    /\ held' = [held EXCEPT ![worker.to] = @ - 1]
    /\ worker' = NextTarget(worker.to)
    /\ UNCHANGED <<inbox, batches, byClient, byEvent, mishap>>

Main == Receive \/ Enter \/ Retain \/ Index \/ Strike \/ DropClient \/ Unindex \/ Sweep \/ Release \/ Reply
Worker ==
    \/ Take \/ Forget \/ Clear \/ Disown
    \/ \E c \in Clients : Send(c)
    \/ \E n \in Names : Unlist(n)

Next ==
    \/ \E c \in Clients : Read(c) \/ Quit(c)
    \/ \E c \in Clients, n \in Names, kind \in {"subscribe", "unsubscribe", "query"} : Ask(c, kind, n)
    \/ \E n \in Topics : Publish(n)
    \/ \E size \in {"fits", "large"} : Forward(size) \/ Answer(size)
    \/ Main \/ Worker

Spec == Init /\ [][Next]_vars
-----------------------------------------------------------------------------
Calm == main = Idle /\ bridge = Idle /\ worker = Idle /\ requests = <<>> /\ batches = <<>>

(* Unless the worker forgot a client while the main thread changed the     *)
(* maps, the two maps tell the same once nothing is under way, keep no     *)
(* empty entry, and one send right is held for every client they name.     *)
MapsAgree ==
    Calm /\ "overlap" \notin mishap =>
        /\ \A c \in Clients :
              /\ \A n \in Names : Subscribed(c, n) <=> c \in ListedFor(n)
              /\ byClient[c] # {}
              /\ held[c] = IF byClient[c] = None THEN 0 ELSE 1
        /\ \A n \in Names : byEvent[n] # {}

Queued(c, message) == {i \in DOMAIN inbox[c] : inbox[c][i] = message}

(* Whatever the worker does to the maps and the clients to their ports,    *)
(* whoever waits to be subscribed gets its reply; and a broadcast reaches  *)
(* everyone who was told of a subscription to its name or to all names,    *)
(* and to whom no send failed, unless the queue was full or the threads    *)
(* met in the maps.                                                        *)
MessagesArrive ==
    Calm => \A c \in Clients :
        /\ phase[c] = "waiting" => Queued(c, "reply") # {}
        /\ mishap \cap {"full", "overlap", "swept", c} = {} => due[c] <= Cardinality(Queued(c, "event"))

(* What does not hold: every question is answered, ...                     *)
QuestionsAreAnswered ==
    Calm => \A c \in Clients : phase[c] = "asking" => inbox[c] # <<>>

(* ... and a client that was told of its subscription and was not dropped  *)
(* for a failed send is listed for every later broadcast.                  *)
NobodyIsLost ==
    Calm => \A c \in Clients, n \in Names :
        phase[c] = "listening" /\ Subscribed(c, n) => c \in ListedFor(n)
=============================================================================
