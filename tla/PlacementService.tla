--------------------------- MODULE PlacementService ---------------------------
(* The WebSocket service of the first-layer placement app: a thread per       *)
(* connection that upgrades it, joins it to the session set, greets it and    *)
(* reads its triggers; one worker that evaluates the queued triggers and      *)
(* answers; and the status loop.  An evaluation always ends in a        *)
(* message, a result or a fault, so it is a step without an outcome here; the *)
(* choice it makes among the detections is in SurfaceSelection.               *)
EXTENDS SurfaceSelection

CONSTANTS Clients,      \* connections that may be made
          MaxClients,   \* max_clients
          QueueSize,    \* trigger_queue_size
          MaxTriggers,  \* bound: triggers the clients send in all
          StatusSettings,  \* status_enabled and status_on_connect, as they may be set
          NONE

ASSUME LimitsAssumption == MaxClients \in Nat \ {0} /\ QueueSize \in Nat \ {0} /\ MaxTriggers \in Nat
ASSUME StatusAssumption == StatusSettings \subseteq [enabled : BOOLEAN, onConnect : BOOLEAN]
ASSUME NoneAssumption == NONE \notin Clients

VARIABLES
    status,    \* the status settings this service was started with
    peer,      \* the robot's end: "up", "left" (closed), "vanished" (power or cable)
    handler,   \* where the connection's thread is
    sessions,  \* WebSocketJsonServer.sessions
    closed,    \* sessions whose closed event is set
    asked,     \* triggers read from each client
    answered,  \* messages sent in answer
    queue,     \* trigger_queue: the session of each request
    worker,    \* the session whose trigger is evaluated
    telling    \* the sessions broadcast_json has still to send to

ends == <<peer, handler, sessions, closed>>
triggers == <<asked, answered, queue, worker>>
serviceVars == <<status, ends, triggers, telling>>

Places == {"outside", "handshake", "admitted", "joined", "reading", "ending", "ended"}

ServiceTypeOK ==
    /\ status \in StatusSettings
    /\ peer \in [Clients -> {"up", "left", "vanished"}]
    /\ handler \in [Clients -> Places]
    /\ sessions \subseteq Clients /\ closed \subseteq Clients
    /\ asked \in [Clients -> 0..MaxTriggers] /\ answered \in [Clients -> 0..MaxTriggers]
    /\ queue \in Seq(Clients) /\ Len(queue) <= QueueSize
    /\ worker \in Clients \cup {NONE}
    /\ telling \subseteq Clients

ServiceInit ==
    /\ status \in StatusSettings
    /\ peer = [c \in Clients |-> "up"] /\ handler = [c \in Clients |-> "outside"]
    /\ sessions = {} /\ closed = {}
    /\ asked = [c \in Clients |-> 0] /\ answered = [c \in Clients |-> 0]
    /\ queue = <<>> /\ worker = NONE
    /\ telling = {}

\* send_frame: what is sent to a peer that is gone may still go into a buffer.
Delivered(c) == c \notin closed /\ peer[c] = "up"
MayFail(c) == c \in closed \/ peer[c] # "up"
Lost(c) == c \notin closed /\ peer[c] # "up"

Goes(c, place) == handler' = [handler EXCEPT ![c] = place]

-----------------------------------------------------------------------------
(* The connection's thread.                                                  *)

Connect(c) ==
    /\ handler[c] = "outside"
    /\ Goes(c, "handshake")
    /\ UNCHANGED <<status, peer, sessions, closed, triggers, telling>>

\* The limit is tested here; the session joins the set in a later step.
Upgrade(c) ==
    /\ handler[c] = "handshake"
    /\ \/ Cardinality(sessions) < MaxClients /\ Goes(c, "admitted")
       \/ Goes(c, "ended")  \* refused, not a valid upgrade, closed, or a timeout
    /\ UNCHANGED <<status, peer, sessions, closed, triggers, telling>>

Join(c) ==
    /\ handler[c] = "admitted"
    /\ sessions' = sessions \cup {c}
    /\ Goes(c, "joined")
    /\ UNCHANGED <<status, peer, closed, triggers, telling>>

Greet(c) ==
    /\ handler[c] = "joined"
    /\ \/ (c \notin closed \/ ~status.onConnect) /\ closed' = closed
       \/ status.onConnect /\ MayFail(c) /\ closed' = closed \cup {c}
    /\ Goes(c, "reading")
    /\ UNCHANGED <<status, peer, sessions, triggers, telling>>

\* Mutant of Refused: the trigger that finds the queue full is only counted.
RefusedSilently(c) == answered' = answered /\ Goes(c, "reading")

\* The queue is full: the handler answers with a fault; when that send raises, it ends.
Refused(c) ==
    \/ Delivered(c) /\ answered' = [answered EXCEPT ![c] = @ + 1] /\ Goes(c, "reading")
    \/ Lost(c) /\ answered' = answered /\ Goes(c, "reading")
    \/ MayFail(c) /\ answered' = answered /\ Goes(c, "ending")

ReadTrigger(c) ==
    /\ handler[c] = "reading" /\ c \notin closed
    /\ FoldFunction(+, 0, asked) < MaxTriggers /\ peer[c] # "vanished"
    /\ asked' = [asked EXCEPT ![c] = @ + 1]
    /\ IF Len(queue) < QueueSize
       THEN queue' = Append(queue, c) /\ UNCHANGED <<answered, handler>>
       ELSE Refused(c) /\ queue' = queue
    /\ UNCHANGED <<status, peer, sessions, closed, worker, telling>>

\* The loop ends: a close frame, the end of the stream, closed by another thread,
\* an exception over a message that is not valid, or the time-out of something
\* that was sent to a robot that vanished.
StopReading(c) ==
    /\ handler[c] = "reading"
    /\ Goes(c, "ending")
    /\ UNCHANGED <<status, peer, sessions, closed, triggers, telling>>

EndSession(c) ==
    /\ handler[c] = "ending"
    /\ sessions' = sessions \ {c}
    /\ closed' = closed \cup {c}
    /\ Goes(c, "ended")
    /\ UNCHANGED <<status, peer, triggers, telling>>

-----------------------------------------------------------------------------
(* The trigger worker and the status loop.                                   *)

Evaluate ==
    /\ worker = NONE /\ queue # <<>>
    /\ worker' = Head(queue) /\ queue' = Tail(queue)
    /\ UNCHANGED <<status, ends, asked, answered, telling>>

\* A send that raises is passed over: the session stays as it is.
Answer ==
    /\ worker # NONE
    /\ IF Delivered(worker)
       THEN answered' = [answered EXCEPT ![worker] = @ + 1]
       ELSE answered' = answered
    /\ worker' = NONE
    /\ UNCHANGED <<status, ends, asked, queue, telling>>

\* There is a status loop only if the settings ask for one.
StatusRound ==
    /\ status.enabled
    /\ telling = {} /\ sessions # {}
    /\ telling' = sessions
    /\ UNCHANGED <<status, ends, triggers>>

\* Mutant of TellFails: the failure is passed over, as the worker does.
TellIgnored(c) == MayFail(c) /\ closed' = closed

TellFails(c) == MayFail(c) /\ closed' = closed \cup {c}

Tell(c) ==
    /\ c \in telling
    /\ telling' = telling \ {c}
    /\ \/ c \notin closed /\ closed' = closed
       \/ TellFails(c)
    /\ UNCHANGED <<status, peer, handler, sessions, triggers>>

-----------------------------------------------------------------------------
(* The robots.                                                               *)

PeerGoes(c) ==
    /\ peer[c] = "up" /\ handler[c] \notin {"outside", "ended"}
    /\ \E p \in {"left", "vanished"} : peer' = [peer EXCEPT ![c] = p]
    /\ UNCHANGED <<status, handler, sessions, closed, triggers, telling>>

Done ==
    /\ worker = NONE /\ queue = <<>> /\ telling = {}
    /\ \A c \in Clients : handler[c] = "ended"
    /\ UNCHANGED serviceVars

Thread(c) == Upgrade(c) \/ Join(c) \/ Greet(c) \/ StopReading(c) \/ EndSession(c)

ServiceNext ==
    \/ \E c \in Clients : Connect(c) \/ ReadTrigger(c) \/ Thread(c)
                            \/ Tell(c) \/ PeerGoes(c)
    \/ Evaluate \/ Answer \/ StatusRound
    \/ Done

ServiceSpec == ServiceInit /\ [][ServiceNext]_serviceVars

\* Each thread goes on; the end of a stream and a closed socket wake the
\* reader; sends to a peer that has vanished fail in the end.
Fairness ==
    /\ \A c \in Clients :
          /\ WF_serviceVars(Upgrade(c)) /\ WF_serviceVars(Join(c)) /\ WF_serviceVars(Greet(c)) /\ WF_serviceVars(EndSession(c))
          /\ WF_serviceVars((c \in closed \/ peer[c] = "left") /\ StopReading(c))
          /\ WF_serviceVars(Tell(c))
          /\ SF_serviceVars(c \in telling /\ peer[c] = "vanished" /\ TellFails(c) /\ Tell(c))
    /\ WF_serviceVars(Evaluate) /\ WF_serviceVars(Answer) /\ WF_serviceVars(StatusRound)

FairServiceSpec == ServiceSpec /\ Fairness

-----------------------------------------------------------------------------
\* Every trigger read from a robot that stays connected is answered, with a
\* result or a fault: the evaluation never ends
\* without a message (service.py:827) and a full queue is reported (service.py:937).
TriggerAnswered ==
    \A c \in Clients : \A n \in 1..MaxTriggers :
        asked[c] = n ~> \/ answered[c] >= n
                        \/ c \in closed \/ peer[c] # "up" \/ handler[c] = "ending"

\* A robot that closed its end gives its place among max_clients back.  So does
\* one that vanished without a word, where the status loop runs: the read timeout
\* only goes on (websocket_server.py:301), and it is that loop's failing send that
\* ends the session.  As shipped the loop is off (line.yaml:79) and nothing need
\* ever free the place of a robot that vanished.
SlotFreed ==
    \A c \in Clients :
        (c \in sessions /\ (peer[c] = "left" \/ (peer[c] = "vanished" /\ status.enabled)))
        ~> c \notin sessions

\* The boxes named to the robot are the top layer the sources describe
\* (trigger_protocol.py:308-315): the nearest boxes, cut at the first gap or at
\* the span, the strongest when there are too many, and a tray only when no box
\* lies in its region; the held box is the only nearest one, or one off the tray
\* of which no nearer one is known.  The choice reads nothing of the service, so
\* it is said of the service before its first client.
SelectionCorrect ==
    (\A c \in Clients : handler[c] = "outside") => \A s \in Selections : IsSelected(s)
=============================================================================
