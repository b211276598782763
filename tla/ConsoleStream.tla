---------------------------- MODULE ConsoleStream ----------------------------
(* The event stream to operator consoles: the gateway numbers every event,   *)
(* keeps the last ones for replay and sends each to the connected sockets    *)
(* under its lock; a socket's handler answers a subscription with what was   *)
(* missed, outside that lock, or asks for a snapshot. Clients connect,       *)
(* subscribe once per connection from a sequence they have confirmed (the    *)
(* console: always 0) and disconnect. The server may restart, and numbers    *)
(* from the beginning then.                                                  *)
EXTENDS Naturals, Sequences, SequencesExt

CONSTANTS Clients, None, MaxReplayBuffer, MaxSequence, MaxRestarts

StreamAssumption == MaxReplayBuffer \in Nat \ {0}

VARIABLES
  sequence,  \* the number of the last event
  buffer,    \* the events kept for replay
  active,    \* the connections the gateway sends to
  sending,   \* the broadcast that holds the lock
  replay,    \* what each handler has still to replay
  wire,      \* what was sent to each client and has not arrived
  client,
  restarts

vars == <<sequence, buffer, active, sending, replay, wire, client, restarts>>

Numbers == 1 .. MaxSequence

\* A client: what it received, and the number it subscribed from. An old number
\* was confirmed before the server restarted.
Client == [phase : {"closed", "open", "subscribed", "stale"}, from : 0 .. MaxSequence,
           got : SUBSET Numbers, old : 0 .. MaxSequence]
New == [phase |-> "closed", from |-> 0, got |-> {}, old |-> 0]
Open(c) == client[c].phase # "closed"

\* A broadcast under way: whom it is still sent to, and whom it could not be sent to.
Broadcast == [event : Numbers, to : SUBSET Clients, failed : SUBSET Clients]

TypeOK ==
  /\ sequence \in 0 .. MaxSequence /\ buffer \in Seq(Numbers) /\ Len(buffer) <= MaxReplayBuffer
  /\ active \subseteq Clients
  /\ sending \in {None} \cup Broadcast
  /\ replay \in [Clients -> Seq(Numbers)] /\ wire \in [Clients -> Seq(Numbers)]
  /\ client \in [Clients -> Client] /\ restarts \in 0 .. MaxRestarts

Init ==
  /\ sequence = 0 /\ buffer = <<>> /\ active = {} /\ sending = None
  /\ replay = [c \in Clients |-> <<>>] /\ wire = [c \in Clients |-> <<>>]
  /\ client = [c \in Clients |-> New] /\ restarts = 0

-----------------------------------------------------------------------------
(* The gateway.                                                              *)

Connect(c) ==
  /\ ~Open(c) /\ c \notin active /\ sending = None
  /\ active' = active \cup {c}
  /\ client' = [client EXCEPT ![c].phase = "open"]
  /\ UNCHANGED <<sequence, buffer, sending, replay, wire, restarts>>

\* The handler notices that its client has gone.
Disconnect(c) ==
  /\ ~Open(c) /\ c \in active /\ sending = None
  /\ active' = active \ {c}
  /\ UNCHANGED <<sequence, buffer, sending, replay, wire, client, restarts>>

Kept(b) == IF Len(b) > MaxReplayBuffer THEN Tail(b) ELSE b

BeginBroadcast ==
  /\ sending = None /\ sequence < MaxSequence
  /\ sequence' = sequence + 1 /\ buffer' = Kept(Append(buffer, sequence'))
  /\ sending' = [event |-> sequence', to |-> active, failed |-> {}]
  /\ UNCHANGED <<active, replay, wire, client, restarts>>

SendTo(c) ==
  /\ sending # None /\ c \in sending.to
  /\ IF Open(c)
     THEN /\ wire' = [wire EXCEPT ![c] = Append(@, sending.event)]
          /\ sending' = [sending EXCEPT !.to = @ \ {c}]
     ELSE /\ sending' = [sending EXCEPT !.to = @ \ {c}, !.failed = @ \cup {c}]
          /\ UNCHANGED wire
  /\ UNCHANGED <<sequence, buffer, active, replay, client, restarts>>

EndBroadcast ==
  /\ sending # None /\ sending.to = {}
  /\ active' = active \ sending.failed /\ sending' = None
  /\ UNCHANGED <<sequence, buffer, replay, wire, client, restarts>>

\* Mutant: one event may be missing before the oldest one kept.
OneMissing(last) == last + 2 < Head(buffer)
Missing(last) == last + 1 < Head(buffer)

\* get_replay_events: the events after the last one confirmed, or that a snapshot is needed.
SnapshotRequired(last) == last # sequence /\ (buffer # <<>> => Missing(last))
FirstAfter(last) == CHOOSE k \in 1 .. Len(buffer) + 1 : \A n \in DOMAIN buffer : n >= k <=> buffer[n] > last
After(last) == IF last = sequence THEN <<>> ELSE SubSeq(buffer, FirstAfter(last), Len(buffer))

-----------------------------------------------------------------------------
(* A socket and its client.                                                  *)

\* What a client has confirmed: it has everything up to there.
Confirmed(c) == CHOOSE s \in 0 .. MaxSequence :
  1 .. s \subseteq client[c].got /\ s + 1 \notin client[c].got

\* A client that must take a snapshot takes one with all that happened before.
Subscribe(c, last) ==
  /\ client[c].phase = "open" /\ c \in active
  /\ \/ /\ SnapshotRequired(last)
        /\ client' = [client EXCEPT ![c] =
                        [phase |-> "subscribed", from |-> sequence, got |-> 1 .. sequence, old |-> 0]]
        /\ UNCHANGED replay
     \/ /\ ~SnapshotRequired(last)
        /\ client' = [client EXCEPT ![c].from = last,
                        ![c].phase =
                          IF last # 0 /\ last = client[c].old THEN "stale" ELSE "subscribed"]
        /\ replay' = [replay EXCEPT ![c] = After(last)]
  /\ UNCHANGED <<sequence, buffer, active, sending, wire, restarts>>

ReplayNext(c) ==
  /\ replay[c] # <<>>
  /\ replay' = [replay EXCEPT ![c] = Tail(@)]
  /\ wire' = [wire EXCEPT ![c] = IF Open(c) THEN Append(@, Head(replay[c])) ELSE @]
  /\ UNCHANGED <<sequence, buffer, active, sending, client, restarts>>

Arrives(c) ==
  /\ wire[c] # <<>>
  /\ client' = [client EXCEPT ![c].got = @ \cup {Head(wire[c])}]
  /\ wire' = [wire EXCEPT ![c] = Tail(@)]
  /\ UNCHANGED <<sequence, buffer, active, sending, replay, restarts>>

ClientCloses(c) ==
  /\ Open(c)
  /\ client' = [client EXCEPT ![c].phase = "closed", ![c].from = 0]
  /\ wire' = [wire EXCEPT ![c] = <<>>] /\ replay' = [replay EXCEPT ![c] = <<>>]
  /\ UNCHANGED <<sequence, buffer, active, sending, restarts>>

ServerRestarts ==
  /\ restarts < MaxRestarts /\ restarts' = restarts + 1
  /\ sequence' = 0 /\ buffer' = <<>> /\ active' = {} /\ sending' = None
  /\ replay' = [c \in Clients |-> <<>>] /\ wire' = [c \in Clients |-> <<>>]
  /\ client' = [c \in Clients |-> [New EXCEPT !.old = Confirmed(c)]]

Next ==
  \/ \E c \in Clients : Connect(c) \/ Disconnect(c) \/ SendTo(c)
  \/ BeginBroadcast \/ EndBroadcast
  \/ \E c \in Clients : \E last \in {0, client[c].old, Confirmed(c)} : Subscribe(c, last)
  \/ \E c \in Clients : ReplayNext(c) \/ Arrives(c) \/ ClientCloses(c)
  \/ ServerRestarts

Spec == Init /\ [][Next]_vars

-----------------------------------------------------------------------------
\* A connected client that subscribed misses no event after the one it subscribed
\* from: it has it, or the event is on its way, although broadcasts go on while
\* missed events are replayed (websocket.py, app.py). A number confirmed before the
\* server restarted is not covered: the numbers start again and it is not refused.
OnTheWay(c) == ToSet(wire[c]) \cup ToSet(replay[c])
                 \cup (IF sending # None /\ c \in sending.to THEN {sending.event} ELSE {})

NothingMissed ==
  \A c \in active : client[c].phase = "subscribed" =>
    (client[c].from + 1) .. sequence \subseteq client[c].got \cup OnTheWay(c)

=============================================================================
