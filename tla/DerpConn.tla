------------------------------ MODULE DerpConn ------------------------------
(***************************************************************************)
(* The relay (DERP) connections of magicsock (crates/tsnode/src/           *)
(* magicsock.rs): one thread per region in use, started on demand, fed     *)
(* through a bounded queue, dropped when idle or when the node key is      *)
(* rotated, and brought back by the tick for the home region.              *)
(*                                                                         *)
(* A thread whose handle left the map finds its queue disconnected once it *)
(* is empty.  The state mutex is held by the thread that handles a         *)
(* handshake packet while it reads the node key; the node key's lock is    *)
(* held for reading by a thread that connects and, because the guard is a  *)
(* temporary of the match, while it waits to try again.  A reader queues   *)
(* behind a waiting writer, as in the implementations of RwLock in std.    *)
(***************************************************************************)
EXTENDS Naturals, Sequences

CONSTANTS
  Regions,        \* DERP regions
  NoRegion,       \* the region number 0
  Threads,        \* threads that may exist at a time
  NoThread,
  QueueLimit,     \* DERP_QUEUE_LIMIT
  MaxRotations    \* bound: rotations of the node key

ASSUME DerpAssumption ==
  /\ NoRegion \notin Regions /\ NoThread \notin Threads
  /\ QueueLimit \in Nat \ {0} /\ MaxRotations \in Nat

Commands == {"send", "pref", "close"}

VARIABLES
  node_key,    \* generation of the node key
  home_derp,
  derps,       \* the thread whose handle is in the map
  \* derp_loop.
  pc, region, queue, preferred,
  key,         \* the node key of the connection
  \* Threads on the locks.
  rotate,      \* the control thread in set_node_key
  rx           \* the thread in handle_packet

loop == <<pc, region, queue, preferred, key>>
vars == <<node_key, home_derp, derps, loop, rotate, rx>>

MapType ==
  /\ home_derp \in Regions \cup {NoRegion}
  /\ derps \in [Regions -> Threads \cup {NoThread}]
  /\ pc \in [Threads -> {"none", "top", "connect", "backoff", "up", "exit"}]
  /\ region \in [Threads -> Regions \cup {NoRegion}]

QueueType ==
  /\ queue \in [Threads -> Seq(Commands)]
  /\ \A t \in Threads : Len(queue[t]) <= QueueLimit

KeyType ==
  /\ node_key \in 0..MaxRotations
  /\ key \in [Threads -> 0..MaxRotations]
  /\ rotate \in {"idle", "write", "rebuild", "take"}

FlagType ==
  /\ preferred \in [Threads -> BOOLEAN]
  /\ rx \in {"idle", "locked"}

TypeOK == MapType /\ QueueType /\ KeyType /\ FlagType

\* MagicSock::start.
Init ==
  /\ node_key = 0 /\ home_derp = NoRegion
  /\ derps = [r \in Regions |-> NoThread]
  /\ pc = [t \in Threads |-> "none"]
  /\ region = [t \in Threads |-> NoRegion]
  /\ queue = [t \in Threads |-> << >>]
  /\ preferred = [t \in Threads |-> FALSE]
  /\ key = [t \in Threads |-> 0]
  /\ rotate = "idle" /\ rx = "idle"

Registered(t) == \E r \in Regions : derps[r] = t

\* try_send: a full queue drops the command.
TrySend(q, cmd) == IF Len(q) < QueueLimit THEN Append(q, cmd) ELSE q

StateFree == rx = "idle"

-----------------------------------------------------------------------------
(***************************************************************************)
(* Callers: send_ip and the tick, control.                                 *)
(***************************************************************************)

\* The thread that serves region r once a caller is done with the map: the
\* one there, a new one (spawn_derp) or, when that fails, none.
Serves(t, r) ==
  IF derps[r] # NoThread
  THEN t = derps[r] /\ UNCHANGED <<derps, pc, region>>
  ELSE \/ /\ t \in Threads /\ pc[t] = "none"
          /\ derps' = [derps EXCEPT ![r] = t]
          /\ pc' = [pc EXCEPT ![t] = "top"]
          /\ region' = [region EXCEPT ![t] = r]
       \/ t = NoThread /\ UNCHANGED <<derps, pc, region>>

\* Give thread t the command, if there is one.
Give(t, cmd) ==
  queue' = IF t = NoThread THEN queue
           ELSE [queue EXCEPT ![t] = TrySend(@, cmd)]

\* derp_send, under the state mutex.
DerpSend(t, r) ==
  /\ StateFree
  /\ Serves(t, r)
  /\ Give(t, "send")
  /\ UNCHANGED <<node_key, home_derp, preferred, key, rotate, rx>>

\* connect_home_derp.
ConnectHome(t, r) ==
  /\ StateFree
  /\ home_derp' = r
  /\ Serves(t, r)
  /\ Give(t, "pref")
  /\ UNCHANGED <<node_key, preferred, key, rotate, rx>>

\* handle_map_response and poll: the home region is chosen once, and
\* connected again when the map of regions arrives.
ControlHome(t, r) ==
  /\ home_derp \in {NoRegion, r}
  /\ rotate = "idle"
  /\ ConnectHome(t, r)

\* Mutant: the home connection is not brought back.
TickHomeNever(t) == FALSE /\ t = NoThread /\ UNCHANGED vars

\* tick_loop: the home connection is missing.
TickHome(t) ==
  /\ home_derp # NoRegion
  /\ derps[home_derp] = NoThread
  /\ ConnectHome(t, home_derp)

\* The queues once the handles of the threads ts were dropped with a Close.
Closed(ts) ==
  [t \in Threads |-> IF t \in ts THEN TrySend(queue[t], "close") ELSE queue[t]]

\* Mutant: the Close is queued and the handle stays.
CloseIdleKeeps(r) ==
  /\ r # home_derp /\ derps[r] # NoThread
  /\ queue' = Closed({derps[r]})
  /\ UNCHANGED <<node_key, home_derp, derps, pc, region, preferred, key, rotate, rx>>

\* tick_loop: a connection other than the home one has been idle.
CloseIdle(r) ==
  /\ r # home_derp /\ derps[r] # NoThread
  /\ derps' = [derps EXCEPT ![r] = NoThread]
  /\ queue' = Closed({derps[r]})
  /\ UNCHANGED <<node_key, home_derp, pc, region, preferred, key, rotate, rx>>

-----------------------------------------------------------------------------
(***************************************************************************)
(* set_node_key: the key, the tunnels, the connections.                    *)
(***************************************************************************)

Reading(t) == pc[t] \in {"connect", "backoff"}

RotateBegin ==
  /\ rotate = "idle" /\ node_key < MaxRotations
  /\ rotate' = "write"
  /\ UNCHANGED <<node_key, home_derp, derps, loop, rx>>

\* The write lock, once no thread reads.
RotateWrite ==
  /\ rotate = "write" /\ \A t \in Threads : ~Reading(t)
  /\ node_key' = node_key + 1
  /\ rotate' = "rebuild"
  /\ UNCHANGED <<home_derp, derps, loop, rx>>

\* Every tunnel is rebuilt under the state mutex.
RotateRebuild ==
  /\ rotate = "rebuild" /\ StateFree
  /\ rotate' = "take"
  /\ UNCHANGED <<node_key, home_derp, derps, loop, rx>>

\* Mutant: the connections stay.
RotateTakeNone ==
  /\ rotate = "take"
  /\ rotate' = "idle"
  /\ UNCHANGED <<node_key, home_derp, derps, loop, rx>>

\* The map is taken and every thread is sent a Close.
RotateTake ==
  /\ rotate = "take"
  /\ derps' = [r \in Regions |-> NoThread]
  /\ queue' = Closed({derps[r] : r \in Regions})
  /\ rotate' = "idle"
  /\ UNCHANGED <<node_key, home_derp, pc, region, preferred, key, rx>>

-----------------------------------------------------------------------------
(***************************************************************************)
(* handle_packet of a handshake initiation: the state mutex, then the node *)
(* key.                                                                    *)
(***************************************************************************)

HandlePacket ==
  /\ rx = "idle"
  /\ rx' = "locked"
  /\ UNCHANGED <<node_key, home_derp, derps, loop, rotate>>

ReadKey ==
  /\ rx = "locked" /\ rotate # "write"
  /\ rx' = "idle"
  /\ UNCHANGED <<node_key, home_derp, derps, loop, rotate>>

-----------------------------------------------------------------------------
(***************************************************************************)
(* derp_loop.                                                              *)
(***************************************************************************)

Goto(t, l) == pc' = [pc EXCEPT ![t] = l]

Pop(t) == queue' = [queue EXCEPT ![t] = Tail(@)]

Outside == <<node_key, home_derp, rotate, rx>>

\* Take the read lock and start to connect.
Connect(t) ==
  /\ pc[t] = "top" /\ rotate # "write"
  /\ Goto(t, "connect")
  /\ key' = [key EXCEPT ![t] = node_key]
  /\ UNCHANGED <<Outside, derps, region, queue, preferred>>

\* Whether the relay hears of the preference is left open: the errors of
\* note_preferred are discarded.
Connected(t) ==
  /\ pc[t] = "connect"
  /\ Goto(t, "up")
  /\ UNCHANGED <<Outside, derps, region, queue, preferred, key>>

ConnectFails(t) ==
  /\ pc[t] = "connect"
  /\ Goto(t, "backoff")
  /\ UNCHANGED <<Outside, derps, region, queue, preferred, key>>

\* One command while the thread waits to connect again: packets are dropped.
BackoffCommand(t) ==
  /\ pc[t] = "backoff" /\ queue[t] # << >>
  /\ Pop(t)
  /\ IF Head(queue[t]) = "close" THEN Goto(t, "exit") ELSE UNCHANGED pc
  /\ preferred' = [preferred EXCEPT ![t] = @ \/ Head(queue[t]) = "pref"]
  /\ UNCHANGED <<Outside, derps, region, key>>

\* Mutant: the wait ends only when there is nothing left to drain.
BackoffOverDrained(t) ==
  /\ pc[t] = "backoff" /\ queue[t] = << >>
  /\ Goto(t, "top")
  /\ UNCHANGED <<Outside, derps, region, queue, preferred, key>>

BackoffOver(t) ==
  /\ pc[t] = "backoff"
  /\ Goto(t, "top")
  /\ UNCHANGED <<Outside, derps, region, queue, preferred, key>>

\* Mutant: a connected thread takes a dropped handle for an empty queue.
DisconnectedWhileWaiting(t) ==
  /\ pc[t] = "backoff" /\ queue[t] = << >> /\ ~Registered(t)
  /\ Goto(t, "exit")
  /\ UNCHANGED <<Outside, derps, region, queue, preferred, key>>

\* The queue is empty and its handle was dropped.
Disconnected(t) ==
  /\ pc[t] \in {"backoff", "up"} /\ queue[t] = << >> /\ ~Registered(t)
  /\ Goto(t, "exit")
  /\ UNCHANGED <<Outside, derps, region, queue, preferred, key>>

\* One command while connected; a packet may fail to be sent.
Command(t) ==
  /\ pc[t] = "up" /\ queue[t] # << >>
  /\ Pop(t)
  /\ LET cmd == Head(queue[t])
     IN  /\ \/ cmd = "close" /\ Goto(t, "exit")
            \/ cmd = "send" /\ Goto(t, "top")
            \/ cmd # "close" /\ UNCHANGED pc
         /\ preferred' = [preferred EXCEPT ![t] = @ \/ cmd = "pref"]
  /\ UNCHANGED <<Outside, derps, region, key>>

\* A receive error, a restart of the relay, a ping that fails or times out.
Broken(t) ==
  /\ pc[t] = "up"
  /\ Goto(t, "top")
  /\ UNCHANGED <<Outside, derps, region, queue, preferred, key>>

\* The end of derp_loop: the entry of this thread, and of no successor, goes.
Exit(t) ==
  /\ pc[t] = "exit"
  /\ Goto(t, "none")
  /\ derps' = [r \in Regions |-> IF derps[r] = t THEN NoThread ELSE derps[r]]
  /\ region' = [region EXCEPT ![t] = NoRegion]
  /\ queue' = [queue EXCEPT ![t] = << >>]
  /\ preferred' = [preferred EXCEPT ![t] = FALSE]
  /\ key' = [key EXCEPT ![t] = 0]
  /\ UNCHANGED Outside

-----------------------------------------------------------------------------
Callers ==
  \/ \E r \in Regions, t \in Threads \cup {NoThread} :
       DerpSend(t, r) \/ ControlHome(t, r)
  \/ \E r \in Regions : CloseIdle(r)
  \/ RotateBegin
  \/ HandlePacket

Tick == \E t \in Threads \cup {NoThread} : TickHome(t)

Rotate == RotateWrite \/ RotateRebuild \/ RotateTake

\* The thread looks into its queue.
Serve(t) == BackoffCommand(t) \/ Command(t) \/ Disconnected(t)

Loop(t) ==
  \/ Connect(t) \/ Connected(t) \/ ConnectFails(t)
  \/ Serve(t) \/ BackoffOver(t) \/ Broken(t)
  \/ Exit(t)

Next == Callers \/ Tick \/ Rotate \/ ReadKey \/ \E t \in Threads : Loop(t)

Spec == Init /\ [][Next]_vars

(***************************************************************************)
(* Fairness: threads keep running and get the locks they wait for again    *)
(* and again; a connect ends; the tick's spawn and the connect do not fail *)
(* for ever, the queue of a connected thread is served and a connection    *)
(* does not only break.                                                    *)
(***************************************************************************)
Fairness ==
  /\ SF_vars(Rotate) /\ WF_vars(ReadKey)
  /\ SF_vars(\E t \in Threads : TickHome(t))
  /\ \A t \in Threads : /\ WF_vars(Loop(t)) /\ WF_vars(BackoffOver(t))
                       /\ SF_vars(Connected(t)) /\ SF_vars(Serve(t))

FairSpec == Spec /\ Fairness

-----------------------------------------------------------------------------
(***************************************************************************)
(* Properties.                                                             *)
(***************************************************************************)

(***************************************************************************)
(* A handle in the map has a thread that serves its region: packets and    *)
(* the preference are never queued for a thread that is leaving, although  *)
(* Close travels through the same queue and may be lost.                   *)
(***************************************************************************)
RegisteredServes ==
  /\ \A r \in Regions : derps[r] # NoThread =>
       /\ region[derps[r]] = r
       /\ pc[derps[r]] \notin {"none", "exit"}
  /\ \A t \in Threads : Registered(t) =>
       \A i \in 1..Len(queue[t]) : queue[t][i] # "close"

(***************************************************************************)
(* "the DERP connections, which are authenticated with it, are reopened":  *)
(* outside of a rotation no connection in the map uses a former key,       *)
(* whoever spawned or reconnected a thread while the key was replaced.     *)
(***************************************************************************)
RotatedKeyUsed ==
  rotate \in {"idle", "write"} =>
    \A t \in Threads :
      Registered(t) /\ pc[t] \in {"connect", "backoff", "up"} => key[t] = node_key

\* A thread that does not exist has no commands: the queue is new.
NewQueueEmpty == \A t \in Threads : pc[t] = "none" => queue[t] = << >>

RotationBound == rotate = "write" => node_key < MaxRotations

(***************************************************************************)
(* The inductive invariant of the safety properties.                       *)
(***************************************************************************)
DerpInv ==
  /\ TypeOK
  /\ RegisteredServes /\ RotatedKeyUsed
  /\ NewQueueEmpty /\ RotationBound

(***************************************************************************)
(* A thread whose handle was dropped ends, also when its Close was lost on *)
(* a full queue: no connection with a former key stays open.               *)
(***************************************************************************)
DroppedThreadEnds ==
  \A t \in Threads : (pc[t] # "none" /\ ~Registered(t)) ~> pc[t] = "none"

(***************************************************************************)
(* "The home connection is missing ...; bring it back": once there is a    *)
(* home region it is connected in the end, after rotations too.            *)
(***************************************************************************)
HomeComesUp ==
  \A r \in Regions :
    (home_derp = r) ~> (\E t \in Threads : derps[r] = t /\ pc[t] = "up")

(***************************************************************************)
(* set_node_key ends, although threads hold the key's lock while they      *)
(* connect and wait.                                                       *)
(***************************************************************************)
RotationEnds == (rotate # "idle") ~> (rotate = "idle")
=============================================================================
