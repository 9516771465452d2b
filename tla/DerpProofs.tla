----------------------------- MODULE DerpProofs -----------------------------
(***************************************************************************)
(* Proofs about DerpConn, for any number of regions, threads and rotations *)
(* and any queue limit.                                                    *)
(***************************************************************************)
EXTENDS DerpConn, TLAPS

\* What try_send does to a queue within its limit.
LEMMA TrySendQueue ==
  ASSUME DerpAssumption, NEW q \in Seq(Commands), Len(q) <= QueueLimit,
         NEW cmd \in Commands
  PROVE  /\ TrySend(q, cmd) \in Seq(Commands)
         /\ Len(TrySend(q, cmd)) <= QueueLimit
         /\ \A i \in 1..Len(TrySend(q, cmd)) :
              \/ TrySend(q, cmd)[i] = cmd
              \/ i \in 1..Len(q) /\ TrySend(q, cmd)[i] = q[i]
  BY DEF TrySend, DerpAssumption

\* What is left of a queue once its head was taken.
LEMMA TailQueue ==
  ASSUME DerpAssumption, NEW q \in Seq(Commands), Len(q) <= QueueLimit, q # << >>
  PROVE  /\ Head(q) \in Commands /\ Head(q) = q[1] /\ 1 \in 1..Len(q)
         /\ Tail(q) \in Seq(Commands)
         /\ Len(Tail(q)) <= QueueLimit
         /\ \A i \in 1..Len(Tail(q)) : i + 1 \in 1..Len(q) /\ Tail(q)[i] = q[i + 1]
  BY DEF DerpAssumption

\* A thread is registered for one region only, its own.
LEMMA OneRegion ==
  ASSUME MapType, RegisteredServes, NEW r \in Regions, derps[r] # NoThread
  PROVE  /\ derps[r] \in Threads
         /\ region[derps[r]] = r
         /\ \A s \in Regions : derps[s] = derps[r] => s = r
  BY DEF MapType, RegisteredServes

(***************************************************************************)
(* A caller gives a thread, old or new, a command that is not Close.       *)
(***************************************************************************)
LEMMA GivePreserves ==
  ASSUME DerpAssumption, DerpInv, NEW r \in Regions,
         NEW t \in Threads \cup {NoThread}, NEW cmd \in {"send", "pref"},
         Serves(t, r), Give(t, cmd), home_derp' \in Regions \cup {NoRegion},
         UNCHANGED <<node_key, preferred, key, rotate, rx>>
  PROVE  DerpInv'
<1>0. /\ MapType /\ QueueType /\ KeyType /\ FlagType
      /\ RegisteredServes /\ RotatedKeyUsed /\ NewQueueEmpty /\ RotationBound
  BY DEF DerpInv, TypeOK
<1>1. KeyType' /\ FlagType' /\ RotationBound'
  BY <1>0 DEF KeyType, FlagType, RotationBound
<1>2. CASE t = NoThread
  <2>1. UNCHANGED <<derps, pc, region, queue>>
    BY <1>2 DEF Serves, Give, DerpAssumption
  <2> QED
    BY <1>0, <1>1, <2>1
    DEF DerpInv, TypeOK, MapType, QueueType, RegisteredServes, RotatedKeyUsed,
        NewQueueEmpty, Registered
<1>3. CASE t # NoThread
  <2>1. t \in Threads /\ cmd \in Commands /\ cmd # "close"
    BY <1>3 DEF Commands
  <2>2. /\ derps'[r] = t /\ region'[t] = r /\ pc'[t] \notin {"none", "exit"}
        /\ pc'[t] = pc[t] \/ pc'[t] = "top"
        /\ \A s \in Regions \ {r} : derps'[s] = derps[s] /\ derps[s] # t
        /\ \A u \in Threads \ {t} : pc'[u] = pc[u] /\ region'[u] = region[u]
        /\ \A i \in 1..Len(queue[t]) : queue[t][i] # "close"
        /\ derps[r] = t \/ pc'[t] = "top"
        /\ MapType'
    <3>1. CASE derps[r] # NoThread
      <4>1. t = derps[r] /\ UNCHANGED <<derps, pc, region>>
        BY <3>1 DEF Serves
      <4> QED
        BY <1>0, <2>1, <3>1, <4>1, OneRegion DEF RegisteredServes, Registered, MapType
    <3>2. CASE derps[r] = NoThread
      <4>1. /\ pc[t] = "none"
            /\ derps' = [derps EXCEPT ![r] = t]
            /\ pc' = [pc EXCEPT ![t] = "top"]
            /\ region' = [region EXCEPT ![t] = r]
        BY <1>3, <3>2 DEF Serves
      <4>2. \A s \in Regions : derps[s] # t
        BY <1>0, <1>3, <4>1 DEF RegisteredServes
      <4>3. queue[t] = << >>
        BY <1>0, <2>1, <4>1 DEF NewQueueEmpty
      <4>4. \A i \in 1..Len(queue[t]) : queue[t][i] # "close"
        BY <4>3
      <4>5. MapType'
        BY <1>0, <2>1, <4>1 DEF MapType
      <4> QED
        BY <1>0, <2>1, <4>1, <4>2, <4>4, <4>5 DEF MapType
    <3> QED
      BY <3>1, <3>2
  <2>3. /\ queue[t] \in Seq(Commands) /\ Len(queue[t]) <= QueueLimit
        /\ queue'[t] = TrySend(queue[t], cmd)
        /\ \A u \in Threads \ {t} : queue'[u] = queue[u]
        /\ queue' = [queue EXCEPT ![t] = TrySend(queue[t], cmd)]
    BY <1>0, <1>3, <2>1 DEF Give, QueueType
  <2>4. QueueType'
    <3>1. /\ TrySend(queue[t], cmd) \in Seq(Commands)
          /\ Len(TrySend(queue[t], cmd)) <= QueueLimit
      BY <2>1, <2>3, TrySendQueue
    <3> QED
      BY <1>0, <2>1, <2>3, <3>1 DEF QueueType
  <2>5. RegisteredServes'
    <3>1. ASSUME NEW s \in Regions, derps'[s] # NoThread
          PROVE  region'[derps'[s]] = s /\ pc'[derps'[s]] \notin {"none", "exit"}
      <4>1. CASE s = r
        BY <2>2, <4>1
      <4>2. CASE s # r
        <5>1. derps'[s] = derps[s] /\ derps[s] \in Threads \ {t}
          BY <1>0, <2>2, <3>1, <4>2 DEF MapType
        <5> QED
          BY <1>0, <2>2, <3>1, <5>1 DEF RegisteredServes
      <4> QED
        BY <4>1, <4>2
    <3>2. ASSUME NEW u \in Threads, Registered(u)', NEW i \in 1..Len(queue'[u])
          PROVE  queue'[u][i] # "close"
      <4>1. CASE u = t
        <5>1. \/ TrySend(queue[t], cmd)[i] = cmd
              \/ i \in 1..Len(queue[t]) /\ TrySend(queue[t], cmd)[i] = queue[t][i]
          BY <2>1, <2>3, <4>1, TrySendQueue
        <5> QED
          BY <2>1, <2>2, <2>3, <4>1, <5>1
      <4>2. CASE u # t
        <5>1. Registered(u)
          BY <2>2, <3>2, <4>2 DEF Registered
        <5>2. queue'[u] = queue[u]
          BY <2>3, <4>2
        <5> QED
          BY <1>0, <5>1, <5>2 DEF RegisteredServes
      <4> QED
        BY <4>1, <4>2
    <3> QED
      BY <3>1, <3>2 DEF RegisteredServes
  <2>6. RotatedKeyUsed'
    <3> SUFFICES ASSUME NEW u \in Threads, rotate \in {"idle", "write"}, Registered(u)',
                        pc'[u] \in {"connect", "backoff", "up"}
                 PROVE  key[u] = node_key
      BY DEF RotatedKeyUsed
    <3>1. Registered(u) /\ pc[u] \in {"connect", "backoff", "up"}
      BY <2>2 DEF Registered
    <3> QED
      BY <1>0, <3>1 DEF RotatedKeyUsed
  <2>7. NewQueueEmpty'
    BY <1>0, <2>2, <2>3 DEF NewQueueEmpty
  <2> QED
    BY <1>1, <2>2, <2>4, <2>5, <2>6, <2>7 DEF DerpInv, TypeOK
<1> QED
  BY <1>2, <1>3

(***************************************************************************)
(* Handles leave the map, with a Close for their threads.                  *)
(***************************************************************************)
LEMMA ClosePreserves ==
  ASSUME DerpAssumption, DerpInv, NEW gone \in SUBSET Regions,
         derps' = [r \in Regions |-> IF r \in gone THEN NoThread ELSE derps[r]],
         queue' = Closed({derps[r] : r \in gone}),
         rotate' = rotate \/ (rotate' = "idle" /\ gone = Regions),
         UNCHANGED <<node_key, home_derp, pc, region, preferred, key, rx>>
  PROVE  DerpInv'
<1> DEFINE ts == {derps[r] : r \in gone}
<1>0. /\ MapType /\ QueueType /\ KeyType /\ FlagType
      /\ RegisteredServes /\ RotatedKeyUsed /\ NewQueueEmpty /\ RotationBound
  BY DEF DerpInv, TypeOK
<1>1. MapType' /\ KeyType' /\ FlagType' /\ RotationBound'
  BY <1>0 DEF MapType, KeyType, FlagType, RotationBound
<1>2. QueueType'
  <2>1. \A t \in Threads : queue'[t] \in Seq(Commands) /\ Len(queue'[t]) <= QueueLimit
    BY <1>0, TrySendQueue DEF Closed, QueueType, Commands
  <2> QED
    BY <2>1 DEF Closed, QueueType
<1>3. \A t \in Threads : Registered(t)' => Registered(t) /\ t \notin ts
  BY <1>0, OneRegion DEF Registered, DerpAssumption
<1>4. \A t \in Threads : Registered(t)' => queue'[t] = queue[t]
  BY <1>3 DEF Closed
<1>5. RegisteredServes'
  BY <1>0, <1>3, <1>4 DEF RegisteredServes
<1>6. RotatedKeyUsed'
  BY <1>0, <1>3 DEF RotatedKeyUsed, Registered, DerpAssumption
<1>7. NewQueueEmpty'
  <2> SUFFICES ASSUME NEW t \in Threads, pc[t] = "none" PROVE queue'[t] = queue[t]
    BY <1>0 DEF NewQueueEmpty
  <2>1. \A r \in Regions : derps[r] # t
    BY <1>0 DEF RegisteredServes, DerpAssumption
  <2> QED
    BY <2>1 DEF Closed
<1> QED
  BY <1>1, <1>2, <1>5, <1>6, <1>7 DEF DerpInv, TypeOK

(***************************************************************************)
(* The steps of the callers and of set_node_key.                           *)
(***************************************************************************)
LEMMA CallersPreserve ==
  ASSUME DerpAssumption, DerpInv, Callers \/ Tick \/ Rotate \/ ReadKey
  PROVE  DerpInv'
<1>0. /\ MapType /\ QueueType /\ KeyType /\ FlagType
      /\ RegisteredServes /\ RotatedKeyUsed /\ NewQueueEmpty /\ RotationBound
  BY DEF DerpInv, TypeOK
<1>1. ASSUME NEW r \in Regions, NEW t \in Threads \cup {NoThread},
             DerpSend(t, r) \/ ConnectHome(t, r)
      PROVE  DerpInv'
  <2>1. home_derp' \in Regions \cup {NoRegion}
    BY <1>0, <1>1 DEF DerpSend, ConnectHome, MapType
  <2>2. CASE DerpSend(t, r)
    BY <2>1, <2>2, GivePreserves DEF DerpSend
  <2>3. CASE ConnectHome(t, r)
    BY <2>1, <2>3, GivePreserves DEF ConnectHome
  <2> QED
    BY <1>1, <2>2, <2>3
<1>2. ASSUME NEW t \in Threads \cup {NoThread}, TickHome(t)
      PROVE  DerpInv'
  <2>1. home_derp \in Regions /\ ConnectHome(t, home_derp)
    BY <1>0, <1>2 DEF TickHome, MapType
  <2> QED
    BY <1>1, <2>1
<1>3. ASSUME NEW r \in Regions, CloseIdle(r)
      PROVE  DerpInv'
  <2>1. derps' = [s \in Regions |-> IF s \in {r} THEN NoThread ELSE derps[s]]
    BY <1>0, <1>3 DEF CloseIdle, MapType
  <2>2. {derps[s] : s \in {r}} = {derps[r]}
    OBVIOUS
  <2>3. /\ queue' = Closed({derps[s] : s \in {r}})
        /\ rotate' = rotate
        /\ UNCHANGED <<node_key, home_derp, pc, region, preferred, key, rx>>
    BY <1>3, <2>2 DEF CloseIdle
  <2>4. PICK gone \in SUBSET Regions : gone = {r}
    OBVIOUS
  <2>5. /\ derps' = [s \in Regions |-> IF s \in gone THEN NoThread ELSE derps[s]]
        /\ queue' = Closed({derps[s] : s \in gone})
    BY <2>1, <2>3, <2>4
  <2> QED
    BY <2>3, <2>5, ClosePreserves
<1>4. ASSUME UNCHANGED <<home_derp, derps, loop>>, KeyType', FlagType',
             RotationBound', RotatedKeyUsed'
      PROVE  DerpInv'
  BY <1>0, <1>4 DEF loop, DerpInv, TypeOK, MapType, QueueType, RegisteredServes,
                    NewQueueEmpty, Registered
<1>5. CASE RotateBegin \/ RotateRebuild
  <2>1. KeyType' /\ FlagType' /\ RotationBound'
    BY <1>0, <1>5 DEF RotateBegin, RotateRebuild, loop, KeyType, FlagType, RotationBound
  <2>2. RotatedKeyUsed'
    BY <1>0, <1>5 DEF RotateBegin, RotateRebuild, loop, RotatedKeyUsed, Registered
  <2> QED
    BY <1>4, <1>5, <2>1, <2>2 DEF RotateBegin, RotateRebuild
<1>6. CASE HandlePacket \/ ReadKey
  <2>1. KeyType' /\ FlagType' /\ RotationBound'
    BY <1>0, <1>6 DEF HandlePacket, ReadKey, loop, KeyType, FlagType, RotationBound
  <2>2. RotatedKeyUsed'
    BY <1>0, <1>6 DEF HandlePacket, ReadKey, loop, RotatedKeyUsed, Registered
  <2> QED
    BY <1>4, <1>6, <2>1, <2>2 DEF HandlePacket, ReadKey
<1>7. CASE RotateWrite
  <2>1. KeyType' /\ FlagType' /\ RotationBound' /\ RotatedKeyUsed'
    BY <1>0, <1>7 DEF RotateWrite, loop, KeyType, FlagType, RotationBound,
                      RotatedKeyUsed, DerpAssumption
  <2> QED
    BY <1>4, <1>7, <2>1 DEF RotateWrite
<1>8. CASE RotateTake
  <2>1. derps' = [r \in Regions |-> IF r \in Regions THEN NoThread ELSE derps[r]]
    BY <1>8 DEF RotateTake
  <2> QED
    BY <1>8, <2>1, ClosePreserves DEF RotateTake
<1> QED
  BY <1>1, <1>2, <1>3, <1>5, <1>6, <1>7, <1>8
  DEF Callers, ControlHome, Tick, Rotate

(***************************************************************************)
(* The steps of a thread.                                                  *)
(***************************************************************************)
LEMMA LoopPreserves ==
  ASSUME DerpAssumption, DerpInv, NEW t \in Threads, Loop(t)
  PROVE  DerpInv'
<1>0. /\ MapType /\ QueueType /\ KeyType /\ FlagType
      /\ RegisteredServes /\ RotatedKeyUsed /\ NewQueueEmpty /\ RotationBound
  BY DEF DerpInv, TypeOK
\* Steps that leave the map and the queue alone: only a thread without a
\* handle goes to its exit, and a thread holds the key it connects with.
<1>1. ASSUME NEW l \in {"top", "connect", "backoff", "up", "exit"},
             pc[t] # "none", pc[t] # "exit", Goto(t, l),
             l = "exit" => ~Registered(t),
             UNCHANGED <<home_derp, derps, region, queue>>
      PROVE  MapType' /\ QueueType' /\ RegisteredServes' /\ NewQueueEmpty'
  <2>1. pc'[t] = l /\ \A u \in Threads \ {t} : pc'[u] = pc[u]
    BY <1>0, <1>1 DEF Goto, MapType
  <2>2. MapType' /\ QueueType'
    BY <1>0, <1>1 DEF Goto, MapType, QueueType
  <2>3. RegisteredServes'
    BY <1>0, <1>1, <2>1 DEF RegisteredServes, Registered, MapType
  <2>4. NewQueueEmpty'
    BY <1>0, <1>1, <2>1 DEF NewQueueEmpty
  <2> QED
    BY <2>2, <2>3, <2>4
<1>2. CASE Connect(t)
  <2>1. MapType' /\ QueueType' /\ RegisteredServes' /\ NewQueueEmpty'
    BY <1>1, <1>2 DEF Connect, Outside
  <2>2. KeyType' /\ FlagType' /\ RotationBound'
    BY <1>0, <1>2 DEF Connect, Outside, KeyType, FlagType, RotationBound
  <2>3. RotatedKeyUsed'
    BY <1>0, <1>2 DEF Connect, Goto, Outside, RotatedKeyUsed, Registered, KeyType, MapType
  <2> QED
    BY <2>1, <2>2, <2>3 DEF DerpInv, TypeOK
<1>3. CASE Connected(t) \/ ConnectFails(t)
  <2>1. MapType' /\ QueueType' /\ RegisteredServes' /\ NewQueueEmpty'
    BY <1>1, <1>3 DEF Connected, ConnectFails, Outside
  <2>2. KeyType' /\ FlagType' /\ RotationBound'
    BY <1>0, <1>3 DEF Connected, ConnectFails, Outside, KeyType, FlagType, RotationBound
  <2>3. RotatedKeyUsed'
    BY <1>0, <1>3 DEF Connected, ConnectFails, Goto, Outside, RotatedKeyUsed,
                      Registered, MapType
  <2> QED
    BY <2>1, <2>2, <2>3 DEF DerpInv, TypeOK
<1>4. CASE Disconnected(t) \/ BackoffOver(t) \/ Broken(t)
  <2>1. MapType' /\ QueueType' /\ RegisteredServes' /\ NewQueueEmpty'
    BY <1>1, <1>4 DEF Disconnected, BackoffOver, Broken, Outside
  <2>2. KeyType' /\ FlagType' /\ RotationBound'
    BY <1>0, <1>4 DEF Disconnected, BackoffOver, Broken, Outside, KeyType,
                      FlagType, RotationBound
  <2>3. RotatedKeyUsed'
    BY <1>0, <1>4 DEF Disconnected, BackoffOver, Broken, Goto, Outside,
                      RotatedKeyUsed, Registered, MapType
  <2> QED
    BY <2>1, <2>2, <2>3 DEF DerpInv, TypeOK
<1>5. CASE BackoffCommand(t) \/ Command(t)
  <2>1. /\ pc[t] \in {"backoff", "up"} /\ queue[t] # << >> /\ Pop(t)
        /\ \/ pc' = pc
           \/ Goto(t, "top")
           \/ Goto(t, "exit") /\ Head(queue[t]) = "close"
        /\ UNCHANGED <<Outside, derps, region, key>>
    BY <1>5 DEF BackoffCommand, Command
  <2>2. /\ Head(queue[t]) = queue[t][1] /\ 1 \in 1..Len(queue[t])
        /\ Tail(queue[t]) \in Seq(Commands) /\ Len(Tail(queue[t])) <= QueueLimit
        /\ \A i \in 1..Len(Tail(queue[t])) :
             i + 1 \in 1..Len(queue[t]) /\ Tail(queue[t])[i] = queue[t][i + 1]
    BY <1>0, <2>1, TailQueue DEF QueueType
  <2>3. /\ queue' = [queue EXCEPT ![t] = Tail(queue[t])]
        /\ queue'[t] = Tail(queue[t])
        /\ \A u \in Threads \ {t} : queue'[u] = queue[u]
    BY <1>0, <2>1 DEF Pop, QueueType
  <2>4. QueueType'
    BY <1>0, <2>2, <2>3 DEF QueueType
  <2>5. MapType' /\ KeyType' /\ RotationBound'
    BY <1>0, <2>1 DEF Goto, Outside, MapType, KeyType, RotationBound
  <2>6. FlagType'
    BY <1>0, <1>5 DEF BackoffCommand, Command, Outside, FlagType
  <2>7. /\ \A u \in Threads \ {t} : pc'[u] = pc[u]
        /\ pc'[t] \in {"backoff", "up", "top", "exit"}
        /\ pc'[t] \in {"backoff", "up"} => pc'[t] = pc[t]
        /\ Registered(t) => pc'[t] # "exit"
    BY <1>0, <2>1, <2>2 DEF Goto, MapType, RegisteredServes
  <2>8. \A u \in Threads : Registered(u)' <=> Registered(u)
    BY <2>1 DEF Registered
  <2>9. RegisteredServes'
    <3>1. ASSUME NEW r \in Regions, derps[r] # NoThread
          PROVE  region[derps[r]] = r /\ pc'[derps[r]] \notin {"none", "exit"}
      <4>1. derps[r] \in Threads /\ Registered(derps[r])
        BY <1>0, <3>1 DEF MapType, Registered
      <4> QED
        BY <1>0, <2>7, <3>1, <4>1 DEF RegisteredServes
    <3>2. ASSUME NEW u \in Threads, Registered(u), NEW i \in 1..Len(queue'[u])
          PROVE  queue'[u][i] # "close"
      <4>1. CASE u = t
        BY <1>0, <2>2, <2>3, <3>2, <4>1 DEF RegisteredServes
      <4>2. CASE u # t
        BY <1>0, <2>3, <3>2, <4>2 DEF RegisteredServes
      <4> QED
        BY <4>1, <4>2
    <3> QED
      BY <2>1, <2>8, <3>1, <3>2 DEF RegisteredServes
  <2>10. RotatedKeyUsed'
    BY <1>0, <2>1, <2>7, <2>8 DEF RotatedKeyUsed, Outside
  <2>11. NewQueueEmpty'
    BY <1>0, <2>3, <2>7 DEF NewQueueEmpty
  <2> QED
    BY <2>4, <2>5, <2>6, <2>9, <2>10, <2>11 DEF DerpInv, TypeOK
<1>6. CASE Exit(t)
  <2>1. ~Registered(t)
    BY <1>0, <1>6 DEF Exit, RegisteredServes, Registered, DerpAssumption
  <2>2. derps' = derps
    BY <1>0, <1>6, <2>1 DEF Exit, Registered, MapType
  <2>3. /\ pc'[t] = "none" /\ queue'[t] = << >>
        /\ \A u \in Threads \ {t} : /\ pc'[u] = pc[u] /\ region'[u] = region[u]
                                     /\ queue'[u] = queue[u] /\ key'[u] = key[u]
    BY <1>0, <1>6 DEF Exit, Goto, MapType, QueueType, KeyType
  <2>4. MapType' /\ KeyType' /\ FlagType' /\ RotationBound'
    BY <1>0, <1>6, <2>2 DEF Exit, Goto, Outside, MapType, KeyType, FlagType,
                            RotationBound, DerpAssumption
  <2>5. << >> \in Seq(Commands) /\ Len(<< >>) <= QueueLimit
    BY DEF DerpAssumption
  <2>6. QueueType'
    BY <1>0, <1>6, <2>3, <2>5 DEF Exit, QueueType
  <2>7. \A u \in Threads : Registered(u)' => Registered(u) /\ u # t
    BY <2>1, <2>2 DEF Registered
  <2>8. RegisteredServes'
    BY <1>0, <2>1, <2>2, <2>3, <2>7 DEF RegisteredServes, Registered, MapType
  <2>9. RotatedKeyUsed'
    BY <1>0, <1>6, <2>3, <2>7 DEF RotatedKeyUsed, Exit, Outside
  <2>10. NewQueueEmpty'
    BY <1>0, <2>3 DEF NewQueueEmpty
  <2> QED
    BY <2>4, <2>6, <2>8, <2>9, <2>10 DEF DerpInv, TypeOK
<1> QED
  BY <1>2, <1>3, <1>4, <1>5, <1>6 DEF Loop, Serve

(***************************************************************************)
(* DerpInv is inductive, for any number of regions, threads and rotations. *)
(***************************************************************************)
THEOREM DerpInvariant == Spec => []DerpInv
<1>1. Init => DerpInv
  <2> SUFFICES ASSUME Init PROVE DerpInv
    OBVIOUS
  <2>1. << >> \in Seq(Commands) /\ Len(<< >>) <= QueueLimit
    BY DerpAssumption DEF DerpAssumption
  <2>2. MapType /\ QueueType /\ FlagType
    BY <2>1 DEF Init, MapType, QueueType, FlagType
  <2>3. KeyType /\ RotationBound
    BY DerpAssumption DEF Init, KeyType, RotationBound, DerpAssumption
  <2>4. RegisteredServes /\ RotatedKeyUsed /\ NewQueueEmpty
    BY DerpAssumption DEF Init, RegisteredServes, RotatedKeyUsed, NewQueueEmpty,
                          Registered, DerpAssumption
  <2> QED
    BY <2>2, <2>3, <2>4 DEF DerpInv, TypeOK
<1>2. DerpInv /\ [Next]_vars => DerpInv'
  <2> SUFFICES ASSUME DerpInv, [Next]_vars PROVE DerpInv'
    OBVIOUS
  <2>1. CASE Next
    BY <2>1, DerpAssumption, CallersPreserve, LoopPreserves DEF Next
  <2>2. CASE UNCHANGED vars
    BY <2>2 DEF vars, loop, DerpInv, TypeOK, MapType, QueueType, KeyType, FlagType,
                RegisteredServes, RotatedKeyUsed, NewQueueEmpty, RotationBound,
                Registered
  <2> QED
    BY <2>1, <2>2
<1> QED
  BY <1>1, <1>2, PTL DEF Spec

(***************************************************************************)
(* A handle in the map always has a thread that serves its region, and no  *)
(* Close waits in its queue.                                               *)
(***************************************************************************)
THEOREM HandlesAreServed == Spec => []RegisteredServes
<1>1. DerpInv => RegisteredServes
  BY DEF DerpInv
<1> QED
  BY <1>1, DerpInvariant, PTL

(***************************************************************************)
(* After set_node_key no connection in the map uses a former key.          *)
(***************************************************************************)
THEOREM RotatedKeyIsUsed == Spec => []RotatedKeyUsed
<1>1. DerpInv => RotatedKeyUsed
  BY DEF DerpInv
<1> QED
  BY <1>1, DerpInvariant, PTL
=============================================================================
