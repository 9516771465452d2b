---------------------------- MODULE DeviceProofs ----------------------------
(***************************************************************************)
(* Proofs about ControlNode and DeviceSetup, for any sets of keys, auth    *)
(* keys, networks and shells and any bounds: the identity of the node in   *)
(* the flash.                                                              *)
(*                                                                         *)
(* IdentityInv speaks of a node that is up, and of the mark.  That both    *)
(* are right depends on where the control thread is in a registration: in  *)
(* a rotation the flash is one write ahead of the memory, and nothing but  *)
(* the missing mark protects a key that control has not accepted yet.      *)
(* NodeInv says this of every place of the thread.  On the device the      *)
(* shells write the same flash at any moment; they never put a mark or a   *)
(* key there, and a factory reset suspends the claim until its erase,      *)
(* which is DeviceInv.                                                     *)
(***************************************************************************)
EXTENDS DeviceSetup, TLAPS

USE ControlAssumption, DeviceAssumption DEF ControlAssumption, DeviceAssumption
USE DEF flash, keys, stream, endpoints, server, bounds, vars
USE DEF TypeOK, PlaceType, KeyType, CountType

-----------------------------------------------------------------------------
(***************************************************************************)
(* The types and the keys held, a group of actions at a time.  What the    *)
(* flash holds does not matter here, so that this serves both modules.     *)
(***************************************************************************)

\* Types: Node::start, the end of a node, and the control server.
LEMMA StartTypes ==
  ASSUME TypeOK, KeysHeld, NEW a \in AuthKeys \cup {None}, StartNode(a)
  PROVE  TypeOK' /\ KeysHeld'
BY DEF FlagType, KeysHeld, StartNode, Step, FreshKeys, Forget

\* Types: the power fails, whatever was being written.
LEMMA OffTypes ==
  ASSUME TypeOK, PowerOff, faults' \in 0..MaxFaults, admin' = admin,
         node_key' \in Keys \cup {None}, registered' \in BOOLEAN, derp_key' \in BOOLEAN
  PROVE  TypeOK' /\ KeysHeld'
<1>1. FlagType'
  BY DEF FlagType, PowerOff
<1>2. PlaceType' /\ KeyType' /\ CountType' /\ KeysHeld'
  BY DEF KeysHeld, PowerOff
<1> QED
  BY <1>1, <1>2

\* Types: register.
LEMMA RegisterTypes ==
  ASSUME TypeOK, KeysHeld,
         \/ Connect \/ WaitOver \/ Check \/ RegisterPending \/ RegisterRefused
         \/ RegisterExpired \/ StoreKey \/ CommitKey \/ Mark
         \/ RequestFails \/ WriteFails
         \/ \E lost \in BOOLEAN : RegisterAccepted(lost)
         \/ \E lost, authorized \in BOOLEAN : Rotate(lost, authorized)
  PROVE  TypeOK' /\ KeysHeld'
<1> USE DEF FlagType, KeysHeld, Step, NodeOnly, Fault
<1>1. CASE Connect \/ WaitOver \/ Check
  BY <1>1 DEF Connect, WaitOver, Check
<1>9. CASE RegisterPending \/ RegisterRefused
  BY <1>9 DEF RegisterPending, RegisterRefused
<1>2. CASE RegisterExpired
  BY <1>2 DEF RegisterExpired, FreshKeys, Forget
<1>3. CASE StoreKey
  BY <1>3 DEF StoreKey
<1>7. CASE CommitKey
  BY <1>7 DEF CommitKey
<1>8. CASE Mark
  BY <1>8 DEF Mark
<1>4. CASE RequestFails \/ WriteFails
  BY <1>4 DEF RequestFails, WriteFails
<1>5. ASSUME NEW lost \in BOOLEAN, RegisterAccepted(lost) PROVE TypeOK' /\ KeysHeld'
  BY <1>5 DEF RegisterAccepted, Accept
<1>6. ASSUME NEW lost \in BOOLEAN, NEW authorized \in BOOLEAN, Rotate(lost, authorized)
      PROVE  TypeOK' /\ KeysHeld'
  BY <1>6 DEF Rotate, Accept
<1> QED
  BY <1>1, <1>2, <1>3, <1>4, <1>5, <1>6, <1>7, <1>8, <1>9

\* Types: run_map_stream, the endpoints and the console.
LEMMA MapTypes ==
  ASSUME TypeOK, KeysHeld,
         \/ MapRequest \/ MapStream \/ MapDenied \/ MapRefused \/ Denied
         \/ ClearDirty \/ FirstMessage \/ LiteBegin \/ LiteRequest \/ LiteDone
         \/ LiteFails \/ KeepaliveTimeout \/ StreamEnds \/ KeepAlive \/ LinkDies
         \/ StunAnswer \/ StunNotify \/ Console
  PROVE  TypeOK' /\ KeysHeld'
<1> USE DEF FlagType, KeysHeld, Step, NodeOnly, Fault
<1>1. CASE MapRequest \/ MapStream
  BY <1>1 DEF MapRequest, MapStream
<1>10. CASE MapDenied \/ MapRefused
  BY <1>10 DEF MapDenied, MapRefused
<1>11. CASE Denied
  BY <1>11 DEF Denied
<1>2. CASE ClearDirty \/ LiteBegin \/ LiteRequest
  BY <1>2 DEF ClearDirty, LiteBegin, LiteRequest
<1>3. CASE FirstMessage
  BY <1>3 DEF FirstMessage
<1>4. CASE LiteDone
  BY <1>4 DEF LiteDone
<1>5. CASE LiteFails
  BY <1>5 DEF LiteFails
<1>6. CASE KeepaliveTimeout \/ StreamEnds
  BY <1>6 DEF KeepaliveTimeout, StreamEnds
<1>7. CASE KeepAlive
  BY <1>7 DEF KeepAlive
<1>8. CASE LinkDies \/ StunAnswer \/ StunNotify
  <2>1. FlagType'
    BY <1>8, Zenon DEF LinkDies, StunAnswer, StunNotify
  <2>2. PlaceType' /\ KeyType' /\ CountType' /\ KeysHeld'
    BY <1>8 DEF LinkDies, StunAnswer, StunNotify
  <2> QED
    BY <2>1, <2>2
<1>9. CASE Console
  <2> USE <1>9 DEF Console, Expire, Delete, Revoke, Approve, Admin, AdminOnly
  <2>1. FlagType'
    BY Zenon
  <2>2. PlaceType' /\ KeyType' /\ CountType' /\ KeysHeld'
    OBVIOUS
  <2> QED
    BY <2>1, <2>2
<1> QED
  BY <1>1, <1>2, <1>3, <1>4, <1>5, <1>6, <1>7, <1>8, <1>9, <1>10, <1>11

\* Types: a step of the running node.
LEMMA NodeTypes ==
  ASSUME TypeOK, KeysHeld, NodeNext
  PROVE  TypeOK' /\ KeysHeld'
<1>1. TRUE \in BOOLEAN /\ FALSE \in BOOLEAN
  OBVIOUS
<1> QED
  BY <1>1, RegisterTypes, MapTypes DEF NodeNext, Loop, Trouble

-----------------------------------------------------------------------------
(***************************************************************************)
(* The flash and the mark.                                                 *)
(***************************************************************************)

\* The identity, one name for the three parts.
Identity == FlashFollows /\ MarkFollows /\ RegisteredIsKnown

\* Identity: Node::start takes the key of the flash or stores a new one.
LEMMA StartIdentity ==
  ASSUME TypeOK, KeysHeld, Identity, NEW a \in AuthKeys \cup {None}, StartNode(a)
  PROVE  Identity'
BY DEF Identity, FlashFollows, MarkFollows, RegisteredIsKnown, StartNode, Step,
       FreshKeys, Forget, FlagType

\* Identity: only the flash survives.
LEMMA OffIdentity ==
  ASSUME TypeOK, KeysHeld, Identity, PowerOff, UNCHANGED flash
  PROVE  Identity'
BY DEF Identity, FlashFollows, MarkFollows, RegisteredIsKnown, PowerOff

\* Identity: register, with its rotation, lost answers and failed writes.
LEMMA RegisterIdentity ==
  ASSUME TypeOK, KeysHeld, Identity,
         \/ Connect \/ WaitOver \/ Check \/ RegisterPending \/ RegisterRefused
         \/ RegisterExpired \/ StoreKey \/ CommitKey \/ Mark
         \/ RequestFails \/ WriteFails
         \/ \E lost \in BOOLEAN : RegisterAccepted(lost)
         \/ \E lost, authorized \in BOOLEAN : Rotate(lost, authorized)
  PROVE  Identity'
<1> USE DEF Identity, FlashFollows, MarkFollows, RegisteredIsKnown, KeysHeld,
            Step, NodeOnly, Fault
<1>1. CASE Connect \/ WaitOver \/ Check
  BY <1>1 DEF Connect, WaitOver, Check
<1>2. CASE RegisterPending \/ RegisterRefused
  BY <1>2 DEF RegisterPending, RegisterRefused
<1>3. CASE RegisterExpired
  BY <1>3 DEF RegisterExpired, FreshKeys, Forget
<1>4. CASE StoreKey \/ CommitKey \/ Mark
  BY <1>4 DEF StoreKey, CommitKey, Mark
<1>5. CASE RequestFails \/ WriteFails
  BY <1>5 DEF RequestFails, WriteFails
<1>6. ASSUME NEW lost \in BOOLEAN, RegisterAccepted(lost) PROVE Identity'
  BY <1>6 DEF RegisterAccepted, Accept
<1>7. ASSUME NEW lost \in BOOLEAN, NEW authorized \in BOOLEAN, Rotate(lost, authorized)
      PROVE  Identity'
  BY <1>7 DEF Rotate, Accept
<1> QED
  BY <1>1, <1>2, <1>3, <1>4, <1>5, <1>6, <1>7

\* Identity: run_map_stream, the endpoints and the console, of which only a
\* denied map request writes the flash, and removes the mark.
LEMMA MapIdentity ==
  ASSUME TypeOK, KeysHeld, Identity,
         \/ MapRequest \/ MapStream \/ MapDenied \/ MapRefused \/ Denied
         \/ ClearDirty \/ FirstMessage \/ LiteBegin \/ LiteRequest \/ LiteDone
         \/ LiteFails \/ KeepaliveTimeout \/ StreamEnds \/ KeepAlive \/ LinkDies
         \/ StunAnswer \/ StunNotify \/ Console
  PROVE  Identity'
<1> USE DEF Identity, FlashFollows, MarkFollows, RegisteredIsKnown, KeysHeld,
            Step, NodeOnly
<1>1. CASE MapRequest \/ MapStream
  BY <1>1 DEF MapRequest, MapStream
<1>10. CASE MapDenied \/ MapRefused
  BY <1>10 DEF MapDenied, MapRefused
<1>11. CASE Denied
  BY <1>11 DEF Denied
<1>2. CASE ClearDirty \/ FirstMessage \/ LiteBegin \/ LiteRequest
  BY <1>2 DEF ClearDirty, FirstMessage, LiteBegin, LiteRequest
<1>3. CASE LiteDone \/ LiteFails \/ KeepaliveTimeout \/ StreamEnds
  BY <1>3 DEF LiteDone, LiteFails, KeepaliveTimeout, StreamEnds
<1>4. CASE KeepAlive \/ LinkDies \/ StunAnswer \/ StunNotify
  BY <1>4 DEF KeepAlive, LinkDies, StunAnswer, StunNotify
<1>5. CASE Console
  BY <1>5 DEF Console, Expire, Delete, Revoke, Approve, AdminOnly
<1> QED
  BY <1>1, <1>2, <1>3, <1>4, <1>5, <1>10, <1>11

\* Identity: a step of the running node.
LEMMA NodeIdentity ==
  ASSUME TypeOK, KeysHeld, Identity, NodeNext
  PROVE  Identity'
<1>1. TRUE \in BOOLEAN /\ FALSE \in BOOLEAN
  OBVIOUS
<1> QED
  BY <1>1, RegisterIdentity, MapIdentity DEF NodeNext, Loop, Trouble

(***************************************************************************)
(* NodeInv is inductive: any keys, any number of faults, of changes in the *)
(* console and of endpoints.                                               *)
(***************************************************************************)
THEOREM NodeInvariant == Spec => []NodeInv
<1> USE DEF NodeInv
<1>1. Init => NodeInv
  <2> SUFFICES ASSUME Init PROVE NodeInv
    OBVIOUS
  <2>1. FlagType
    BY DEF Init, FlagType
  <2>2. PlaceType /\ KeyType /\ CountType
    BY DEF Init
  <2>3. KeysHeld /\ FlashFollows /\ MarkFollows /\ RegisteredIsKnown
    BY DEF Init, KeysHeld, FlashFollows, MarkFollows, RegisteredIsKnown
  <2> QED
    BY <2>1, <2>2, <2>3
<1>2. NodeInv /\ [Next]_vars => NodeInv'
  <2> SUFFICES ASSUME NodeInv, [Next]_vars PROVE NodeInv'
    OBVIOUS
  <2>0. TypeOK /\ KeysHeld /\ Identity
    BY DEF Identity
  <2>1. ASSUME NEW a \in AuthKeys \cup {None}, StartNode(a) PROVE NodeInv'
    BY <2>0, <2>1, StartTypes, StartIdentity DEF Identity
  <2>2. CASE Crash
    <3>1. /\ PowerOff /\ UNCHANGED flash
          /\ faults' \in 0..MaxFaults /\ admin' = admin
      BY <2>0, <2>2 DEF Crash, Fault
    <3>2. /\ node_key' \in Keys \cup {None}
          /\ registered' \in BOOLEAN /\ derp_key' \in BOOLEAN
      BY <2>0, <3>1 DEF FlagType
    <3> QED
      BY <2>0, <3>1, <3>2, OffTypes, OffIdentity DEF Identity
  <2>3. CASE NodeNext
    BY <2>0, <2>3, NodeTypes, NodeIdentity DEF Identity
  <2>4. CASE UNCHANGED vars
    BY <2>4 DEF FlagType, KeysHeld, FlashFollows, MarkFollows, RegisteredIsKnown
  <2> QED
    BY <2>1, <2>2, <2>3, <2>4 DEF Next
<1> QED
  BY <1>1, <1>2, PTL DEF Spec

(***************************************************************************)
(* A node that is up uses the key of the flash, and the mark in the flash  *)
(* is true, through every registration and rotation (node.rs, register).   *)
(***************************************************************************)
THEOREM IdentityIsKept == Spec => []IdentityInv
<1>1. NodeInv => IdentityInv
  BY DEF NodeInv, IdentityInv, FlashFollows, SameIdentity, Running
<1> QED
  BY <1>1, NodeInvariant, PTL

-----------------------------------------------------------------------------
(***************************************************************************)
(* The device.  A shell that moves between places outside a reset does not *)
(* end one.                                                                *)
(***************************************************************************)
\* A reset under way outlasts such a step.
LEMMA ResetStays ==
  ASSUME ShellType, NEW s \in Shells, ~Resetting(s), NEW l,
         Goto(s, l), UNCHANGED torn, ResetInFlash
  PROVE  ResetInFlash'
BY DEF ShellType, Goto, ResetInFlash, Resetting

\* The configurations that load_config and the commands make.
LEMMA ConfigTypes ==
  ASSUME BoardType
  PROVE  /\ NoConfig \in Configs /\ LoadConfig \in Configs
         /\ \A k \in AuthKeys : [LoadConfig EXCEPT !.auth = k] \in Configs
         /\ \A n \in Ssids : /\ [LoadConfig EXCEPT !.nets = @ \cup {n}] \in Configs
                            /\ [LoadConfig EXCEPT !.nets = @ \ {n}] \in Configs
BY DEF BoardType, NoConfig, LoadConfig, Configs

\* What a shell does with its own state.
LEMMA ShellTypes ==
  ASSUME ShellType, BoardType, NEW s \in Shells,
         \/ \E l \in Places : Stay(s, l)
         \/ Home(s)
         \/ UNCHANGED changed /\ \E o \in Operations, c \in Configs : Save(s, o, c)
  PROVE  ShellType'
<1>1. NoConfig \in Configs
  BY ConfigTypes
<1>2. "save" \in Places /\ "home" \in Places /\ "none" \in Operations
  BY DEF Places, Operations
<1> QED
  BY <1>1, <1>2 DEF ShellType, Stay, Home, Save, Goto

\* A shell's step that leaves the flash and the node alone.
LEMMA ElsewhereStep ==
  ASSUME DeviceInv, NEW s \in Shells, ~Resetting(s), ShellType',
         \E l : Goto(s, l), vars' = vars, torn' = torn, BoardType'
  PROVE  DeviceInv'
<1>1. TypeOK' /\ KeysHeld'
  BY DEF DeviceInv, DeviceTypeOK, FlagType, KeysHeld
<1>2. ResetInFlash => ResetInFlash'
  BY ResetStays DEF DeviceInv, DeviceTypeOK
<1>3. ~ResetInFlash' => FlashFollows' /\ MarkFollows' /\ RegisteredIsKnown'
  BY <1>2 DEF DeviceInv, FlashFollows, MarkFollows, RegisteredIsKnown
<1> QED
  BY <1>1, <1>3 DEF DeviceInv, DeviceTypeOK

\* The power fails, or the board restarts: a reset that was under way stays
\* noted, and everything else is off.
LEMMA RestartPreserves ==
  ASSUME DeviceInv, DeviceOff, UNCHANGED <<flash, settings>>,
         torn' = (torn \/ \E s \in Shells : Resetting(s)),
         faults' \in 0..MaxFaults, admin' = admin
  PROVE  DeviceInv'
<1>0. TypeOK /\ ShellType /\ BoardType
  BY DEF DeviceInv, DeviceTypeOK
<1>1. PowerOff /\ UNCHANGED flash
  BY DEF DeviceOff
<1>2. /\ node_key' \in Keys \cup {None}
      /\ registered' \in BOOLEAN /\ derp_key' \in BOOLEAN
  BY <1>0, <1>1 DEF FlagType
<1>3. TypeOK' /\ KeysHeld'
  BY <1>0, <1>1, <1>2, OffTypes
<1>4. ShellType'
  BY <1>0, ConfigTypes DEF DeviceOff, ShellType, Places, Operations
<1>5. BoardType'
  BY <1>0 DEF DeviceOff, BoardType, settings
<1>6. ResetInFlash => ResetInFlash'
  BY DEF ResetInFlash
<1>7. ~ResetInFlash' => Identity'
  BY <1>0, <1>1, <1>6, OffIdentity DEF DeviceInv, Identity
<1> QED
  BY <1>3, <1>4, <1>5, <1>7 DEF DeviceInv, DeviceTypeOK, Identity

\* The commands at the prompt, up to the reboot.
LEMMA CommandsPreserve ==
  ASSUME DeviceInv, NEW s \in Shells, Commands(s)
  PROVE  DeviceInv'
<1>0. TypeOK /\ ShellType /\ BoardType
  BY DEF DeviceInv, DeviceTypeOK
<1>1. ASSUME NEW o \in Operations, NEW c \in Configs, Save(s, o, c), ~Resetting(s),
             UNCHANGED changed, Elsewhere
      PROVE  DeviceInv'
  <2>1. ShellType'
    BY <1>0, <1>1, ShellTypes
  <2>2. BoardType' /\ vars' = vars /\ torn' = torn /\ \E l : Goto(s, l)
    BY <1>0, <1>1 DEF Elsewhere, BoardType, settings, Save
  <2> QED
    BY <1>1, <2>1, <2>2, ElsewhereStep
<1>2. ASSUME NEW l \in Places, Stay(s, l) \/ Home(s), ~Resetting(s), Elsewhere
      PROVE  DeviceInv'
  <2>1. ShellType'
    BY <1>0, <1>2, ShellTypes
  <2>2. BoardType' /\ vars' = vars /\ torn' = torn
    BY <1>0, <1>2 DEF Elsewhere, BoardType, settings
  <2>3. \E k : Goto(s, k)
    BY <1>2 DEF Stay, Home
  <2> QED
    BY <1>2, <2>1, <2>2, <2>3, ElsewhereStep
<1>3. ASSUME AtPrompt(s) \/ pc[s] \in {"wifi", "host?", "wait"} PROVE ~Resetting(s)
  BY <1>3 DEF AtPrompt, Resetting
<1>4. CASE SetField(s) \/ WizardHost(s)
  <2>1. LoadConfig \in Configs /\ "set" \in Operations /\ "hostname" \in Operations
    BY <1>0, ConfigTypes DEF Operations
  <2> QED
    BY <1>1, <1>3, <1>4, <2>1 DEF SetField, WizardHost
<1>5. ASSUME NEW k \in AuthKeys, SetAuthKey(s, k) PROVE DeviceInv'
  <2>1. [LoadConfig EXCEPT !.auth = k] \in Configs /\ "authkey" \in Operations
    BY <1>0, ConfigTypes DEF Operations
  <2> QED
    BY <1>1, <1>3, <1>5, <2>1 DEF SetAuthKey
<1>6. ASSUME NEW n \in Ssids, SetWifi(s, n) \/ WifiForget(s, n) PROVE DeviceInv'
  <2>1. /\ [LoadConfig EXCEPT !.nets = @ \cup {n}] \in Configs
        /\ [LoadConfig EXCEPT !.nets = @ \ {n}] \in Configs
    BY <1>0, ConfigTypes
  <2>2. "wifi" \in Operations /\ op[s] \in Operations
    BY <1>0 DEF Operations, ShellType
  <2>3. CASE WifiForget(s, n)
    BY <1>1, <1>3, <2>1, <2>2, <2>3 DEF WifiForget
  <2>4. CASE SetWifi(s, n)
    BY <1>1, <1>3, <2>1, <2>2, <2>4 DEF SetWifi
  <2> QED
    BY <1>6, <2>3, <2>4
<1>7. ASSUME NEW full \in BOOLEAN, Wizard(s, full) PROVE DeviceInv'
  <2>1. ShellType'
    BY <1>0, <1>7 DEF Wizard, ShellType, Goto, Places, Operations
  <2>2. BoardType' /\ vars' = vars /\ torn' = torn /\ \E l : Goto(s, l)
    BY <1>0, <1>7 DEF Wizard, Elsewhere, BoardType, settings
  <2> QED
    BY <1>3, <1>7, <2>1, <2>2, ElsewhereStep DEF Wizard
<1>8. CASE WizardQuit(s) \/ LoginBegin(s) \/ LoginDone(s)
  <2>1. "login" \in Places
    BY DEF Places
  <2> QED
    BY <1>2, <1>3, <1>8, <2>1 DEF WizardQuit, LoginBegin, LoginDone
<1>9. CASE Reboot(s)
  <2>1. faults' \in 0..MaxFaults /\ admin' = admin
    BY <1>0, <1>9 DEF Reboot
  <2> QED
    BY <1>9, <2>1, RestartPreserves DEF Reboot
<1> QED
  BY <1>4, <1>5, <1>6, <1>7, <1>8, <1>9 DEF Commands

\* start_node leaves the shells and a reset alone.
LEMMA StartPreserves ==
  ASSUME DeviceInv, Start, ShellType', BoardType', ResetInFlash => ResetInFlash'
  PROVE  DeviceInv'
<1>0. TypeOK /\ KeysHeld /\ BoardType
  BY DEF DeviceInv, DeviceTypeOK
<1>1. auth \in AuthKeys \cup {None} /\ StartNode(auth)
  BY <1>0 DEF Start, BoardType
<1>2. TypeOK' /\ KeysHeld'
  BY <1>0, <1>1, StartTypes
<1>3. ~ResetInFlash' => Identity'
  BY <1>0, <1>1, StartIdentity DEF DeviceInv, Identity
<1> QED
  BY <1>2, <1>3 DEF DeviceInv, DeviceTypeOK, Identity

\* main, and the thread that forgets the auth key.
LEMMA BoardPreserves ==
  ASSUME DeviceInv,
         (\E b \in BOOLEAN : Boot(b)) \/ ScrubSees \/ ScrubForget \/ PowerFails
  PROVE  DeviceInv'
<1>0. TypeOK /\ ShellType /\ BoardType /\ KeysHeld
  BY DEF DeviceInv, DeviceTypeOK
<1>1. ASSUME vars' = vars, shell' = shell, torn' = torn, BoardType' PROVE DeviceInv'
  BY <1>0, <1>1 DEF DeviceInv, DeviceTypeOK, FlagType, KeysHeld, shell, ShellType,
     ResetInFlash, Resetting, FlashFollows, MarkFollows, RegisteredIsKnown
<1>2. ASSUME NEW b \in BOOLEAN, Boot(b) PROVE DeviceInv'
  <2>1. UNCHANGED <<shell, torn>>
    BY <1>2 DEF Boot
  <2>2. BoardType'
    BY <1>0, <1>2 DEF Boot, Start, BoardType, settings
  <2>3. CASE b \/ nets = {} \/ ~registered
    BY <1>1, <1>2, <2>1, <2>2, <2>3 DEF Boot
  <2>4. CASE ~(b \/ nets = {} \/ ~registered)
    <3>1. Start
      BY <1>2, <2>4 DEF Boot
    <3>2. ShellType' /\ (ResetInFlash => ResetInFlash')
      BY <1>0, <2>1 DEF shell, ShellType, ResetInFlash, Resetting
    <3> QED
      BY <2>2, <3>1, <3>2, StartPreserves
  <2> QED
    BY <2>3, <2>4
<1>3. CASE ScrubSees \/ ScrubForget
  <2>1. BoardType'
    BY <1>0, <1>3 DEF ScrubSees, ScrubForget, BoardType, settings
  <2> QED
    BY <1>1, <1>3, <2>1 DEF ScrubSees, ScrubForget
<1>4. CASE PowerFails
  <2>1. faults' \in 0..MaxFaults /\ admin' = admin
    BY <1>0, <1>4 DEF PowerFails, Fault
  <2> QED
    BY <1>4, <2>1, RestartPreserves DEF PowerFails
<1> QED
  BY <1>2, <1>3, <1>4

\* A shell's step outside a reset that may remove the mark from the flash.
LEMMA ShellStep ==
  ASSUME DeviceInv, NEW s \in Shells, ~Resetting(s), \E l : Goto(s, l), torn' = torn,
         TypeOK', ShellType', BoardType',
         UNCHANGED <<node_key, ctl, mem, new_key, accepted>>, registered' => registered
  PROVE  DeviceInv'
<1>1. KeysHeld'
  BY DEF DeviceInv, KeysHeld
<1>2. ResetInFlash => ResetInFlash'
  BY ResetStays DEF DeviceInv, DeviceTypeOK
<1>3. ~ResetInFlash' => FlashFollows' /\ MarkFollows' /\ RegisteredIsKnown'
  BY <1>2 DEF DeviceInv, FlashFollows, MarkFollows, RegisteredIsKnown
<1> QED
  BY <1>1, <1>3 DEF DeviceInv, DeviceTypeOK

\* save_config, its callers and login.
LEMMA SavingPreserves ==
  ASSUME DeviceInv, NEW s \in Shells, Saving(s)
  PROVE  DeviceInv'
<1>0. TypeOK /\ ShellType /\ BoardType /\ KeysHeld
  BY DEF DeviceInv, DeviceTypeOK
<1>1. CASE SaveBegin(s)
  <2>1. ShellType' /\ ~Resetting(s) /\ \E l : Goto(s, l)
    BY <1>0, <1>1 DEF SaveBegin, ShellType, Goto, Places, Resetting
  <2>2. BoardType' /\ vars' = vars /\ torn' = torn
    BY <1>0, <1>1 DEF SaveBegin, Elsewhere, BoardType, settings
  <2> QED
    BY <2>1, <2>2, ElsewhereStep
<1>2. CASE SaveKey(s)
  <2>1. ShellType' /\ ~Resetting(s) /\ \E l : Goto(s, l)
    BY <1>0, <1>2 DEF SaveKey, ShellType, Goto, Places, Resetting
  <2>2. cfg[s] \in Configs
    BY <1>0 DEF ShellType
  <2>3. BoardType' /\ vars' = vars /\ torn' = torn
    BY <1>0, <1>2, <2>2 DEF SaveKey, BoardType, settings, Configs
  <2> QED
    BY <2>1, <2>3, ElsewhereStep
<1>3. CASE SaveClear(s)
  <2>1. ShellType' /\ ~Resetting(s) /\ \E l : Goto(s, l)
    BY <1>0, <1>3 DEF SaveClear, ShellType, Goto, Places, Resetting
  <2>2. BoardType' /\ torn' = torn /\ (registered' => registered)
    BY <1>0, <1>3 DEF SaveClear, BoardType, settings
  <2>3. UNCHANGED <<node_key, ctl, keys, stream, endpoints, server, bounds>>
    BY <1>3 DEF SaveClear
  <2>4. FlagType'
    BY <1>0, <1>3, <2>3 DEF SaveClear, FlagType
  <2>5. TypeOK'
    BY <1>0, <2>3, <2>4
  <2> QED
    BY <2>1, <2>2, <2>3, <2>5, ShellStep
<1>4. CASE Saved(s)
  <2>1. "host?" \in Places /\ "login" \in Places
    BY DEF Places
  <2>2. (\E l \in Places : Stay(s, l)) \/ Home(s)
    BY <1>4, <2>1 DEF Saved
  <2>3. ShellType'
    BY <1>0, <2>2, ShellTypes
  <2>4. \E l : Goto(s, l)
    BY <2>2 DEF Stay, Home
  <2>5. ~Resetting(s) /\ BoardType' /\ vars' = vars /\ torn' = torn
    BY <1>0, <1>4 DEF Saved, Resetting, Elsewhere, BoardType, settings
  <2> QED
    BY <2>3, <2>4, <2>5, ElsewhereStep
<1>5. CASE SaveFails(s)
  <2>1. "wifi" \in Places
    BY DEF Places
  <2>2. (\E l \in Places : Stay(s, l)) \/ Home(s)
    BY <1>5, <2>1 DEF SaveFails
  <2>3. ShellType'
    BY <1>0, <2>2, ShellTypes
  <2>4. \E l : Goto(s, l)
    BY <2>2 DEF Stay, Home
  <2>5. ~Resetting(s)
    BY <1>5 DEF SaveFails, Resetting
  <2>6. BoardType' /\ torn' = torn
    BY <1>0, <1>5 DEF SaveFails, BoardType, settings
  <2>7. Fault /\ UNCHANGED <<flash, ctl, keys, stream, endpoints, server>>
    BY <1>5 DEF SaveFails
  <2>8. CountType'
    BY <1>0, <2>7 DEF Fault
  <2>9. TypeOK'
    BY <1>0, <2>7, <2>8 DEF FlagType
  <2> QED
    BY <2>3, <2>4, <2>5, <2>6, <2>7, <2>9, ShellStep
<1>6. CASE Login(s)
  <2>1. "wait" \in Places
    BY DEF Places
  <2>2. (\E l \in Places : Stay(s, l)) \/ Home(s)
    BY <1>6, <2>1 DEF Login
  <2>3. ShellType'
    BY <1>0, <2>2, ShellTypes
  <2>4. \E l : Goto(s, l)
    BY <2>2 DEF Stay, Home
  <2>5. ~Resetting(s) /\ torn' = torn
    BY <1>6 DEF Login, Resetting
  <2>6. BoardType'
    BY <1>0, <1>6 DEF Login, Start, BoardType, settings
  <2>7. ResetInFlash => ResetInFlash'
    BY <1>0, <2>4, <2>5, ResetStays
  <2>8. CASE vars' = vars
    BY <2>3, <2>4, <2>5, <2>6, <2>8, ElsewhereStep
  <2>9. CASE Start
    BY <2>3, <2>6, <2>7, <2>9, StartPreserves
  <2>10. CASE Fault /\ UNCHANGED <<flash, ctl, keys, stream, endpoints, server>>
    <3>1. CountType'
      BY <1>0, <2>10 DEF Fault
    <3>2. TypeOK'
      BY <1>0, <2>10, <3>1 DEF FlagType
    <3> QED
      BY <2>3, <2>4, <2>5, <2>6, <2>10, <3>2, ShellStep
  <2> QED
    BY <1>6, <2>8, <2>9, <2>10 DEF Login
<1> QED
  BY <1>1, <1>2, <1>3, <1>4, <1>5, <1>6 DEF Saving

\* factory_reset: from the first key to the erase the identity is open.
LEMMA ResetsPreserve ==
  ASSUME DeviceInv, NEW s \in Shells, Resets(s)
  PROVE  DeviceInv'
<1>0. TypeOK /\ ShellType /\ BoardType /\ KeysHeld
  BY DEF DeviceInv, DeviceTypeOK
<1>1. CASE ResetBegin(s)
  <2>1. "rm_nets" \in Places
    BY DEF Places
  <2>2. ShellType'
    BY <1>0, <1>1, <2>1, ShellTypes DEF ResetBegin
  <2>3. \E l : Goto(s, l)
    BY <1>1 DEF ResetBegin, Stay
  <2>4. ~Resetting(s) /\ BoardType' /\ vars' = vars /\ torn' = torn
    BY <1>0, <1>1 DEF ResetBegin, AtPrompt, Resetting, Elsewhere, BoardType, settings
  <2> QED
    BY <2>2, <2>3, <2>4, ElsewhereStep
<1>2. CASE ResetKey(s)
  <2>1. ShellType' /\ ResetInFlash'
    BY <1>0, <1>2 DEF ResetKey, ShellType, Goto, Places, ResetInFlash, Resetting
  <2>2. BoardType'
    BY <1>0, <1>2 DEF ResetKey, BoardType, settings
  <2>3. UNCHANGED <<ctl, keys, stream, endpoints, server, bounds>>
    BY <1>2 DEF ResetKey
  <2>4. FlagType'
    BY <1>0, <1>2, <2>3 DEF ResetKey, FlagType
  <2>5. node_key' \in Keys \cup {None}
    BY <1>0, <1>2 DEF ResetKey
  <2>6. TypeOK' /\ KeysHeld'
    BY <1>0, <2>3, <2>4, <2>5 DEF KeysHeld
  <2> QED
    BY <2>1, <2>2, <2>6 DEF DeviceInv, DeviceTypeOK
<1>3. CASE ResetErase(s)
  <2>1. /\ PowerOff /\ faults' \in 0..MaxFaults /\ admin' = admin
        /\ node_key' \in Keys \cup {None}
        /\ registered' \in BOOLEAN /\ derp_key' \in BOOLEAN
    BY <1>0, <1>3 DEF ResetErase, DeviceOff
  <2>2. TypeOK' /\ KeysHeld'
    BY <1>0, <2>1, OffTypes
  <2>3. ShellType'
    BY <1>0, <1>3, ConfigTypes DEF ResetErase, DeviceOff, ShellType, Places, Operations
  <2>4. BoardType'
    BY <1>0, <1>3 DEF ResetErase, DeviceOff, BoardType
  <2>5. FlashFollows' /\ MarkFollows' /\ RegisteredIsKnown'
    BY <1>3 DEF ResetErase, DeviceOff, PowerOff, FlashFollows, MarkFollows,
                RegisteredIsKnown
  <2> QED
    BY <2>2, <2>3, <2>4, <2>5 DEF DeviceInv, DeviceTypeOK
<1>4. CASE ResetFails(s)
  <2>1. ShellType' /\ ResetInFlash'
    BY <1>0, <1>4 DEF ResetFails, ShellType, Goto, Places, ResetInFlash
  <2>2. BoardType'
    BY <1>0, <1>4 DEF ResetFails, BoardType, settings
  <2>3. UNCHANGED <<flash, ctl, keys, stream, endpoints, server>>
    BY <1>4 DEF ResetFails
  <2>4. CountType'
    BY <1>0, <1>4, <2>3 DEF ResetFails, Fault
  <2>5. TypeOK' /\ KeysHeld'
    BY <1>0, <2>3, <2>4 DEF FlagType, KeysHeld
  <2> QED
    BY <2>1, <2>2, <2>5 DEF DeviceInv, DeviceTypeOK
<1> QED
  BY <1>1, <1>2, <1>3, <1>4 DEF Resets

(***************************************************************************)
(* DeviceInv is inductive, for any number of shells, networks and keys:    *)
(* the writers of the flash, the node in it and the power failures.        *)
(***************************************************************************)
THEOREM DeviceInvariant == DeviceSpec => []DeviceInv
<1>1. DeviceInit => DeviceInv
  <2> SUFFICES ASSUME DeviceInit PROVE DeviceInv
    OBVIOUS
  <2>1. FlagType
    BY DEF DeviceInit, Init, FlagType
  <2>2. TypeOK
    BY <2>1 DEF DeviceInit, Init
  <2>3. KeysHeld /\ FlashFollows /\ MarkFollows /\ RegisteredIsKnown
    BY DEF DeviceInit, Init, KeysHeld, FlashFollows, MarkFollows, RegisteredIsKnown
  <2>4. BoardType
    BY DEF DeviceInit, BoardType
  <2>5. ShellType
    BY <2>4, ConfigTypes DEF DeviceInit, ShellType, Places, Operations
  <2> QED
    BY <2>2, <2>3, <2>4, <2>5 DEF DeviceInv, DeviceTypeOK
<1>2. DeviceInv /\ [DeviceNext]_deviceVars => DeviceInv'
  <2> SUFFICES ASSUME DeviceInv, [DeviceNext]_deviceVars PROVE DeviceInv'
    OBVIOUS
  <2>0. TypeOK /\ KeysHeld /\ ShellType /\ BoardType
    BY DEF DeviceInv, DeviceTypeOK
  <2>1. ASSUME UNCHANGED rest
        PROVE  ShellType' /\ BoardType' /\ (ResetInFlash' <=> ResetInFlash)
    BY <2>0, <2>1 DEF rest, settings, shell, ShellType, BoardType, ResetInFlash, Resetting
  <2>2. CASE NodeNext /\ UNCHANGED rest
    <3>1. TypeOK' /\ KeysHeld'
      BY <2>0, <2>2, NodeTypes
    <3>2. ~ResetInFlash' => Identity'
      BY <2>0, <2>1, <2>2, NodeIdentity DEF DeviceInv, Identity
    <3> QED
      BY <2>1, <2>2, <3>1, <3>2 DEF DeviceInv, DeviceTypeOK, Identity
  <2>3. CASE UNCHANGED deviceVars
    <3>1. UNCHANGED vars /\ UNCHANGED rest
      BY <2>3 DEF deviceVars
    <3>2. TypeOK' /\ KeysHeld'
      BY <2>0, <3>1 DEF FlagType, KeysHeld
    <3>3. ~ResetInFlash' => FlashFollows' /\ MarkFollows' /\ RegisteredIsKnown'
      BY <2>1, <3>1 DEF DeviceInv, FlashFollows, MarkFollows, RegisteredIsKnown
    <3> QED
      BY <2>1, <3>1, <3>2, <3>3 DEF DeviceInv, DeviceTypeOK
  <2> QED
    BY <2>2, <2>3, BoardPreserves, SavingPreserves, CommandsPreserve, ResetsPreserve
    DEF DeviceNext
<1> QED
  BY <1>1, <1>2, PTL DEF DeviceSpec

(***************************************************************************)
(* Unless a factory reset is under way or was cut off, the flash holds the *)
(* key of the node that is up and a true mark, whatever the shells write   *)
(* meanwhile and wherever the power fails (shell.rs, nvs_store.rs).        *)
(***************************************************************************)
THEOREM FlashIsTrue == DeviceSpec => []FlashInv
<1>1. DeviceInv => FlashInv
  BY DEF DeviceInv, FlashInv, IdentitySurvives, MarkIsTrue, FlashFollows,
         SameIdentity, Running
<1> QED
  BY <1>1, DeviceInvariant, PTL
=============================================================================
