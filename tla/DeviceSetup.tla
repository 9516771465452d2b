---------------------------- MODULE DeviceSetup ----------------------------
(***************************************************************************)
(* The device between power-on and a running node: the control node with   *)
(* the flash store (firmware/src/nvs_store.rs), the boot decision          *)
(* (main.rs), the setup shells (adapter-core/src/shell.rs), the start of   *)
(* the node and the thread that forgets the auth key (platform.rs).        *)
(*                                                                         *)
(* The flash is written key by key, by several threads, and the power may  *)
(* fail between any two writes.  A write fails when the flash is full; a   *)
(* removal needs no space and does not.  The hostname, port, resolution    *)
(* and frame rate are steps without a value.                               *)
(***************************************************************************)
EXTENDS ControlNode

CONSTANTS
  Shells,      \* consoles: UART0 and, in setup mode, USB
  Ssids

ASSUME DeviceAssumption == None \notin Ssids

VARIABLES
  \* The flash, besides the node's keys.
  nets, auth,
  \* The board.
  mode,
  \* The shells: program counter, the configuration being saved,
  \* identity_changed and the command.
  pc, cfg, changed, op,
  \* The auth-key thread.
  scrub,
  \* History: a factory reset was begun and not completed.
  torn

settings == <<nets, auth>>
shell == <<pc, cfg, changed, op>>
rest == <<settings, mode, shell, scrub, torn>>
deviceVars == <<vars, rest>>

Configs == [nets : SUBSET Ssids, auth : AuthKeys \cup {None}]

NoConfig == [nets |-> {}, auth |-> None]

Places ==
  {"home", "wifi", "host?", "save", "nets", "host", "auth", "rest", "clear",
   "saved", "login", "wait", "rm_nets", "rm_auth", "rm_key", "rm_reg", "erase"}

Operations == {"none", "set", "authkey", "wifi", "setup", "setup all", "hostname"}

ShellType ==
  /\ pc \in [Shells -> Places] /\ op \in [Shells -> Operations]
  /\ cfg \in [Shells -> Configs] /\ changed \in [Shells -> BOOLEAN]

BoardType ==
  /\ nets \subseteq Ssids /\ auth \in AuthKeys \cup {None}
  /\ mode \in {"off", "setup", "normal"} /\ scrub \in {"off", "wait", "forget"}
  /\ torn \in BOOLEAN

DeviceTypeOK == TypeOK /\ ShellType /\ BoardType

\* An empty flash.
DeviceInit ==
  /\ Init
  /\ nets = {} /\ auth = None /\ mode = "off"
  /\ pc = [s \in Shells |-> "home"] /\ cfg = [s \in Shells |-> NoConfig]
  /\ changed = [s \in Shells |-> FALSE] /\ op = [s \in Shells |-> "none"]
  /\ scrub = "off" /\ torn = FALSE

Goto(s, l) == pc' = [pc EXCEPT ![s] = l]

Stay(s, l) == Goto(s, l) /\ UNCHANGED <<cfg, changed, op>>

\* The command is over.
Home(s) ==
  /\ Goto(s, "home")
  /\ cfg' = [cfg EXCEPT ![s] = NoConfig]
  /\ changed' = [changed EXCEPT ![s] = FALSE]
  /\ op' = [op EXCEPT ![s] = "none"]

\* load_config: nothing counts as configured before a network is known.
LoadConfig == IF nets = {} THEN NoConfig
              ELSE [nets |-> nets, auth |-> auth]

-----------------------------------------------------------------------------
(***************************************************************************)
(* Power.                                                                  *)
(***************************************************************************)
Resetting(s) == pc[s] \in {"rm_auth", "rm_key", "rm_reg", "erase"}

\* The power fails, or the board restarts: only the flash stays.
DeviceOff ==
  /\ PowerOff
  /\ mode' = "off" /\ scrub' = "off"
  /\ pc' = [s \in Shells |-> "home"] /\ cfg' = [s \in Shells |-> NoConfig]
  /\ changed' = [s \in Shells |-> FALSE] /\ op' = [s \in Shells |-> "none"]

PowerFails ==
  /\ mode # "off"
  /\ DeviceOff
  /\ Fault
  /\ torn' = (torn \/ \E s \in Shells : Resetting(s))
  /\ UNCHANGED <<flash, settings>>

\* start_node once nothing is started: the auth-key thread is started for a
\* stored auth key.
Start ==
  /\ StartNode(auth)
  /\ scrub' = IF auth = None THEN "off" ELSE "wait"
  /\ UNCHANGED settings

\* main: setup mode with the button held, without a network or before the
\* registration; otherwise normal mode, with the node.
Boot(button) ==
  /\ mode = "off"
  /\ IF button \/ nets = {} \/ ~registered
     THEN mode' = "setup" /\ UNCHANGED <<vars, settings, scrub>>
     ELSE mode' = "normal" /\ Start
  /\ UNCHANGED <<shell, torn>>

-----------------------------------------------------------------------------
(***************************************************************************)
(* The shells.  Commands that only print are left out.                     *)
(***************************************************************************)
AtPrompt(s) == mode # "off" /\ pc[s] = "home"

\* save_config of c for command o: the steps below.
Save(s, o, c) ==
  /\ cfg' = [cfg EXCEPT ![s] = c]
  /\ op' = [op EXCEPT ![s] = o]
  /\ Goto(s, "save")

Elsewhere == UNCHANGED <<vars, settings, mode, scrub, torn>>

\* set_field: hostname, port, resolution and fps; authkey.
SetField(s) ==
  /\ AtPrompt(s)
  /\ Save(s, "set", LoadConfig)
  /\ UNCHANGED changed /\ Elsewhere

SetAuthKey(s, k) ==
  /\ AtPrompt(s)
  /\ Save(s, "authkey", [LoadConfig EXCEPT !.auth = k])
  /\ UNCHANGED changed /\ Elsewhere

\* wifi forget.
WifiForget(s, n) ==
  /\ AtPrompt(s) /\ n \in LoadConfig.nets
  /\ Save(s, "wifi", [LoadConfig EXCEPT !.nets = @ \ {n}])
  /\ UNCHANGED changed /\ Elsewhere

\* set_wifi, once the connection is up: of the command wifi, or of the wizard.
SetWifi(s, n) ==
  /\ \/ AtPrompt(s) /\ Save(s, "wifi", [LoadConfig EXCEPT !.nets = @ \cup {n}])
     \/ pc[s] = "wifi"
          /\ Save(s, op[s], [LoadConfig EXCEPT !.nets = @ \cup {n}])
  /\ UNCHANGED changed /\ Elsewhere

\* wizard ...
Wizard(s, full) ==
  /\ AtPrompt(s)
  /\ op' = [op EXCEPT ![s] = IF full THEN "setup all" ELSE "setup"]
  /\ Goto(s, "wifi")
  /\ UNCHANGED <<cfg, changed>> /\ Elsewhere

\* ... the user may give up ...
WizardQuit(s) ==
  /\ pc[s] = "wifi"
  /\ Home(s) /\ Elsewhere

\* ... and after Wi-Fi comes the hostname.
WizardHost(s) ==
  /\ pc[s] = "host?"
  /\ Save(s, "hostname", LoadConfig)
  /\ UNCHANGED changed /\ Elsewhere

\* save_config reads the old configuration, then writes key by key.
SaveBegin(s) ==
  /\ pc[s] = "save"
  /\ changed' = [changed EXCEPT ![s] =
       nets = {} \/ (cfg[s].auth # None /\ auth # cfg[s].auth)]
  /\ Goto(s, "nets")
  /\ UNCHANGED <<cfg, op>> /\ Elsewhere

SaveKey(s) ==
  /\ \/ pc[s] = "nets" /\ Goto(s, "host")
          /\ nets' = cfg[s].nets /\ UNCHANGED auth
     \/ pc[s] = "host" /\ Goto(s, "auth")
          /\ UNCHANGED settings
     \/ pc[s] = "auth" /\ Goto(s, "rest")
          /\ auth' = cfg[s].auth /\ UNCHANGED nets
     \/ pc[s] = "rest" /\ Goto(s, "clear") /\ UNCHANGED settings
  /\ UNCHANGED <<cfg, changed, op, vars, mode, scrub, torn>>

\* With identity_changed the registration and the home region are removed.
SaveClear(s) ==
  /\ pc[s] = "clear"
  /\ registered' = (registered /\ ~changed[s])
  /\ derp_key' = (derp_key /\ ~changed[s])
  /\ Goto(s, "saved")
  /\ UNCHANGED <<cfg, changed, op, settings, mode, scrub, torn, node_key>>
  /\ UNCHANGED <<ctl, keys, stream, endpoints, server, bounds>>

\* A write fails: save_config returns, and the rest is not written.
SaveFails(s) ==
  /\ pc[s] \in {"nets", "host", "rest"} \/ (pc[s] = "auth" /\ cfg[s].auth # None)
  /\ Fault
  /\ IF op[s] \in {"setup", "setup all"} THEN Stay(s, "wifi") ELSE Home(s)
  /\ UNCHANGED <<flash, ctl, keys, stream, endpoints, server>>
  /\ UNCHANGED <<settings, mode, scrub, torn>>

\* The caller of save_config goes on: the wizard with the hostname, unless
\* everything is set up (there was a hostname before), then with the login.
Saved(s) ==
  /\ pc[s] = "saved"
  /\ \/ op[s] \in {"setup", "setup all"} /\ Stay(s, "host?")
     \/ op[s] = "setup" /\ registered /\ Home(s)
     \/ op[s] = "hostname" /\ Stay(s, "login")
     \/ op[s] \in {"set", "authkey", "wifi"} /\ Home(s)
  /\ Elsewhere

LoginBegin(s) ==
  /\ AtPrompt(s)
  /\ Stay(s, "login") /\ Elsewhere

\* login starts the node, which may fail, unless there is one ...
Login(s) ==
  /\ pc[s] = "login"
  /\ \/ nets = {} /\ Home(s) /\ UNCHANGED <<vars, settings, scrub>>
     \/ nets # {} /\ ctl # "off" /\ Stay(s, "wait")
          /\ UNCHANGED <<vars, settings, scrub>>
     \/ nets # {} /\ Start /\ Stay(s, "wait")
     \/ nets # {} /\ ctl = "off" /\ node_key = None /\ Fault /\ Home(s)
          /\ UNCHANGED <<flash, ctl, keys, stream, endpoints, server>>
          /\ UNCHANGED <<settings, scrub>>
  /\ UNCHANGED <<mode, torn>>

\* ... and waits until it is up or the user stops waiting.
LoginDone(s) == pc[s] = "wait" /\ Home(s) /\ Elsewhere

\* reboot.
Reboot(s) ==
  /\ AtPrompt(s)
  /\ DeviceOff
  /\ torn' = (torn \/ \E t \in Shells : Resetting(t))
  /\ UNCHANGED <<flash, settings, bounds>>

\* reset: factory_reset removes the keys in the order of ALL_KEYS ...
ResetBegin(s) ==
  /\ AtPrompt(s)
  /\ Stay(s, "rm_nets") /\ Elsewhere

ResetKey(s) ==
  /\ \/ pc[s] = "rm_nets" /\ Goto(s, "rm_auth") /\ nets' = {}
          /\ UNCHANGED <<auth, flash>>
     \/ pc[s] = "rm_auth" /\ Goto(s, "rm_key") /\ auth' = None
          /\ UNCHANGED <<nets, flash>>
     \/ pc[s] = "rm_key" /\ Goto(s, "rm_reg") /\ node_key' = None
          /\ UNCHANGED <<settings, registered, derp_key>>
     \/ pc[s] = "rm_reg" /\ Goto(s, "erase") /\ registered' = FALSE
          /\ derp_key' = FALSE /\ UNCHANGED <<settings, node_key>>
  /\ UNCHANGED <<cfg, changed, op, mode, scrub, torn>>
  /\ UNCHANGED <<ctl, keys, stream, endpoints, server, bounds>>

\* Mutant: the keys are removed and the partition is not erased.
ResetEraseSkipped(s) ==
  /\ pc[s] = "erase"
  /\ DeviceOff
  /\ torn' = FALSE
  /\ UNCHANGED <<flash, settings, bounds>>

\* ... and erases the partition.  The store is closed from then on, so that
\* nothing is written before the restart, which is part of the step.
ResetErase(s) ==
  /\ pc[s] = "erase"
  /\ nets' = {} /\ auth' = None
  /\ node_key' = None /\ registered' = FALSE /\ derp_key' = FALSE
  /\ DeviceOff
  /\ torn' = FALSE
  /\ UNCHANGED bounds

ResetFails(s) ==
  /\ pc[s] = "erase"
  /\ Goto(s, "home")
  /\ torn' = TRUE
  /\ Fault
  /\ UNCHANGED <<settings, mode, cfg, changed, op, scrub>>
  /\ UNCHANGED <<flash, ctl, keys, stream, endpoints, server>>

\* authkey-scrub: it looks every 5 s, then removes whatever key is stored.
ScrubSees ==
  /\ scrub = "wait" /\ Running
  /\ scrub' = "forget"
  /\ UNCHANGED <<vars, settings, mode, shell, torn>>

ScrubForget ==
  /\ scrub = "forget"
  /\ scrub' = "off" /\ auth' = None
  /\ UNCHANGED <<vars, nets, mode, shell, torn>>


-----------------------------------------------------------------------------
Saving(s) ==
  \/ SaveBegin(s) \/ SaveKey(s) \/ SaveClear(s) \/ Saved(s) \/ Login(s)
  \/ SaveFails(s)

Resets(s) == ResetBegin(s) \/ ResetKey(s) \/ ResetErase(s) \/ ResetFails(s)

Commands(s) ==
  \/ SetField(s) \/ WizardHost(s)
  \/ \E k \in AuthKeys : SetAuthKey(s, k)
  \/ \E n \in Ssids : SetWifi(s, n) \/ WifiForget(s, n)
  \/ \E full \in BOOLEAN : Wizard(s, full)
  \/ WizardQuit(s) \/ LoginBegin(s) \/ LoginDone(s) \/ Reboot(s)

DeviceNext ==
  \/ \E b \in BOOLEAN : Boot(b)
  \/ \E s \in Shells : Saving(s) \/ Commands(s) \/ Resets(s)
  \/ ScrubSees \/ ScrubForget
  \/ PowerFails
  \/ NodeNext /\ UNCHANGED rest

DeviceSpec == DeviceInit /\ [][DeviceNext]_deviceVars

-----------------------------------------------------------------------------
(***************************************************************************)
(* Properties.                                                             *)
(***************************************************************************)

\* A factory reset is under way, or one was cut off.
ResetInFlash == torn \/ \E s \in Shells : Resetting(s)

(***************************************************************************)
(* Whatever the shells write and wherever the power fails: while the node  *)
(* is up, the key it uses is the one in the flash, and the device comes    *)
(* back as the same node.                                                  *)
(***************************************************************************)
IdentitySurvives == ~ResetInFlash => SameIdentity

(***************************************************************************)
(* The registration mark never lies, although save_config, factory_reset,  *)
(* the rotation and the control loop write it and the key next to it       *)
(* without a common lock: main boots into normal mode on it.               *)
(***************************************************************************)
MarkIsTrue == ~ResetInFlash => RegisteredIsKnown

(***************************************************************************)
(* Both, in the presence of everyone who writes the flash (nvs_store.rs,   *)
(* platform.rs, shell.rs, node.rs).                                        *)
(***************************************************************************)
FlashInv == DeviceTypeOK /\ IdentitySurvives /\ MarkIsTrue

\* What makes it inductive: NodeInv, in which a reset that is not over may
\* leave anything in the flash.
DeviceInv ==
  /\ DeviceTypeOK /\ KeysHeld
  /\ ~ResetInFlash => FlashFollows /\ MarkFollows /\ RegisteredIsKnown
=============================================================================
