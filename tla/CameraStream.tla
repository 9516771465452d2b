---------------------------- MODULE CameraStream ----------------------------
(***************************************************************************)
(* The USB camera of the firmware (firmware/src/camera.rs): the stream     *)
(* handle and the in-use protocol that guards it, the on-demand stream,    *)
(* the latest-frame buffer and the lock order of the mutexes around them.  *)
(*                                                                         *)
(* Actors: the UVC driver task, which runs the three callbacks one at a    *)
(* time; the camera-open thread; the camera-idle thread; and the clients   *)
(* (the HTTP server thread and the UART shell), which take snapshots,      *)
(* issue control requests and print the status line.  A critical section   *)
(* is one step; where the code takes one mutex while it holds another the  *)
(* outer mutex is a variable.                                              *)
(***************************************************************************)
EXTENDS Naturals, FiniteSets

CONSTANTS
  Clients,      \* threads that call snapshot, apply_settings and describe
  Describers,   \* the clients that also print the status line
  OpenThread,   \* the camera-open thread
  IdleThread,   \* the camera-idle thread
  Handles,      \* addresses the driver can return for a stream
  NoHandle,
  Cameras,      \* kinds of device that can be plugged in
  Mjpeg,        \* those of them that offer an MJPEG format
  AddrOf,       \* the USB address a device of that kind enumerates at
  NoCamera,
  NoThread,
  Warmup,       \* WARMUP_FRAMES
  Skips,        \* values of snapshot's skip
  FpsTries,     \* entries of fps_candidates
  MaxPlugs,     \* bound on how often a device is plugged in
  MaxSeq        \* bound on the frames stored between two opens

Threads == Clients \cup {OpenThread, IdleThread}

ASSUME CameraAssumption ==
  /\ Describers \subseteq Clients
  /\ OpenThread \notin Clients /\ IdleThread \notin Clients
  /\ OpenThread # IdleThread
  /\ NoHandle \notin Handles
  /\ NoCamera \notin Cameras
  /\ NoThread \notin Threads
  /\ Mjpeg \subseteq Cameras
  /\ AddrOf \in [Cameras -> Nat]
  /\ Warmup \in Nat /\ Skips \subseteq Nat
  /\ \E m \in Skips \cup {0} : \A s \in Skips : s <= m
  /\ FpsTries \in Nat \ {0}
  /\ MaxPlugs \in Nat /\ MaxSeq \in Nat

VARIABLES
  \* The port and the driver (external).
  plug,           \* the device on the port
  plugs,          \* how often one was plugged in
  opened,         \* stream handles the driver has open
  live,           \* the open handle whose device is on the port
  streaming,      \* the handle the driver delivers frames for
  sent,           \* frames delivered since it started, up to Warmup
  \* struct DevState, under the dev mutex.
  handle, in_use, pending_close, running,
  frames,         \* up to Warmup: larger values are not told apart
  \* The rest of struct Inner.
  seq,            \* Frame.seq
  connected, attached, vc,
  quiet,          \* last_request is more than IDLE_STOP ago
  conn_lock, dev_lock,   \* mutexes held while another one is taken
  \* The driver task.
  drv, drv_hdl,
  drv_warm,       \* history: its frame is one of the stream's first Warmup
  \* The other threads: program counter and locals.
  pc, hdl, op,
  target, tries,  \* open_loop: the camera it opens, fps candidates left
  start, skip,    \* snapshot: start_seq and skip
  got             \* history: frames stored since the snapshot read seq

port == <<plug, plugs, opened, live, streaming, sent>>
dev == <<handle, in_use, pending_close, running, frames>>
buffer == <<seq>>
flags == <<connected, attached, vc, quiet>>
locks == <<conn_lock, dev_lock>>
task == <<drv, drv_hdl, drv_warm>>
locals == <<pc, hdl, op, target, tries, start, skip, got>>
vars == <<port, dev, buffer, flags, locks, task, locals>>

-----------------------------------------------------------------------------
(***************************************************************************)
(* Types and the initial state (Camera::start).                            *)
(***************************************************************************)
PcValues == {"home", "scan", "begin", "opening", "opened", "drop", "seq0",
             "attach", "vc", "reapply", "check", "stopped", "seq", "ensure",
             "started", "wait", "desc", "acquire", "call", "retok", "reterr",
             "close"}

DrvValues == {"idle", "conn", "disc1", "disc2", "disc3", "disc4", "close",
              "frame"}

SkipCap == 1 + (CHOOSE m \in Skips \cup {0} : \A s \in Skips : s <= m)

PortType ==
  /\ plug \in Cameras \cup {NoCamera} /\ plugs \in 0..MaxPlugs
  /\ opened \subseteq Handles
  /\ live \in Handles \cup {NoHandle}
  /\ streaming \in Handles \cup {NoHandle}
  /\ sent \in 0..Warmup

DevType ==
  /\ handle \in Handles \cup {NoHandle}
  /\ in_use \in BOOLEAN /\ pending_close \in BOOLEAN /\ running \in BOOLEAN
  /\ frames \in 0..Warmup

SharedType ==
  /\ seq \in Nat
  /\ connected \in Cameras \cup {NoCamera}
  /\ attached \in BOOLEAN /\ vc \in BOOLEAN /\ quiet \in BOOLEAN
  /\ conn_lock \in {NoThread, OpenThread}
  /\ dev_lock \in {NoThread} \cup Clients
  /\ drv \in DrvValues /\ drv_hdl \in Handles \cup {NoHandle}
  /\ drv_warm \in BOOLEAN

LocalsType ==
  /\ pc \in [Threads -> PcValues]
  /\ hdl \in [Threads -> Handles \cup {NoHandle}]
  /\ op \in [Threads -> {"none", "start", "stop", "ctrl"}]
  /\ target \in Cameras \cup {NoCamera} /\ tries \in 0..FpsTries
  /\ start \in [Clients -> Nat]
  /\ skip \in [Clients -> Nat]
  /\ got \in [Clients -> Nat]

TypeOK == PortType /\ DevType /\ SharedType /\ LocalsType

Init ==
  /\ plug = NoCamera /\ plugs = 0
  /\ opened = {} /\ live = NoHandle
  /\ streaming = NoHandle /\ sent = 0
  /\ handle = NoHandle
  /\ in_use = FALSE /\ pending_close = FALSE /\ running = FALSE
  /\ frames = 0
  /\ seq = 0
  /\ connected = NoCamera /\ attached = FALSE /\ vc = FALSE
  /\ quiet = FALSE
  /\ conn_lock = NoThread /\ dev_lock = NoThread
  /\ drv = "idle" /\ drv_hdl = NoHandle /\ drv_warm = FALSE
  /\ pc = [t \in Threads |-> "home"]
  /\ hdl = [t \in Threads |-> NoHandle]
  /\ op = [t \in Threads |-> "none"]
  /\ target = NoCamera /\ tries = 0
  /\ start = [c \in Clients |-> 0]
  /\ skip = [c \in Clients |-> 0]
  /\ got = [c \in Clients |-> 0]

\* Thread t moves to l and keeps every local.
Goto(t, l) ==
  /\ pc' = [pc EXCEPT ![t] = l]
  /\ UNCHANGED <<hdl, op, target, tries, start, skip, got>>

\* Thread t leaves its operation; its locals go out of scope.
Return(t) ==
  /\ pc' = [pc EXCEPT ![t] = "home"]
  /\ hdl' = [hdl EXCEPT ![t] = NoHandle]
  /\ op' = [op EXCEPT ![t] = "none"]
  /\ start' = [c \in Clients |-> IF c = t THEN 0 ELSE start[c]]
  /\ skip' = [c \in Clients |-> IF c = t THEN 0 ELSE skip[c]]
  /\ got' = [c \in Clients |-> IF c = t THEN 0 ELSE got[c]]
  /\ UNCHANGED <<target, tries>>

-----------------------------------------------------------------------------
(***************************************************************************)
(* The driver's own operations (usb_host_uvc, external).                   *)
(***************************************************************************)

\* uvc_host_stream_close: the handle is freed, its transfers stop.
DriverClose(h) ==
  /\ opened' = opened \ {h}
  /\ live' = IF live = h THEN NoHandle ELSE live
  /\ streaming' = IF streaming = h THEN NoHandle ELSE streaming
  /\ UNCHANGED <<plug, plugs, sent>>

\* uvc_host_stream_start: OK, or OK by ESP_ERR_INVALID_STATE on a stream
\* that is running already.
DriverStart(h) ==
  /\ h = live
  /\ streaming' = h
  /\ sent' = IF streaming = h THEN sent ELSE 0
  /\ UNCHANGED <<plug, plugs, opened, live>>

\* uvc_host_stream_stop.
DriverStop(h) ==
  /\ streaming' = IF streaming = h THEN NoHandle ELSE streaming
  /\ UNCHANGED <<plug, plugs, opened, live, sent>>

\* A device is plugged in and enumerated: the driver task enters
\* driver_event_cb.
Plug(k) ==
  /\ plug = NoCamera /\ plugs < MaxPlugs /\ drv = "idle"
  /\ plug' = k /\ plugs' = plugs + 1
  /\ drv' = "conn"
  /\ UNCHANGED <<opened, live, streaming, sent, drv_hdl, drv_warm,
                 dev, buffer, flags, locks, locals>>

\* The device leaves.  Its stream events go to the callback its stream was
\* opened with, so only an open stream reports it; a stream being opened
\* may report it or just fail to open.
Unplug(reported) ==
  /\ plug # NoCamera /\ drv = "idle"
  /\ \/ live # NoHandle /\ reported
     \/ live = NoHandle /\ pc[OpenThread] = "opening"
     \/ live = NoHandle /\ ~reported
  /\ plug' = NoCamera
  /\ live' = NoHandle /\ streaming' = NoHandle
  /\ drv' = IF reported THEN "disc1" ELSE "idle"
  /\ UNCHANGED <<plugs, opened, sent, drv_hdl, drv_warm,
                 dev, buffer, flags, locks, locals>>

-----------------------------------------------------------------------------
(***************************************************************************)
(* Callbacks, on the driver task.                                          *)
(***************************************************************************)

\* driver_event_cb: only the first function announced is remembered.
DeviceConnected ==
  /\ drv = "conn" /\ conn_lock = NoThread
  /\ connected' = IF connected = NoCamera THEN plug ELSE connected
  /\ drv' = "idle"
  /\ UNCHANGED <<port, dev, buffer, attached, vc, quiet, locks, drv_hdl,
                 drv_warm, locals>>

\* stream_event_cb, DEVICE_DISCONNECTED, one mutex after the other.
DisconnectAttached ==
  /\ drv = "disc1"
  /\ attached' = FALSE
  /\ drv' = "disc2"
  /\ UNCHANGED <<port, dev, buffer, connected, vc, quiet, locks, drv_hdl,
                 drv_warm, locals>>

DisconnectConnected ==
  /\ drv = "disc2" /\ conn_lock = NoThread
  /\ connected' = NoCamera
  /\ drv' = "disc3"
  /\ UNCHANGED <<port, dev, buffer, attached, vc, quiet, locks, drv_hdl,
                 drv_warm, locals>>

DisconnectVc ==
  /\ drv = "disc3"
  /\ vc' = FALSE
  /\ drv' = "disc4"
  /\ UNCHANGED <<port, dev, buffer, connected, attached, quiet, locks,
                 drv_hdl, drv_warm, locals>>

\* Mutant: the handle is closed although a thread is calling into it.
DisconnectDevUnguarded ==
  /\ drv = "disc4" /\ dev_lock = NoThread
  /\ running' = FALSE
  /\ drv_hdl' = handle /\ handle' = NoHandle
  /\ drv' = IF handle = NoHandle THEN "idle" ELSE "close"
  /\ UNCHANGED <<port, pending_close, in_use, frames, buffer, flags, locks,
                 drv_warm, locals>>

\* The close is left to the thread that is calling into the driver, if any.
DisconnectDev ==
  /\ drv = "disc4" /\ dev_lock = NoThread
  /\ running' = FALSE
  /\ \/ /\ in_use
        /\ pending_close' = TRUE
        /\ drv' = "idle"
        /\ UNCHANGED <<handle, drv_hdl>>
     \/ /\ ~in_use /\ handle # NoHandle
        /\ drv_hdl' = handle /\ handle' = NoHandle
        /\ drv' = "close"
        /\ UNCHANGED pending_close
     \/ /\ ~in_use /\ handle = NoHandle
        /\ drv' = "idle"
        /\ UNCHANGED <<handle, drv_hdl, pending_close>>
  /\ UNCHANGED <<port, in_use, frames, buffer, flags, locks, drv_warm, locals>>

DisconnectClose ==
  /\ drv = "close"
  /\ DriverClose(drv_hdl)
  /\ drv' = "idle" /\ drv_hdl' = NoHandle
  /\ UNCHANGED <<dev, buffer, flags, locks, drv_warm, locals>>

\* Mutant: the last frame of the warm-up goes on.
FrameCountShort(short) ==
  /\ drv = "idle" /\ streaming # NoHandle /\ dev_lock = NoThread
  /\ seq < MaxSeq
  /\ frames' = IF frames < Warmup THEN frames + 1 ELSE frames
  /\ sent' = IF sent < Warmup THEN sent + 1 ELSE sent
  /\ IF frames + 1 < Warmup \/ short
     THEN UNCHANGED <<drv, drv_warm>>
     ELSE drv' = "frame" /\ drv_warm' = (sent < Warmup)
  /\ UNCHANGED <<plug, plugs, opened, live, streaming, handle, in_use,
                 pending_close, running, buffer, flags, locks, drv_hdl, locals>>

\* frame_cb, first mutex: count the frame; the first Warmup ones and a frame
\* shorter than 4 bytes go no further.
FrameCount(short) ==
  /\ drv = "idle" /\ streaming # NoHandle /\ dev_lock = NoThread
  /\ seq < MaxSeq
  /\ frames' = IF frames < Warmup THEN frames + 1 ELSE frames
  /\ sent' = IF sent < Warmup THEN sent + 1 ELSE sent
  /\ IF frames < Warmup \/ short
     THEN UNCHANGED <<drv, drv_warm>>
     ELSE drv' = "frame" /\ drv_warm' = (sent < Warmup)
  /\ UNCHANGED <<plug, plugs, opened, live, streaming, handle, in_use,
                 pending_close, running, buffer, flags, locks, drv_hdl, locals>>

\* frame_cb, second mutex: store the frame.
FrameStore ==
  /\ drv = "frame"
  /\ seq' = seq + 1
  /\ drv' = "idle" /\ drv_warm' = FALSE
  /\ got' = [c \in Clients |->
               IF pc[c] # "seq" /\ op[c] = "start" /\ got[c] < SkipCap
               THEN got[c] + 1 ELSE got[c]]
  /\ UNCHANGED <<port, dev, flags, locks, drv_hdl, pc, hdl, op, target,
                 tries, start, skip>>

-----------------------------------------------------------------------------
(***************************************************************************)
(* with_handle: the in-use protocol around a driver call.                  *)
(***************************************************************************)

\* "camera busy" or "no camera attached".
AcquireFails(t) ==
  /\ pc[t] = "acquire" /\ dev_lock = NoThread
  /\ in_use \/ handle = NoHandle
  /\ Return(t)
  /\ UNCHANGED <<port, dev, buffer, flags, locks, task>>

\* Mutant: in_use is not looked at.
AcquireUnguarded(t) ==
  /\ pc[t] = "acquire" /\ dev_lock = NoThread
  /\ handle # NoHandle
  /\ in_use' = TRUE
  /\ hdl' = [hdl EXCEPT ![t] = handle]
  /\ pc' = [pc EXCEPT ![t] = "call"]
  /\ UNCHANGED <<port, handle, pending_close, running, frames, buffer, flags,
                 locks, task, op, target, tries, start, skip, got>>

Acquire(t) ==
  /\ pc[t] = "acquire" /\ dev_lock = NoThread
  /\ ~in_use /\ handle # NoHandle
  /\ in_use' = TRUE
  /\ hdl' = [hdl EXCEPT ![t] = handle]
  /\ pc' = [pc EXCEPT ![t] = "call"]
  /\ UNCHANGED <<port, handle, pending_close, running, frames, buffer, flags,
                 locks, task, op, target, tries, start, skip, got>>

\* The driver call on the handle: uvc_host_stream_start or _stop, or a
\* class request.  A stop that fails is only logged: with_handle returns Ok.
Call(t) ==
  /\ pc[t] = "call"
  /\ \/ op[t] = "start" /\ DriverStart(hdl[t]) /\ Goto(t, "retok")
     \/ op[t] = "stop" /\ DriverStop(hdl[t]) /\ Goto(t, "retok")
     \/ op[t] = "stop" /\ UNCHANGED port /\ Goto(t, "retok")
     \/ op[t] = "ctrl" /\ UNCHANGED port /\ Goto(t, "retok")
     \/ op[t] # "stop" /\ UNCHANGED port /\ Goto(t, "reterr")
  /\ UNCHANGED <<dev, buffer, flags, locks, task>>

\* Mutant: the handle closed on behalf of a disconnect stays in DevState.
ReleaseKeepsHandle(t) ==
  /\ pc[t] \in {"retok", "reterr"} /\ dev_lock = NoThread
  /\ in_use' = FALSE
  /\ \/ /\ pending_close
        /\ pending_close' = FALSE /\ running' = FALSE
        /\ Goto(t, "close")
     \/ /\ ~pending_close
        /\ \/ pc[t] = "retok" /\ op[t] = "start" /\ Goto(t, "started")
           \/ pc[t] = "retok" /\ op[t] = "stop" /\ Goto(t, "stopped")
           \/ (pc[t] = "reterr" \/ op[t] = "ctrl") /\ Return(t)
        /\ UNCHANGED <<pending_close, running>>
  /\ UNCHANGED <<port, handle, frames, buffer, flags, locks, task>>

\* The second critical section: perform the close a disconnect left to us.
Release(t) ==
  /\ pc[t] \in {"retok", "reterr"} /\ dev_lock = NoThread
  /\ in_use' = FALSE
  /\ \/ /\ pending_close
        /\ pending_close' = FALSE /\ handle' = NoHandle /\ running' = FALSE
        /\ Goto(t, "close")
     \/ /\ ~pending_close
        /\ \/ pc[t] = "retok" /\ op[t] = "start" /\ Goto(t, "started")
           \/ pc[t] = "retok" /\ op[t] = "stop" /\ Goto(t, "stopped")
           \/ (pc[t] = "reterr" \/ op[t] = "ctrl") /\ Return(t)
        /\ UNCHANGED <<pending_close, handle, running>>
  /\ UNCHANGED <<port, frames, buffer, flags, locks, task>>

Close(t) ==
  /\ pc[t] = "close"
  /\ DriverClose(hdl[t])
  /\ Return(t)
  /\ UNCHANGED <<dev, buffer, flags, locks, task>>

-----------------------------------------------------------------------------
(***************************************************************************)
(* The camera-open thread.                                                 *)
(***************************************************************************)

\* open_loop: take the connected mutex (the first wait or a wake-up).
OpenLock ==
  /\ pc[OpenThread] = "home" /\ conn_lock = NoThread
  /\ conn_lock' = OpenThread
  /\ Goto(OpenThread, "scan")
  /\ UNCHANGED <<port, dev, buffer, flags, dev_lock, task>>

\* With connected held, look at dev.handle; wait again, give up on a camera
\* without MJPEG (choose_format), or go on to open it.
OpenScan ==
  /\ pc[OpenThread] = "scan" /\ dev_lock = NoThread
  /\ conn_lock' = NoThread
  /\ IF connected \in Mjpeg /\ handle = NoHandle
     THEN /\ pc' = [pc EXCEPT ![OpenThread] = "begin"]
          /\ target' = connected /\ tries' = FpsTries
          /\ UNCHANGED <<hdl, op, start, skip, got>>
     ELSE Goto(OpenThread, "home")
  /\ UNCHANGED <<port, dev, buffer, flags, dev_lock, task>>

\* open_with, before the driver call.  `connected` may have been cleared
\* since; the address it named is what the driver is asked for.
OpenBegin ==
  /\ pc[OpenThread] = "begin" /\ dev_lock = NoThread
  /\ in_use' = TRUE /\ pending_close' = FALSE
  /\ Goto(OpenThread, "opening")
  /\ UNCHANGED <<port, handle, running, frames, buffer, flags, locks, task>>

\* uvc_host_stream_open: a handle, if the address still answers ...
OpenSucceeds(h) ==
  /\ pc[OpenThread] = "opening"
  /\ plug # NoCamera /\ AddrOf[plug] = AddrOf[target]
  /\ h \notin opened
  /\ opened' = opened \cup {h} /\ live' = h
  /\ hdl' = [hdl EXCEPT ![OpenThread] = h]
  /\ pc' = [pc EXCEPT ![OpenThread] = "opened"]
  /\ UNCHANGED <<plug, plugs, streaming, sent, dev, buffer, flags, locks,
                 task, op, target, tries, start, skip, got>>

\* ... or an error.
OpenFails ==
  /\ pc[OpenThread] = "opening"
  /\ Goto(OpenThread, "opened")
  /\ UNCHANGED <<port, dev, buffer, flags, locks, task>>

\* Mutant: try_open does not notice that the candidates are used up.
NextCandidateForever ==
  /\ pc' = [pc EXCEPT ![OpenThread] = "begin"]
  /\ tries' = tries - 1
  /\ hdl' = [hdl EXCEPT ![OpenThread] = NoHandle]
  /\ UNCHANGED <<target, op, start, skip, got>>

\* The error return of open_with: try_open's next fps candidate, or back to
\* open_loop.
NextCandidate ==
  /\ pc' = [pc EXCEPT ![OpenThread] = IF tries > 1 THEN "begin" ELSE "home"]
  /\ tries' = tries - 1
  /\ target' = IF tries > 1 THEN target ELSE NoCamera
  /\ hdl' = [hdl EXCEPT ![OpenThread] = NoHandle]
  /\ UNCHANGED <<op, start, skip, got>>

\* open_with, after the driver call.
OpenFinish ==
  /\ pc[OpenThread] = "opened" /\ dev_lock = NoThread
  /\ in_use' = FALSE
  /\ \/ /\ hdl[OpenThread] = NoHandle
        /\ pending_close' = FALSE
        /\ NextCandidate
        /\ UNCHANGED <<handle, running, frames>>
     \/ /\ hdl[OpenThread] # NoHandle /\ pending_close
        /\ pending_close' = FALSE
        /\ Goto(OpenThread, "drop")
        /\ UNCHANGED <<handle, running, frames>>
     \/ /\ hdl[OpenThread] # NoHandle /\ ~pending_close
        /\ handle' = hdl[OpenThread] /\ running' = FALSE /\ frames' = 0
        /\ hdl' = [hdl EXCEPT ![OpenThread] = NoHandle]
        /\ pc' = [pc EXCEPT ![OpenThread] = "seq0"]
        /\ target' = NoCamera /\ tries' = 0
        /\ UNCHANGED <<pending_close, op, start, skip, got>>
  /\ UNCHANGED <<port, buffer, flags, locks, task>>

\* "device left during open".
OpenDrop ==
  /\ pc[OpenThread] = "drop"
  /\ DriverClose(hdl[OpenThread])
  /\ NextCandidate
  /\ UNCHANGED <<dev, buffer, flags, locks, task>>

\* The rest of open_with runs without the dev mutex.
OpenResetSeq ==
  /\ pc[OpenThread] = "seq0"
  /\ seq' = 0
  /\ Goto(OpenThread, "attach")
  /\ UNCHANGED <<port, dev, flags, locks, task>>

OpenAttach ==
  /\ pc[OpenThread] = "attach"
  /\ attached' = TRUE
  /\ Goto(OpenThread, "vc")
  /\ UNCHANGED <<port, dev, buffer, connected, vc, quiet, locks, task>>

\* read_config_descriptor and parse_vc: found or not.
OpenVc(found) ==
  /\ pc[OpenThread] = "vc"
  /\ vc' = found
  /\ Goto(OpenThread, "reapply")
  /\ UNCHANGED <<port, dev, buffer, connected, attached, quiet, locks, task>>

\* apply_settings(saved), a class request at a time, or nothing saved.
OpenReapply ==
  /\ pc[OpenThread] = "reapply"
  /\ \/ Return(OpenThread)
     \/ /\ attached /\ vc
        /\ pc' = [pc EXCEPT ![OpenThread] = "acquire"]
        /\ op' = [op EXCEPT ![OpenThread] = "ctrl"]
        /\ UNCHANGED <<hdl, target, tries, start, skip, got>>
  /\ UNCHANGED <<port, dev, buffer, flags, locks, task>>

-----------------------------------------------------------------------------
(***************************************************************************)
(* The camera-idle thread.                                                 *)
(***************************************************************************)

\* idle_loop, once a second: read running ...
IdleTick ==
  /\ pc[IdleThread] = "home" /\ dev_lock = NoThread
  /\ running
  /\ Goto(IdleThread, "check")
  /\ UNCHANGED <<port, dev, buffer, flags, locks, task>>

\* ... then last_request; stop_streaming.
IdleCheck ==
  /\ pc[IdleThread] = "check"
  /\ IF quiet
     THEN /\ pc' = [pc EXCEPT ![IdleThread] = "acquire"]
          /\ op' = [op EXCEPT ![IdleThread] = "stop"]
          /\ UNCHANGED <<hdl, target, tries, start, skip, got>>
     ELSE Return(IdleThread)
  /\ UNCHANGED <<port, dev, buffer, flags, locks, task>>

\* stop_streaming, after with_handle returned Ok.
IdleStopped ==
  /\ pc[IdleThread] = "stopped" /\ dev_lock = NoThread
  /\ running' = FALSE
  /\ Return(IdleThread)
  /\ UNCHANGED <<port, handle, in_use, pending_close, frames, buffer, flags,
                 locks, task>>

\* IDLE_STOP passes without a request.
IdleElapse ==
  /\ ~quiet
  /\ quiet' = TRUE
  /\ UNCHANGED <<port, dev, buffer, connected, attached, vc, locks, task,
                 locals>>

-----------------------------------------------------------------------------
(***************************************************************************)
(* Clients.                                                                *)
(***************************************************************************)

\* snapshot: with a camera attached, stamp last_request.
SnapBegin(c, n) ==
  /\ pc[c] = "home"
  /\ attached
  /\ quiet' = FALSE
  /\ pc' = [pc EXCEPT ![c] = "seq"]
  /\ op' = [op EXCEPT ![c] = "start"]
  /\ skip' = [skip EXCEPT ![c] = n]
  /\ UNCHANGED <<port, dev, buffer, connected, attached, vc, locks, task,
                 hdl, target, tries, start, got>>

SnapSeq(c) ==
  /\ pc[c] = "seq"
  /\ start' = [start EXCEPT ![c] = seq]
  /\ pc' = [pc EXCEPT ![c] = "ensure"]
  /\ UNCHANGED <<port, dev, buffer, flags, locks, task, hdl, op, target,
                 tries, skip, got>>

\* ensure_streaming: nothing to do while the stream runs.
EnsureStreaming(c) ==
  /\ pc[c] = "ensure" /\ dev_lock = NoThread
  /\ Goto(c, IF running THEN "wait" ELSE "acquire")
  /\ UNCHANGED <<port, dev, buffer, flags, locks, task>>

\* Mutant: running is set whether or not there still is a stream.
StreamStartedBlindly(c) ==
  /\ pc[c] = "started" /\ dev_lock = NoThread
  /\ running' = TRUE /\ frames' = 0
  /\ pc' = [pc EXCEPT ![c] = "wait"]
  /\ hdl' = [hdl EXCEPT ![c] = NoHandle]
  /\ UNCHANGED <<port, handle, in_use, pending_close, buffer, flags, locks,
                 task, op, target, tries, start, skip, got>>

\* ensure_streaming, after with_handle returned Ok.
StreamStarted(c) ==
  /\ pc[c] = "started" /\ dev_lock = NoThread
  /\ IF handle # NoHandle
     THEN running' = TRUE /\ frames' = 0
     ELSE UNCHANGED <<running, frames>>
  /\ pc' = [pc EXCEPT ![c] = "wait"]
  /\ hdl' = [hdl EXCEPT ![c] = NoHandle]
  /\ UNCHANGED <<port, handle, in_use, pending_close, buffer, flags, locks,
                 task, op, target, tries, start, skip, got>>

\* Mutant: the frame stored before the call is good enough.
SnapReturnEarly(c) ==
  /\ pc[c] = "wait"
  /\ seq >= start[c] + skip[c]
  /\ Return(c)
  /\ UNCHANGED <<port, dev, buffer, flags, locks, task>>

\* snapshot's wait loop: a frame ...
SnapReturn(c) ==
  /\ pc[c] = "wait"
  /\ seq > start[c] + skip[c]
  /\ Return(c)
  /\ UNCHANGED <<port, dev, buffer, flags, locks, task>>

\* ... "camera detached", or "no frame within 8s" at the deadline.
SnapFails(c) ==
  /\ pc[c] = "wait"
  /\ ~(seq > start[c] + skip[c])
  /\ Return(c)
  /\ UNCHANGED <<port, dev, buffer, flags, locks, task>>

\* apply_settings and controls_json: one class request of it.
CtrlBegin(c) ==
  /\ pc[c] = "home"
  /\ attached /\ vc
  /\ pc' = [pc EXCEPT ![c] = "acquire"]
  /\ op' = [op EXCEPT ![c] = "ctrl"]
  /\ UNCHANGED <<port, dev, buffer, flags, locks, task, hdl, target, tries,
                 start, skip, got>>

\* describe: takes dev and, with no camera attached, connected inside it.
DescribeLock(c) ==
  /\ pc[c] = "home" /\ dev_lock = NoThread
  /\ ~attached
  /\ dev_lock' = c
  /\ Goto(c, "desc")
  /\ UNCHANGED <<port, dev, buffer, flags, conn_lock, task>>

DescribeUnlock(c) ==
  /\ pc[c] = "desc" /\ conn_lock = NoThread
  /\ dev_lock' = NoThread
  /\ Goto(c, "home")
  /\ UNCHANGED <<port, dev, buffer, flags, conn_lock, task>>

-----------------------------------------------------------------------------
Environment ==
  \/ \E k \in Cameras : Plug(k)
  \/ \E r \in BOOLEAN : Unplug(r)
  \/ IdleElapse

DriverTask ==
  \/ DeviceConnected
  \/ DisconnectAttached \/ DisconnectConnected \/ DisconnectVc
  \/ DisconnectDev \/ DisconnectClose
  \/ FrameStore

Frames == \E b \in BOOLEAN : FrameCount(b)

WithHandle(t) == AcquireFails(t) \/ Acquire(t) \/ Call(t) \/ Release(t) \/ Close(t)

OpenStep ==
  \/ OpenLock \/ OpenScan \/ OpenBegin
  \/ OpenFails \/ OpenFinish \/ OpenDrop
  \/ OpenResetSeq \/ OpenAttach \/ OpenReapply
  \/ \E h \in Handles : OpenSucceeds(h)
  \/ \E b \in BOOLEAN : OpenVc(b)

IdleStep == IdleTick \/ IdleCheck \/ IdleStopped

\* Steps that end an operation under way ...
ClientStep(c) ==
  \/ SnapSeq(c) \/ EnsureStreaming(c) \/ StreamStarted(c)
  \/ SnapReturn(c) \/ SnapFails(c)
  \/ DescribeUnlock(c)

\* ... and those that begin one.
ClientBegin(c) ==
  \/ \E n \in Skips : SnapBegin(c, n)
  \/ CtrlBegin(c)
  \/ c \in Describers /\ DescribeLock(c)

Next ==
  \/ Environment
  \/ DriverTask \/ Frames
  \/ \E t \in Threads : WithHandle(t)
  \/ OpenStep
  \/ IdleStep
  \/ \E c \in Clients : ClientStep(c) \/ ClientBegin(c)

Spec == Init /\ [][Next]_vars

(***************************************************************************)
(* Every thread keeps running and driver calls return; a thread that waits *)
(* for a mutex that is released over and over gets it; a start or an open  *)
(* that can succeed over and over does succeed.  Requests and cables are   *)
(* never forced.                                                           *)
(***************************************************************************)
Fairness ==
  /\ SF_vars(DriverTask)
  /\ SF_vars(OpenStep \/ WithHandle(OpenThread))
  /\ SF_vars(\E h \in Handles : OpenSucceeds(h))
  /\ SF_vars(IdleStep \/ WithHandle(IdleThread)) /\ WF_vars(IdleElapse)
  /\ \A c \in Clients : SF_vars(ClientStep(c) \/ WithHandle(c))

FairSpec == Spec /\ Fairness

-----------------------------------------------------------------------------
(***************************************************************************)
(* Properties.                                                             *)
(***************************************************************************)

\* Thread t is between the two critical sections of with_handle.
InCall(t) == pc[t] \in {"call", "retok", "reterr"}

\* The open thread is between the two critical sections of open_with.
Opening == pc[OpenThread] \in {"opening", "opened"}

\* Thread t is about to call uvc_host_stream_close on its own copy.
Closing(t) == pc[t] \in {"close", "drop"}

(***************************************************************************)
(* The promise of the comment on DevState ("must not close a handle        *)
(* another thread is calling into"): a thread calling into the driver      *)
(* holds the current handle, that handle is open, and nobody is about to   *)
(* close it, whatever cable, callback and client do in between.            *)
(***************************************************************************)
NoCallOnClosedHandle ==
  \A t \in Threads : InCall(t) =>
    /\ hdl[t] \in opened
    /\ \A u \in Threads : Closing(u) => hdl[u] # hdl[t]
    /\ drv = "close" => drv_hdl # hdl[t]

(***************************************************************************)
(* Each open stream is closed exactly once: a handle about to be closed is *)
(* still open, no second thread is about to close it, and with_handle can  *)
(* no longer hand it out.                                                  *)
(***************************************************************************)
ClosedOnce ==
  /\ \A t \in Threads : Closing(t) =>
       /\ hdl[t] \in opened
       /\ hdl[t] # handle
       /\ \A u \in Threads \ {t} : Closing(u) => hdl[u] # hdl[t]
       /\ drv = "close" => drv_hdl # hdl[t]
  /\ drv = "close" => drv_hdl \in opened /\ drv_hdl # handle

(***************************************************************************)
(* No stream is leaked: each one the driver has open is the current one,   *)
(* or in the hands of the thread that opened it or will close it.          *)
(***************************************************************************)
NoLeakedHandle ==
  \A h \in opened :
    \/ h = handle
    \/ \E t \in Threads : pc[t] \in {"opened", "close", "drop"} /\ hdl[t] = h
    \/ drv = "close" /\ drv_hdl = h

(***************************************************************************)
(* in_use serialises the driver calls: at most one thread is inside        *)
(* with_handle's call or open_with's, and in_use says so.                  *)
(***************************************************************************)
CallsExclusive ==
  /\ in_use <=> Opening \/ \E t \in Threads : InCall(t)
  /\ \A t, u \in Threads : InCall(t) /\ InCall(u) => t = u
  /\ Opening => \A t \in Threads : ~InCall(t)

(***************************************************************************)
(* A close left to another thread is never forgotten: pending_close stays  *)
(* set only while a driver call that will perform it is under way.         *)
(***************************************************************************)
PendingCloseHasOwner == pending_close => in_use

\* Program counters of open_with: only the open thread is at these.
OpenPcs == {"scan", "begin", "opening", "opened", "drop", "seq0", "attach",
            "vc", "reapply"}

\* Thread t has a handle of its own, not (yet, or any longer) in DevState.
Owns(t) == Closing(t) \/ (pc[t] = "opened" /\ hdl[t] # NoHandle)

(***************************************************************************)
(* The inductive invariant behind the five properties above: the current   *)
(* handle is open; a call under way is on the current handle; the handles  *)
(* threads own are open, pairwise different and not the current one; there *)
(* is no current handle while the open thread is opening one.              *)
(***************************************************************************)
HandleInv ==
  /\ handle \in opened \cup {NoHandle}
  /\ \A t \in Threads : InCall(t) => handle # NoHandle /\ hdl[t] = handle
  /\ \A t \in Threads : Owns(t) => hdl[t] \in opened /\ hdl[t] # handle
  /\ \A t, u \in Threads : Owns(t) /\ Owns(u) /\ t # u => hdl[t] # hdl[u]
  /\ drv = "close" =>
       /\ drv_hdl \in opened /\ drv_hdl # handle
       /\ \A t \in Threads : Owns(t) => hdl[t] # drv_hdl
  /\ CallsExclusive
  /\ PendingCloseHasOwner
  /\ NoLeakedHandle
  /\ pc[OpenThread] \in {"begin", "opening", "opened", "drop"} =>
       handle = NoHandle /\ tries > 0
  /\ pc[OpenThread] \in {"home", "scan", "begin", "opening"} =>
       hdl[OpenThread] = NoHandle
  /\ \A t \in Threads \ {OpenThread} : pc[t] \notin OpenPcs

(***************************************************************************)
(* Which thread performs which operation, and where it is then.            *)
(***************************************************************************)
OpsInv ==
  /\ op[OpenThread] \in {"none", "ctrl"}
  /\ op[IdleThread] \in {"none", "stop"}
  /\ \A c \in Clients : op[c] \in {"none", "start", "ctrl"}
  /\ \A t \in Threads : pc[t] \in {"seq", "ensure", "started", "wait"} => op[t] = "start"
  /\ \A t \in Threads : pc[t] = "stopped" => op[t] = "stop"
  /\ \A t \in Threads : pc[t] \in {"home", "desc", "check"} \cup OpenPcs => op[t] = "none"

Disconnecting == drv \in {"disc1", "disc2", "disc3", "disc4"}

\* Client c started the stream and has not noted it yet.
JustStarted(c) == op[c] = "start" /\ pc[c] \in {"retok", "started"}

(***************************************************************************)
(* What can be said of the stream and of running, which is assigned after  *)
(* the driver call in a critical section of its own, with a disconnect or  *)
(* a whole replug in between: the stream the driver runs is the published  *)
(* one, of the device on the port, and nobody is about to close it;        *)
(* running is never TRUE without a published stream, so the idle loop has  *)
(* a handle to stop; and the frames of a stream are counted from its start *)
(* on, once whoever started it has set the counter back.  More would not   *)
(* hold: a stop that fails leaves the stream on with running = FALSE, and  *)
(* an assignment that a replug overtook lands on the next stream.          *)
(***************************************************************************)
RunningInv ==
  /\ plug # NoCamera => plugs > 0
  /\ plug = NoCamera => live = NoHandle
  /\ Disconnecting => plug = NoCamera /\ plugs > 0
  /\ streaming # NoHandle => streaming = handle /\ streaming = live /\ ~pending_close
  /\ pending_close => handle = NoHandle \/ live = NoHandle
  /\ running => handle # NoHandle
  /\ streaming # NoHandle => frames <= sent \/ \E c \in Clients : JustStarted(c)

(***************************************************************************)
(* A snapshot under way has counted every frame stored since it read seq.  *)
(***************************************************************************)
SnapshotInv ==
  \A c \in Clients : op[c] = "start" =>
    /\ skip[c] < SkipCap
    /\ pc[c] # "seq" => seq <= start[c] + got[c] \/ got[c] >= SkipCap

(***************************************************************************)
(* "One JPEG frame captured after this call; skip additional frames are    *)
(* let pass first": whoever returns a frame has seen skip + 1 frames       *)
(* stored since it read seq, also when a replug resets seq to 0 meanwhile. *)
(* Stored, not captured: a frame that was under way when the call came     *)
(* counts.                                                                 *)
(***************************************************************************)
FrameIsFresh ==
  [][\A c \in Clients : SnapReturn(c) => got[c] > skip[c]]_vars

(***************************************************************************)
(* Where the warm-up fails.  "Frames dropped after the stream starts" does *)
(* not hold of every stream: the counter is set back after the driver call *)
(* that starts it, and the frames delivered before are counted against the *)
(* run before.  This is the only way: a frame of a stream's first Warmup   *)
(* passes the counter only while a client is between its start and its     *)
(* reset, also when the stream is another camera's or another client's.    *)
(***************************************************************************)
WarmupLostAtStart ==
  [][drv_warm' /\ ~drv_warm => \E c \in Clients : JustStarted(c)]_vars

(***************************************************************************)
(* "the thread that opens the camera's stream whenever one is attached"    *)
(* (Camera::start): an MJPEG camera that stays plugged in is opened in the *)
(* end, and the stream published is that of the device on the port.  It    *)
(* does not hold: open_loop takes dev while it holds connected, describe   *)
(* takes connected while it holds dev, and each may wait for the other.    *)
(***************************************************************************)
PluggedCameraOpens ==
  <>[](plug \in Mjpeg) => <>[](handle # NoHandle /\ handle = live)
=============================================================================
