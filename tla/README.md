# A TLA+ verification of usb-camera-over-tailscale

The program is the firmware of a small board (ESP32) that takes JPEG snapshots
from a USB camera and serves them over a tailnet. It contains its own Tailscale
node, written in Rust (`crates/tsnode`): control client, WireGuard, path
discovery, relays and a user-space TCP stack. This directory models the parts of
it in which threads, callbacks and messages meet, checks them with TLC on small
instances, and proves the central invariants with TLAPS for every instance.

Paths below are relative to the repository (`src/`).

## 1. Inventory

| Component | State it keeps | Operations | Talks to |
|---|---|---|---|
| camera stream `firmware/src/camera.rs` | `DevState` (handle, in_use, pending_close, running, frames), the latest frame and its `seq`, `connected`, `attached`, `vc_interface`, `last_request` | three driver callbacks, `open_loop`, `idle_loop`, `snapshot`, `with_handle`, `describe` | the UVC driver task (callbacks), HTTP and UART threads (calls), the supervisor in `main.rs` |
| camera controls `controls.rs`, `adapter-core/src/uvc.rs` | none of its own; settings remembered in the camera | `apply`, `apply_one`, `read_range` | camera (`with_handle`) |
| wireguard tunnel `tsnode/src/wireguard.rs` | `Tunn`: pending initiation, current and previous session, queue, timers, last timestamp; `ReplayWindow` per session | `encapsulate`, `tick`, `receive` of three message types | magicsock, the peer's tunnel |
| magicsock peer table `magicsock.rs`, `node.rs` | `peers`, `by_disco`, `by_index`, `nodes_by_id` | `set_peers`, `peers_changed`, `peers_removed`, `apply_patch`, handshakes, tick | control thread, udp, DERP and tick threads |
| magicsock paths, disco, stun | best address, trust deadline, pings in flight and endpoints per peer | `send_wg`, pings, pongs, call-me-maybe, `note_path`, discovery, tick | udp, DERP and tick threads, control thread |
| DERP connections `magicsock.rs`, `derp.rs` | `derps`, `home_derp`, `node_key`, a queue per thread | `derp_send`, `ensure_derp`, `derp_loop`, tick, `set_node_key` | relays, control thread |
| control node `node.rs`, `control.rs` | node key, registration mark, `endpoints_dirty`, netmap | register, rotate, map stream, endpoint updates, back off | control server, magicsock, config store |
| control transport `controlbase.rs`, `noise.rs`, `h2.rs`, `http1.rs` | Noise states, HTTP/2 windows | handshake, frames, requests | control node |
| netstack `netstack.rs` | smoltcp sockets, a `ConnState` and a condition variable per stream, the wake flag | poll loop, `inject`, accept, read, write, close | magicsock (packets), HTTP thread |
| packet filter `filter.rs`, `types.rs` | rules | `allows` | magicsock |
| keys, cryptography `keys.rs`, `crypto.rs`, `net.rs` | none | primitives, DNS, dialing | all |
| configuration store `nvs_store.rs`; boot and platform `platform.rs`, `main.rs` | values in flash | load, save, erase, scrub of the auth key; boot decision | control node, shell |
| setup shell `adapter-core/src/shell.rs` | edited configuration | commands | platform |
| HTTP server `firmware/src/http.rs`, `adapter-core/src/http.rs` | none between requests | `/snapshot`, `/` | camera, netstack |
| Wi-Fi, console, button, TLS | device state | I/O | ESP-IDF |
| host tool, web installer | none | test harness, static page | – |

What is hard in it, and where a test would hardly look:

* **callbacks against calls.** The driver reports a disconnect while another
  thread is inside a driver call on the same handle. The mutex is *not* held
  during the call, so the right to close is passed on in `pending_close`.
* **values read before an unlock and used after it**: `running`, `start_seq`,
  `connected`, the idle check.
* **lock order** between `connected` and `dev`; the node key's `RwLock` held over
  a back-off.
* **an unreliable network**: handshakes cross, responses are repeated, transport
  messages are reordered across two sessions.
* **redundant maps** that four kinds of control update and the handshakes each
  maintain in their own way.
* **a bounded queue that drops** commands, `Close` among them.
* **key rotation** while relay threads connect with the former key.
* **a ring buffer of bits** with the usual off-by-one risks.
* **crashes** between the writes of a configuration, a rotation or a factory reset.
* **wake-ups** between a poll thread that sleeps and threads that make work for it.
* **trust in a path** that is extended by packets which say nothing about it.
* **flow control** whose windows change while data is under way.

`PROJECT.json` lists each hazard at its line with the properties that cover it.

What makes each component correct:

* *camera*: a driver call is only ever made on an open handle; each stream is closed
  exactly once; a snapshot is newer than its request; the stream the driver runs is
  the published one; a camera that stays plugged in is opened; no deadlock.
* *tunnel*: a nonce encrypts one message; a packet arrives at most once; the two
  ends of a session agree; old initiations are refused; expired keys are not used;
  the session a node sends on can be read by the peer.
* *replay window*: the ring answers as the set of counters it stands for.
* *peer table*: each index, disco key and node id leads to its peer and to no
  other; a packet goes to the key control named last.
* *DERP*: a registered handle is served; after a rotation the former key is out of
  use; dropped threads end; the home relay comes back; nobody blocks.
* *paths*: packets go directly only to an address that carried packets lately; a working
  address is found again.
* *control node, flash*: the key in use is the key in the flash; the registration mark is
  true; the node comes up; a change of endpoints reaches control; a silent stream is left.
* *control stream*: both sides agree on the windows; nothing granted is lost; the end comes
  after the data; nobody waits for ever.
* *netstack*: nobody sleeps on work; the end of a stream is its end in both directions; an
  answer is whole; every connection ends.

## 2. Modules

| Module | Models | Extended or used by |
|---|---|---|
| `CameraStream` | camera.rs | `MCCameraStream`, `CameraProofs` |
| `WgTunnel` | `Tunn` of two nodes and the network between them | `MCWgTunnel`, `WgProofs` |
| `ReplayFilter` | what a replay window promises (abstract) | `ReplayWindow` |
| `ReplayWindow` | the ring of words, shown to implement `ReplayFilter` | `WgProofs` |
| `PeerTable` | the maps of magicsock and of node.rs | `MCPeerTable`, `PeerTableProofs` |
| `DerpConn` | relay threads, queues, tick, rotation | `MCDerpConn`, `DerpProofs` |
| `PeerPath` | the direct path of one peer | `PathProofs` |
| `ControlNode` | the control thread, the flash keys it writes, the server | `DeviceSetup` |
| `DeviceSetup` | flash, boot, shells and auth-key thread, composed with `ControlNode` | `MCDeviceSetup`, `DeviceProofs` |
| `ControlStream` | a request to control: dial, records, HTTP/2, messages | `StreamProofs` |
| `NetStack` | poll thread, serving thread, TCP clients | `NetStackProofs` |
| `CameraProofs`, `WgProofs`, `PeerTableProofs`, `DerpProofs`, `PathProofs`, `DeviceProofs`, `NetStackProofs`, `StreamProofs` | theorems | – |

### CameraStream

Actors are the driver task, the open thread, the idle thread and the clients (the
HTTP thread and the UART shell). A critical section is one step. Driver calls are
made without the mutex, so a call of `with_handle` is three steps and any callback
may come in between: `Acquire` (take the handle, set `in_use`), `Call` (the driver),
`Release` (clear `in_use`, perform a `pending_close`), and `Close` if it fell to
this thread. `open_with` is `OpenBegin`, `OpenSucceeds` or `OpenFails` per
frame-rate candidate, `OpenFinish`, `OpenDrop`; what follows publication
(`seq = 0`, `attached`, `vc_interface`, the remembered settings) is one step per
assignment because each is its own critical section. `stream_event_cb`'s four
assignments are `DisconnectAttached`, `-Connected`, `-Vc`, `-Dev` and the close.
A frame is counted under `dev` and stored under `frame`, two steps.

`plug`, `opened`, `live`, `streaming` are the port and the driver (external): a
device on the port, handles open in the driver, and the one it delivers frames for.
`Unplug` calls the stream callback only for a device with an open stream, which is
what `uvc_host` does and what the stale `connected` hangs on. A driver call may fail: a
failed stop only warns, and the stream runs on with `running = FALSE`.

`drv_warm` and `got` are history: whether the frame that passed the counter was one of the stream's first
`Warmup`, and how many frames were stored since a snapshot read `seq`. `frames` and
`sent` are counted up to `Warmup`, as larger values are not told apart. A frame has
no content: a frame too short to be a JPEG is the Boolean parameter of `FrameCount`.

### WgTunnel

`tunn[p]` is the `Tunn` node `p` has for the other. Methods are operators from a
tunnel to a tunnel and messages; the actions are the callers (`SendIp`, `TickPeer`
and one receive action per message type). `net` keeps every message ever sent:
a message that is never taken is lost, one taken twice is duplicated, any order is
possible. A session key is named by the two indices of its handshake. Timestamps
of initiations are the indices drawn, which grow: in the code `tai64n_now` adds an offset that
each `ControlTime` sets again (node.rs:475) and may step back, so that a peer refuses initiations
until the clock has caught up; the model does not have that.

Deviations: both nodes read the same clock; indices (random 32-bit numbers in the
code) are fresh; the replay window is the set of counters seen (`ReplayWindow` shows
that this is what it computes); REKEY_AFTER_MESSAGES (2^60) is not reachable.

### ReplayWindow, ReplayFilter

A word is the set of its bits; `WordBits` and `REPLAY_WORDS` are parameters. The
abstract filter keeps the set of all accepted counters and says what answer each
counter gets. The names of the specification (`WindowSpec`, `windowVars`, `seen`) differ from
those of `WgTunnel`, because `WgProofs` extends both.

### PeerTable

Every step holds the state mutex, so each is one action. Per key: whether it is in
`peers`, its disco key, and the three local indices of its tunnel. Several keys may
belong to one node id, which is how control presents a node that was rekeyed.
`Route(n)` is the set of peers `route` may return for an address of node `n`.

### DerpConn

A thread is `top -> connect -> up`, with `backoff` after a failed connect, and `exit`.
The handle map is `derps`; a thread that lost its handle finds its queue
disconnected once it is empty. `preferred` is what the thread was told of the home region; what
the relay knows is not modelled, as every error on the way there is discarded. `rotate` is `set_node_key` (write the key, rebuild
the tunnels, take the map); `rx` is a thread in `handle_packet` between taking the
state mutex and reading the node key. The key's read lock is held in `connect` and
`backoff` (the guard is a temporary of the `match`), and a reader queues behind a
waiting writer. Shutdown of the whole socket is not modelled.

### PeerPath

One peer: `best`, the endpoints and the pings of the code (of the list of endpoints the set and
the first one, which is the only place `send_wg` looks at), and for each address how the
network treats it now (both ways, one way, not at all). Time passes in steps of the tick; a
packet or pong may come late or never, from any address that worked when it was sent. The
peer's own side answers pings and sends packets and pings of its own. `SetNode`, `Patch` and
`SetNodeKey` are what control and a rotation do to the peer. A pong completes the ping with its
transaction id, by whichever address it comes: the code does not compare the two. `silent[a]` and
`unreached[a]` are how long address `a` has carried nothing from the peer, and to it.

### ControlNode, DeviceSetup

`ctl` is the place in `control_loop`. A request is one step on the way there and one on the
way back, so that an answer can be lost after the server acted on it. A rotation is
`rotate -> store -> commit`, each a step, because the power may fail in between. Node keys are
names that are reused once nobody holds them. A STUN answer changes the endpoints in one
step and calls `endpoints_changed` in another, as the lock is dropped between them. A map request
may be refused in words that `control_loop` looks for (`MapDenied`, which clears the mark) or in
others (`MapRefused`, which keeps it). A stored key that cannot be parsed is replaced by a fresh
one beside the mark that is kept (node.rs:121-125): nothing in the code writes such a key, and the
model does not have it; control would refuse the key, and the refusal clear the mark.

`DeviceSetup` extends it with what else writes the flash: `save_config` is one step per key,
`factory_reset` one per removal; the shells run the wizard, `set`, `wifi`, `authkey`, `login`,
`reset` and `reboot`; `Boot` is the decision in `main`; `authkey-scrub` sees the node running in
one step and removes the key in another. `torn` remembers a reset that was cut off.

### ControlStream

`h2` and `strm` are `H2Conn` and its one `Stream`; `buf` and `given` are `MapStream`'s. Bytes are
counted in units of flow control; a frame is one record, which may arrive in parts. The server
(external) keeps its own windows, changes its initial window while the stream is open, and
may refuse, reset, say goodbye or close. A timeout in the middle of a record loses the part
that was read (`part`, `torn`). `InFlight` sums the units of one kind of frame in a channel; it is a
recursive function of the channel's length, so that it can be reasoned about. `MaxWindow` is the
largest window the server may announce, `Windows` those it does in a run. `srv.said` is what the
server sent besides its answer. Left out are the limits on what is read (8 MiB for a message, 1 MiB and
64 KiB for a body: the connection is given up), the body of a refusal, which is read before the
failure and only logged, a stream that ends without headers, which this server does not send, and
the text of a register answer, which is read as messages are.

### NetStack

The poll loop is one step per stage: take the inbound queue, handle the packets one by one
(smoltcp, external), the listener, each connection under its mutex, sleep. The
application is the HTTP thread: accept, read the head, answer, close. `Request` units end
`read_head`, with a head or with the 431 of one that is too long: both write an answer and close, and
which it is makes no difference to the stack. A client may send more than that (`Sends`), which
stays in the queues of a stream nobody reads. The poll thread stops reading at `RxLimit`; in the code
it reads in pieces of 1024 bytes and may pass the limit by one piece less a byte. A wake-up after a
mutex was dropped is a step of its own (`ReadWake`, `WriteWake`, `CloseWake`). TCP carries each
segment once and in order; a full inbound queue drops it and the client sends it again.

## 3. Runs

| Run | Expect | Question |
|---|---|---|
| `camera_safety` | pass | in-use protocol: `NoCallOnClosedHandle`, `ClosedOnce`, `CallsExclusive`; the published stream: `RunningInv`; freshness of a snapshot: `FrameIsFresh`; where the warm-up is lost: `WarmupLostAtStart` |
| `camera_lock` | violation | `PluggedCameraOpens` with a shell that prints the status |
| `wg_safety` | pass | `SessionsInv` (`SessionsMatch`, `InitiationsInOrder`), `NonceUsedOnce`, `DeliveredOnce`, `NoSendAfterExpiry` |
| `replay_window` | pass | `WindowInv` (`WindowExact`), refinement `ImplementsFilter` |
| `peer_table` | pass | `IndexRouted`, `DiscoRouted`, `PeersNamed` |
| `peer_rekey` | violation | `RouteIsRight` after a change of node key |
| `derp_conn` | pass | `RegisteredServes`, `RotatedKeyUsed`, `DroppedThreadEnds`, `HomeComesUp`, `RotationEnds` |
| `peer_path` | pass | `PathInv` (`WorkedLately`, `PingsReached`), `DirectAgain` |
| `control_node` | pass | `IdentityInv` (`SameIdentity`, `RegisteredIsKnown`), `NodeComesUp`, `EndpointsTold`, `SilentIsLeft` |
| `device_setup` | pass | `FlashInv` (`IdentitySurvives`, `MarkIsTrue`) when everyone writes the flash |
| `control_stream` | pass | `SendInv` (`SendWindowsAgree`), `GrantsAddUp`, `EndIsTheEnd`, `ResponseIsRead` |
| `netstack` | pass | `StreamInv` (`EofIsTheEnd`, `FinIsLast`), `NobodySleepsOnWork`, `WholeAnswer`, `ConnectionsEnd` |

Each module's type invariant is a conjunct of the `...Inv` its run checks, or a property of the run (camera); those of
`PeerTable` and `DerpConn` are parts of proved invariants, as are `NoLeakedHandle`, `PendingCloseHasOwner` and `IndexOwned`. Every property has
a mutant in `PROJECT.json`: a definition with a plausible slip (a dropped guard, a
forgotten reset) under which TLC finds the property violated.

### Bounds and why they are enough

* *camera_safety*: one client, two handles, one camera, two plug-ins, two frame rates,
  two stored frames per open, `Warmup` 1, `skip` 0 or 1. The client, the open thread,
  the idle thread and the driver task already make four actors on one handle; the
  idle thread and a client contend for `in_use` as two clients would. Two plug-ins and
  two handles let the stream of a camera that left overlap the next one. The proofs
  remove all of these bounds for the handle protocol.
  The system may really stop when nobody asks and no cable moves: deadlock is off.
* *camera_lock*: a shell, which describes the camera and takes no snapshot, and one plug-in:
  the smallest instance with both lock orders.
* *wg_safety*: four indices allow a handshake in each direction and a rekey; time 0..3
  crosses `RekeyTimeout`, `RekeyAfter` and `RejectAfter` in their true order; one place
  in the queue makes it full; two packets differ. Runs end when indices, time and
  packets are used up, so deadlock is off.
* *replay_window*: three words of two bits and counters 0..12: the ring wraps twice, and
  a jump may stay in its word, enter one or more, or skip the window.
* *peer_table*: a node with two node keys and two disco keys, another node, three
  indices. There is no bound on the number of steps.
* *derp_conn*: one region, two threads (the registered one and its predecessor or
  successor), a queue of one (always next to full), one rotation.
* *peer_path*: two addresses and room for one endpoint, so that a working address may be
  unlisted; trust of two units of time and answers that are up to one unit late; one change of
  the network, of the peer or by control.
* *control_node*: three node keys (in use, in the flash, new), two faults (a lost answer and a
  power failure, say), one change in the console, one change of endpoints.
* *device_setup*: one console next to the auth-key thread and the control node, one network, one
  auth key, one fault besides power failures. Key names are symmetric; there is no liveness.
* *control_stream*: a body of three units and windows of two and one, so that the client waits, also
  for a window that the server took back below 0 after two units were sent; six units
  of answer and a window of four, so that the server waits; two SETTINGS frames; two events of
  trouble. A request ends, so deadlock is off.
* *netstack*: one client and two sockets (the connection and the listener); an answer of two units,
  and buffers, queues and limits of one or two, so that every queue is full and empty; a head of three
  units, more than the reader's queue holds, and up to six units sent, enough to close the window of a
  stream that is no longer read.

Symmetry is used on handles, on nodes and packets, and on indices, in runs without
liveness properties only.

### Fairness and why the code justifies it

* *Camera* (only the violated run uses it): the threads are loops that never end, sleep for
  bounded times and get a mutex that is released over and over: strong fairness of each thread.
  Driver calls return (they time out in the driver), and an open that can succeed over and over does
  succeed in the end. Requests and cables are never forced.
* *DERP*: threads run and get the locks they wait for again and again; a connect ends; the
  relay is reachable often enough that neither the connect nor the spawn of the thread fails
  for ever; a connected thread serves its queue before the connection breaks, sooner or later.
* *Paths*: the tick runs, the peer's node pings as ours does, and a packet on an address that
  works in the end gets through sooner or later.
* *Control node*: the thread runs; requests fail boundedly often; the keep-alive timer is looked at in
  every round. Starts, approvals and changes in the console are never forced.
* *Control stream*: the client's thread runs, and the server reads, gives windows back and answers.
* *Netstack*: both threads run; a client that is there acknowledges what it gets, and smoltcp times
  out one that is not. No client has to send anything or to close its side.

### What the violated runs show

`camera_lock` – `open_loop` takes `dev` while it holds `connected` (camera.rs:365-367), `describe` takes
`connected` while it holds `dev` (camera.rs:634-642). A status line printed while a camera is plugged in
may leave each waiting for the other: the camera is never opened, and every later callback and
call blocks on one of the two. The comment on `Camera::start` says that the stream is opened whenever a camera is attached.
Without a describer TLC finds the property to hold for one kind of camera.

`peer_rekey` – `peers_changed` looks for the key only; the peer of a node's former key stays
with its addresses and `route` may choose it, until the next full list.

### What the models show and no run states

States that are reachable in the models, and that a property would have to exclude:

* *CameraStream*: `connected` is cleared only in the stream callback, which the driver calls only
  for a stream that was open. A device without MJPEG format that left stays in `connected`, and
  `driver_event_cb` takes the next camera for a second function of it and does not open it.
* *CameraStream*: a stop that fails is only logged (camera.rs:567-574): the stream runs on with
  `running = FALSE`, and the idle loop does not try again.
* *CameraStream*: `running` is assigned in a second critical section after the driver call. With a replug
  between the two the late assignment lands on the next stream; of two clients that found the stream
  stopped the second may start it after the idle thread stopped it and before its `running = FALSE`.
* *CameraStream*: the first two frames are *not* always skipped, as the comment at camera.rs:17 has it:
  `ensure_streaming` resets `frames` after the start has returned (camera.rs:547-557), and the frames
  that come in between pass. `WarmupLostAtStart` shows that this is the only way they do.
* *WgTunnel*: `accept_initiation` drops the node's own pending initiation and sends on the new session
  at once. If both nodes do so, each ignores the response to the initiation it dropped, and both
  send on sessions the other does not hold, until REJECT_AFTER_TIME.
* *DerpConn*: the read guard of the node key lives through the back-off (up to 60 s), a rotation waits
  for it, and a handshake waits behind the rotation with the state mutex. `RotationEnds` shows that
  it is a delay and not a deadlock.
* *DerpConn*: "Ensures a connection to the home DERP exists and is marked preferred"
  (magicsock.rs:508): the preference is lost when the queue is full (519) or its write fails (574,
  612), and nothing repeats it.
* *ControlNode*: an auth key that is no longer good stays in memory and is presented for ever. A map
  request that is refused in other words than "HTTP 401", "HTTP 403", "not registered" or "expired" keeps the
  registration mark of a key that control does not know (node.rs:292-301), and the node tries the
  same for ever. `NodeComesUp` excepts both (`ctl = "refused"` over and over).
* *DeviceSetup*: the auth-key thread removes whichever key is stored; a `set` on one console may bring
  back what another console or that thread removed; a save that failed after the auth key was
  written and is repeated leaves the registration mark, although "the registration flag is cleared in
  that case" (nvs_store.rs:116). A factory reset that is cut off may leave the mark without its key.
* *ControlStream*: a timeout in the middle of a record costs the connection. An informational answer
  that comes first is taken for the status and fails the request, although the comment at h2.rs:548
  says "Ignore 1xx informational responses.": the condition takes any first status.
* *NetStack*: a connection is handed over in SYN-RECEIVED; a RST then makes its socket listen again and
  the stream's entry stays (`relisted`). A client that never closes its own side and answers the
  keep-alives holds its entry in FIN-WAIT-2 for ever (`HalfOpen`).

### Limits of what the passing runs say

* `RunningInv` says that a running stream is the published one and that `running` is TRUE only of a
  published stream. It does not say that `running` agrees with the driver, which does not hold (above).
* `FrameIsFresh` counts frames *stored* after the call; one captured before and stored after it counts,
  so "captured after this call" (camera.rs:595) is shown up to the frame that is on its way.
* No liveness of the camera is shown to hold: `camera_lock` is why.
* `attached` may stay TRUE after a disconnect that comes between publication and the store of
  `attached`; it only selects an error code. A snapshot that starts right after the idle check
  can find its stream stopped and times out.
* Packets queued in a tunnel are flushed by `consume_response` only. A lost rekey initiation is
  not sent again while the session lives. Neither breaks a safety property.
* `NodeComesUp` excepts a node that is refused for ever and tries the same for ever (above).
* `WorkedLately` accepts an address that carried packets *to* the peer as well as one that carried packets
  from it, since a pong is not compared with the address of its ping. `DirectAgain` promises an
  address that reaches the peer, and needs every address the peer is heard from to reach it.
* `MarkIsTrue` and `IdentitySurvives` except a factory reset that was begun and not completed.
* `ConnectionsEnd` does not hold for a client that keeps its window at zero and answers probes, and
  excepts `HalfOpen` and `relisted`.
* `ResponseIsRead` excuses a failure for what did happen to the client: a failed dial, a timeout, a close,
  and what the server said, an informational answer included.

## 4. Proofs

All theorems hold for every value of the constants that satisfies the module's `ASSUME`:
special values are distinct from the ordinary ones (`NoHandle`, `None`, ...), bounds and
limits are naturals, roles do not coincide. What is assumed beyond that is what the code has: a tunnel
has two ends, RekeyAfter is less than RejectAfter (`WgAssumption`), an absent session or
handshake is not one of those there are (`NoneAssumption`, the `Option` of the code), limits of
queues and buffers are not zero, the ring has two words or more, and there is a largest `skip`.
Nothing is assumed of the sizes of the sets. TLC evaluates each `ASSUME` in the runs.

For every theorem the inductive invariant was first checked with TLC, then proved: it holds
initially, each action preserves it, and it implies the property. The invariants are in the
modules of the models, in the section that follows the properties.

* **CameraProofs.** `HandleInv` is the inductive invariant of the handles. The stated properties are not
  inductive alone: that no call is on a closed handle depends on *who owns* a handle that is no longer,
  or not yet, in `DevState`. `HandleInv` adds that a call under way is on the current handle, that the
  handles owned by threads and by the callback are open, pairwise different and not the
  current one, and that there is no current handle while one is being opened (this is why
  `open_with` need not look at `in_use`: it is only reached with `handle` null, and nobody can
  acquire then). `TypeCorrect`, `CallsAreOnOpenHandles`, `HandlesAreClosedOnce` and
  `CallsAreSerialised` follow.
  `SnapshotsAreFresh` (`FrameIsFresh`) needs `SnapshotInv`: `seq` is at most what the snapshot read plus
  the frames stored since, and a replug only lowers it. `StreamIsPublished` (`RunningInv`): a
  stream that runs is the published one, of the device on the port, with no close pending, so that the
  `frames = 0` of whoever started it cannot miss it; `WarmupLostOnlyAtStart` (`WarmupLostAtStart`) follows.
* **WgProofs.** `WgInv` is built around `Had(p, k)`: a node never makes two sessions with one key, because an
  initiation's index is drawn once and pending once, and each response draws an index of its own.
  What a node sent, holds and was delivered is under keys it had; a session it makes is under one it
  had not. With `CounterAhead` (the send counter is ahead of all messages of its session) follows
  `NonceNeverReused`; with `PacketsOnce` (a packet is unsent, queued, or in one message) and
  `DeliveredSpent` (what was delivered is a replay now) `PacketDeliveredOnce`. `SessionsAgree` has
  `SessionsMatch` from the form of the keys and `InitiationsInOrder` from `last_ts`.
  `NothingSentAfterExpiry` is an action property: a message sealed in a step is sealed by a session
  that `usable` admitted at that time.
  The last section is about `ReplayWindow`. A counter is a row and a bit; a row is a slot of the ring modulo `REPLAY_WORDS`. The window
  spans at most `REPLAY_WORDS` rows (`WindowRows`), rows less than `REPLAY_WORDS` apart have slots of their
  own (`SlotsDiffer`), so each counter of the window has a bit of its own (`OwnBit`), and the rows cleared
  by a slide are none the window still needs (`SlideExact`). `WindowIsExact`, and by the fact that
  `last` is the highest counter accepted the refinement `RingImplementsFilter`: every step maps to a step
  of `ReplayFilter`, with the same answer. The multiplications are done by hand in four lemmas on
  division. This is what allows `WgTunnel` to keep a set of counters.
* **PeerTableProofs.** `TableInv` joins the four properties with two facts they need: an absent peer owns
  no disco key and no index (else adding it would bring stale entries back) and a peer's disco key
  is its node's. `IndicesAreRouted`, `DiscoKeysAreRouted`, `PeersAreNamed`.
* **DerpProofs.** `DerpInv` adds that a thread that does not exist has an empty queue (else a new handle
  might start with a `Close`) and that a rotation under way has a key left. `HandlesAreServed`,
  `RotatedKeyIsUsed`: the argument is that the write lock excludes every thread that connects or
  waits, and that the map is emptied under the state mutex before the rotation ends.
* **PathProofs.** `PathInv` is inductive. Trust in the direct address runs down by one in each unit in which the
  silence of that address, and the time it has carried nothing to the peer, grow by one. What sets it back is a
  packet that left the address at most `MaxDelay` ago, or the pong of a ping, and a ping under way was
  carried to the peer since it was sent (`PingsReached`). `PathWorkedLately`.
* **DeviceProofs.** `NodeInv` says of every place of the control thread how flash and memory differ: in a rotation
  the flash is one write ahead, and from the registration to its mark there is no mark, so that the
  key next to a mark is never one that is only being tried. `IdentityIsKept`. `DeviceInv` is the same
  on the device, where shells and the auth-key thread write the flash at any moment, suspended while a
  factory reset is not over. `FlashIsTrue`.
* **NetStackProofs.** `NetInv` is one invariant for each socket (`SockInv`: no byte is lost while there is a socket, the
  FIN of either side comes after the last byte), what the two threads hold (a stream is with the listener,
  in the queue or with the server, once), and why they may sleep: a connection the poll thread is done with
  has no work, or someone who changed it is about to wake it. `StreamsEnd`, `NobodySleeps`, and the
  action property `AnswersAreWhole`. The proof found an ambiguous `CASE` in `Read`, since repaired.
* **StreamProofs.** `StreamInv` says where every unit is. `SendsAddUp`: what the client may send, what is under way in
  both directions and what the server owes make up the server's windows, and no more is owed or under
  way than was sent; this bounds the send windows, so that `TypeOK`'s ranges follow from the sums
  and are not assumed. `GrantsHold` is the same for what we grant, from the defaults to `OUR_WINDOW`: before the server
  has read the SETTINGS of our greeting its window for the stream is another one (`Unset`), and
  `GreetingFirst` says which frames of the greeting are still under way. `BodyAddsUp` and `EndsLast` follow the
  response: each unit is under way, buffered or handed over, and nothing is behind END_STREAM; since the
  server ends after whole messages, nothing is left in the buffer at the end. `SendWindowsHold`, `GrantsAreNeverLost`,
  `EndComesLast`, for every length of the body and of the messages, size of frames, windows and queue.
  The sums need induction on the length of a channel. The library's induction theorems take a
  predicate, which the provers cannot instantiate; `LeastNat` and `SetInduction` state induction for a *set* of
  numbers, from the well-foundedness of `<`, and `InFlightAppend` and `InFlightTail` are proved with them. From
  there on the sum is opaque.

Each step proof has one case per action and, under it, one step per conjunct it can disturb.

Only model-checked, with the reason:

* liveness (`DroppedThreadEnds`, `HomeComesUp`,
  `RotationEnds`, `NodeComesUp`, `EndpointsTold`, `SilentIsLeft`, `ConnectionsEnd`, `DirectAgain`,
  `ResponseIsRead`): fairness and `ENABLED` are beyond the prover.

## 5. Not modelled

* Byte formats (disco, STUN, DERP frames, HTTP, Noise, HPACK) and cryptography: functions with unit
  tests, and symbolic in the models.
* The packet filter: a pure function of the rules and one packet.
* The dialogue of the shell, the listing commands and the web pages: text.
* Wi-Fi, console, button, TLS: device I/O around ESP-IDF. smoltcp and the UVC driver are external
  and modelled as far as the code relies on them.
* `connect`, `abort` and `shutdown` of the netstack, which the firmware does not use.
* The encoding of camera controls, and the order of requests within one setting.

## 6. Plan

1. `RouteIsRight` of `PeerTable`, under the hypothesis that no node key changes between two full lists.
2. A model of the probing of relays (home region, STUN latencies) next to `PeerPath`.
