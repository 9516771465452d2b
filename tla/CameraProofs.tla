---------------------------- MODULE CameraProofs ----------------------------
(***************************************************************************)
(* Proofs about CameraStream, for any number of clients, handles, cameras  *)
(* and any bounds: the types, the in-use protocol of DevState, the frames  *)
(* a snapshot waits for, the running stream and its warm-up.               *)
(*                                                                         *)
(* None of the properties of the protocol is inductive alone: that a call  *)
(* is on an open handle needs that the call is on the current one, that    *)
(* the current one is open, and that what is about to be closed is neither *)
(* the current one nor anybody else's.  HandleInv is their conjunction,    *)
(* with the fact that open_with runs only while there is no current        *)
(* handle, which is why it may set in_use without looking at it.           *)
(***************************************************************************)
EXTENDS CameraStream, TLAPS

USE CameraAssumption
USE DEF port, dev, buffer, flags, locks, task, locals, Threads

-----------------------------------------------------------------------------
(***************************************************************************)
(* TypeOK, an actor at a time.                                             *)
(***************************************************************************)

\* TypeOK: the cable and the clock.
LEMMA EnvironmentTypes ==
  ASSUME TypeOK, HandleInv, Environment
  PROVE  TypeOK'
<1> USE DEF TypeOK
<1>1. ASSUME NEW k \in Cameras, Plug(k) PROVE TypeOK'
  <2> USE <1>1 DEF Plug
  <2>1. PortType' BY DEF PortType
  <2>2. DevType' BY DEF DevType
  <2>3. SharedType' BY DEF SharedType, DrvValues
  <2>4. LocalsType' BY DEF LocalsType, PcValues, PortType, DevType, SharedType, HandleInv
  <2> QED BY <2>1, <2>2, <2>3, <2>4
<1>2. ASSUME NEW r \in BOOLEAN, Unplug(r) PROVE TypeOK'
  <2> USE <1>2 DEF Unplug
  <2>1. PortType' BY DEF PortType
  <2>2. DevType' BY DEF DevType
  <2>3. SharedType' BY DEF SharedType, DrvValues
  <2>4. LocalsType' BY DEF LocalsType, PcValues, PortType, DevType, SharedType, HandleInv
  <2> QED BY <2>1, <2>2, <2>3, <2>4
<1>3. CASE IdleElapse
  BY <1>3 DEF IdleElapse,
     PortType, DevType, SharedType, LocalsType, PcValues, DrvValues
<1> QED BY <1>1, <1>2, <1>3 DEF Environment

\* TypeOK: the callbacks of the driver task.
LEMMA DriverTaskTypes ==
  ASSUME TypeOK, HandleInv, DriverTask
  PROVE  TypeOK'
<1> USE DEF TypeOK
<1>1. CASE DeviceConnected
  BY <1>1 DEF DeviceConnected,
     PortType, DevType, SharedType, LocalsType, PcValues, DrvValues
<1>2. CASE DisconnectAttached
  <2> USE <1>2 DEF DisconnectAttached
  <2>1. PortType' BY DEF PortType
  <2>2. DevType' BY DEF DevType
  <2>3. SharedType' BY DEF SharedType, DrvValues
  <2>4. LocalsType' BY DEF LocalsType, PcValues, PortType, DevType, SharedType, HandleInv
  <2> QED BY <2>1, <2>2, <2>3, <2>4
<1>3. CASE DisconnectConnected
  BY <1>3 DEF DisconnectConnected,
     PortType, DevType, SharedType, LocalsType, PcValues, DrvValues
<1>4. CASE DisconnectVc
  <2> USE <1>4 DEF DisconnectVc
  <2>1. PortType' BY DEF PortType
  <2>2. DevType' BY DEF DevType
  <2>3. SharedType' BY DEF SharedType, DrvValues
  <2>4. LocalsType' BY DEF LocalsType, PcValues, PortType, DevType, SharedType, HandleInv
  <2> QED BY <2>1, <2>2, <2>3, <2>4
<1>5. CASE DisconnectDev
  <2> USE <1>5 DEF DisconnectDev
  <2>1. PortType' BY DEF PortType
  <2>2. DevType' BY DEF DevType
  <2>3. SharedType' BY DEF SharedType, DrvValues, DevType
  <2>4. LocalsType' BY DEF LocalsType, PcValues, PortType, DevType, SharedType, HandleInv
  <2> QED BY <2>1, <2>2, <2>3, <2>4
<1>6. CASE DisconnectClose
  <2> USE <1>6 DEF DisconnectClose, DriverClose
  <2>1. PortType' BY DEF PortType
  <2>2. DevType' BY DEF DevType
  <2>3. SharedType' BY DEF SharedType, DrvValues
  <2>4. LocalsType' BY DEF LocalsType, PcValues, PortType, DevType, SharedType, HandleInv
  <2> QED BY <2>1, <2>2, <2>3, <2>4
<1>7. CASE FrameStore
  <2> USE <1>7 DEF FrameStore
  <2>1. PortType' BY DEF PortType
  <2>2. DevType' BY DEF DevType
  <2>3. SharedType'
    <3>1. seq' \in Nat BY DEF SharedType
    <3>2. drv' \in DrvValues BY DEF DrvValues
    <3>3. drv_warm' \in BOOLEAN OBVIOUS
    <3> QED BY <3>1, <3>2, <3>3 DEF SharedType
  <2>4. LocalsType' BY DEF LocalsType, SharedType
  <2> QED BY <2>1, <2>2, <2>3, <2>4
<1> QED BY <1>1, <1>2, <1>3, <1>4, <1>5, <1>6, <1>7 DEF DriverTask

\* TypeOK: the frame callback's first critical section.
LEMMA FramesTypes ==
  ASSUME TypeOK, HandleInv, Frames
  PROVE  TypeOK'
<1> USE DEF TypeOK
<1>1. ASSUME NEW b \in BOOLEAN, FrameCount(b) PROVE TypeOK'
  <2> USE <1>1 DEF FrameCount
  <2>1. PortType' BY DEF PortType
  <2>2. DevType' BY DEF DevType
  <2>3. SharedType'
    <3>1. drv' \in DrvValues BY DEF SharedType, DrvValues
    <3>2. drv_warm' \in BOOLEAN
      <4>1. CASE frames < Warmup \/ b BY <4>1 DEF SharedType
      <4>2. CASE ~(frames < Warmup \/ b) BY <4>2
      <4> QED BY <4>1, <4>2
    <3> QED BY <3>1, <3>2 DEF SharedType
  <2>4. LocalsType' BY DEF LocalsType
  <2> QED BY <2>1, <2>2, <2>3, <2>4
<1> QED BY <1>1 DEF Frames

\* TypeOK: with_handle, in thread t.
LEMMA WithHandleTypes ==
  ASSUME NEW t \in Threads, TypeOK, HandleInv, WithHandle(t)
  PROVE  TypeOK'
<1> USE DEF TypeOK
<1>1. CASE AcquireFails(t)
  BY <1>1 DEF AcquireFails, Return,
     PortType, DevType, SharedType, LocalsType, PcValues, DrvValues
<1>2. CASE Acquire(t)
  <2> USE <1>2 DEF Acquire
  <2>1. PortType' BY DEF PortType
  <2>2. DevType' BY DEF DevType
  <2>3. SharedType' BY DEF SharedType, DrvValues
  <2>4. LocalsType' BY DEF LocalsType, PcValues, PortType, DevType, SharedType, HandleInv
  <2> QED BY <2>1, <2>2, <2>3, <2>4
<1>3. CASE Call(t)
  <2> USE <1>3 DEF Call, DriverStart, DriverStop, Goto
  <2>1. PortType' BY DEF PortType
  <2>2. DevType' BY DEF DevType
  <2>3. SharedType' BY DEF SharedType, DrvValues
  <2>4. LocalsType' BY DEF LocalsType, PcValues, PortType, DevType, SharedType, HandleInv
  <2> QED BY <2>1, <2>2, <2>3, <2>4
<1>4. CASE Release(t)
  <2> USE <1>4 DEF Release
  <2>1. PortType' BY DEF PortType
  <2>2. DevType' BY DEF DevType
  <2>3. SharedType' BY DEF SharedType
  <2>4. LocalsType'
    <3>1. CASE Return(t) BY <3>1 DEF Return, LocalsType, PcValues
    <3>2. CASE \E l \in {"close", "started", "stopped"} : Goto(t, l)
      BY <3>2 DEF Goto, LocalsType, PcValues
    <3> QED BY <3>1, <3>2
  <2> QED BY <2>1, <2>2, <2>3, <2>4
<1>5. CASE Close(t)
  <2> USE <1>5 DEF Close, DriverClose, Return
  <2>1. PortType' BY DEF PortType
  <2>2. DevType' BY DEF DevType
  <2>3. SharedType' BY DEF SharedType, DrvValues
  <2>4. LocalsType' BY DEF LocalsType, PcValues, PortType, DevType, SharedType, HandleInv
  <2> QED BY <2>1, <2>2, <2>3, <2>4
<1> QED BY <1>1, <1>2, <1>3, <1>4, <1>5 DEF WithHandle

\* TypeOK: the camera-open thread.
LEMMA OpenStepTypes ==
  ASSUME TypeOK, HandleInv, OpenStep
  PROVE  TypeOK'
<1> USE DEF TypeOK
<1>1. CASE OpenLock
  BY <1>1 DEF OpenLock, Goto,
     PortType, DevType, SharedType, LocalsType, PcValues, DrvValues
<1>2. CASE OpenScan
  <2> USE <1>2 DEF OpenScan, Goto
  <2>1. PortType' BY DEF PortType
  <2>2. DevType' BY DEF DevType
  <2>3. SharedType' BY DEF SharedType, DrvValues
  <2>4. LocalsType' BY DEF LocalsType, PcValues, PortType, DevType, SharedType, HandleInv
  <2> QED BY <2>1, <2>2, <2>3, <2>4
<1>3. CASE OpenBegin
  <2> USE <1>3 DEF OpenBegin, Goto
  <2>1. PortType' BY DEF PortType
  <2>2. DevType' BY DEF DevType
  <2>3. SharedType' BY DEF SharedType, DrvValues
  <2>4. LocalsType' BY DEF LocalsType, PcValues, PortType, DevType, SharedType, HandleInv
  <2> QED BY <2>1, <2>2, <2>3, <2>4
<1>4. CASE OpenFails
  <2> USE <1>4 DEF OpenFails, Goto
  <2>1. PortType' BY DEF PortType
  <2>2. DevType' BY DEF DevType
  <2>3. SharedType' BY DEF SharedType, DrvValues
  <2>4. LocalsType' BY DEF LocalsType, PcValues, PortType, DevType, SharedType, HandleInv
  <2> QED BY <2>1, <2>2, <2>3, <2>4
<1>5. CASE OpenFinish
  <2> USE <1>5 DEF OpenFinish
  <2>1. PortType' BY DEF PortType
  <2>2. DevType'
    <3>1. handle' \in Handles \cup {NoHandle} BY DEF DevType, LocalsType
    <3>2. in_use' \in BOOLEAN OBVIOUS
    <3>3. pending_close' \in BOOLEAN BY DEF DevType
    <3>4. running' \in BOOLEAN BY DEF DevType
    <3>5. frames' \in 0..Warmup BY DEF DevType
    <3> QED BY <3>1, <3>2, <3>3, <3>4, <3>5 DEF DevType
  <2>3. SharedType' BY DEF SharedType
  <2>4. LocalsType'
    BY DEF LocalsType, PcValues, HandleInv, NextCandidate, Goto
  <2> QED BY <2>1, <2>2, <2>3, <2>4
<1>6. CASE OpenDrop
  <2> USE <1>6 DEF OpenDrop, DriverClose, NextCandidate
  <2>1. PortType' BY DEF PortType
  <2>2. DevType' BY DEF DevType
  <2>3. SharedType' BY DEF SharedType, DrvValues
  <2>4. LocalsType' BY DEF LocalsType, PcValues, PortType, DevType, SharedType, HandleInv
  <2> QED BY <2>1, <2>2, <2>3, <2>4
<1>7. CASE OpenResetSeq
  BY <1>7 DEF OpenResetSeq, Goto,
     PortType, DevType, SharedType, LocalsType, PcValues, DrvValues
<1>8. CASE OpenAttach
  BY <1>8 DEF OpenAttach, Goto,
     PortType, DevType, SharedType, LocalsType, PcValues, DrvValues
<1>9. CASE OpenReapply
  BY <1>9 DEF OpenReapply, Return,
     PortType, DevType, SharedType, LocalsType, PcValues, DrvValues
<1>10. ASSUME NEW h \in Handles, OpenSucceeds(h) PROVE TypeOK'
  <2> USE <1>10 DEF OpenSucceeds
  <2>1. PortType' BY DEF PortType
  <2>2. DevType' BY DEF DevType
  <2>3. SharedType' BY DEF SharedType, DrvValues
  <2>4. LocalsType' BY DEF LocalsType, PcValues, PortType, DevType, SharedType, HandleInv
  <2> QED BY <2>1, <2>2, <2>3, <2>4
<1>11. ASSUME NEW b \in BOOLEAN, OpenVc(b) PROVE TypeOK'
  BY <1>11 DEF OpenVc, Goto,
     PortType, DevType, SharedType, LocalsType, PcValues, DrvValues
<1> QED BY <1>1, <1>2, <1>3, <1>4, <1>5, <1>6, <1>7, <1>8, <1>9, <1>10, <1>11 DEF OpenStep

\* TypeOK: the camera-idle thread.
LEMMA IdleStepTypes ==
  ASSUME TypeOK, HandleInv, IdleStep
  PROVE  TypeOK'
<1> USE DEF TypeOK
<1>1. CASE IdleTick
  BY <1>1 DEF IdleTick, Goto,
     PortType, DevType, SharedType, LocalsType, PcValues, DrvValues
<1>2. CASE IdleCheck
  BY <1>2 DEF IdleCheck, Return,
     PortType, DevType, SharedType, LocalsType, PcValues, DrvValues
<1>3. CASE IdleStopped
  <2> USE <1>3 DEF IdleStopped, Return
  <2>1. PortType' BY DEF PortType
  <2>2. DevType' BY DEF DevType
  <2>3. SharedType' BY DEF SharedType, DrvValues
  <2>4. LocalsType' BY DEF LocalsType, PcValues, PortType, DevType, SharedType, HandleInv
  <2> QED BY <2>1, <2>2, <2>3, <2>4
<1> QED BY <1>1, <1>2, <1>3 DEF IdleStep

\* TypeOK: a client's steps under way.
LEMMA ClientStepTypes ==
  ASSUME NEW c \in Clients, TypeOK, HandleInv, ClientStep(c)
  PROVE  TypeOK'
<1> USE DEF TypeOK
<1>1. CASE SnapSeq(c)
  BY <1>1 DEF SnapSeq,
     PortType, DevType, SharedType, LocalsType, PcValues, DrvValues
<1>2. CASE EnsureStreaming(c)
  BY <1>2 DEF EnsureStreaming, Goto,
     PortType, DevType, SharedType, LocalsType, PcValues, DrvValues
<1>3. CASE StreamStarted(c)
  <2> USE <1>3 DEF StreamStarted
  <2>1. PortType' BY DEF PortType
  <2>2. DevType'
    <3>1. running' \in BOOLEAN BY DEF DevType
    <3>2. frames' \in 0..Warmup BY DEF DevType
    <3> QED BY <3>1, <3>2 DEF DevType
  <2>3. SharedType' BY DEF SharedType
  <2>4. LocalsType' BY DEF LocalsType, PcValues
  <2> QED BY <2>1, <2>2, <2>3, <2>4
<1>4. CASE SnapReturn(c)
  BY <1>4 DEF SnapReturn, Return,
     PortType, DevType, SharedType, LocalsType, PcValues, DrvValues
<1>5. CASE SnapFails(c)
  BY <1>5 DEF SnapFails, Return,
     PortType, DevType, SharedType, LocalsType, PcValues, DrvValues
<1>6. CASE DescribeUnlock(c)
  BY <1>6 DEF DescribeUnlock, Goto,
     PortType, DevType, SharedType, LocalsType, PcValues, DrvValues
<1> QED BY <1>1, <1>2, <1>3, <1>4, <1>5, <1>6 DEF ClientStep

\* TypeOK: a client's first steps.
LEMMA ClientBeginTypes ==
  ASSUME NEW c \in Clients, TypeOK, HandleInv, ClientBegin(c)
  PROVE  TypeOK'
<1> USE DEF TypeOK
<1>1. ASSUME NEW n \in Skips, SnapBegin(c, n) PROVE TypeOK'
  <2> USE <1>1 DEF SnapBegin
  <2>1. PortType' BY DEF PortType
  <2>2. DevType' BY DEF DevType
  <2>3. SharedType' BY DEF SharedType
  <2>4. LocalsType' BY DEF LocalsType, PcValues
  <2> QED BY <2>1, <2>2, <2>3, <2>4
<1>2. CASE CtrlBegin(c)
  BY <1>2 DEF CtrlBegin,
     PortType, DevType, SharedType, LocalsType, PcValues, DrvValues
<1>3. CASE DescribeLock(c)
  BY <1>3 DEF DescribeLock, Goto,
     PortType, DevType, SharedType, LocalsType, PcValues, DrvValues
<1> QED BY <1>1, <1>2, <1>3 DEF ClientBegin

-----------------------------------------------------------------------------
(***************************************************************************)
(* HandleInv, an actor at a time.                                          *)
(***************************************************************************)

\* HandleInv: the cable and the clock.
LEMMA EnvironmentHandles ==
  ASSUME TypeOK, HandleInv, Environment
  PROVE  HandleInv'
<1> USE DEF HandleInv, InCall, Owns, Closing, Opening, OpenPcs,
            CallsExclusive, PendingCloseHasOwner, NoLeakedHandle,
            TypeOK, PortType, DevType, SharedType, LocalsType
<1>1. ASSUME NEW k \in Cameras, Plug(k) PROVE HandleInv'
  BY <1>1 DEF Plug
<1>2. ASSUME NEW r \in BOOLEAN, Unplug(r) PROVE HandleInv'
  BY <1>2 DEF Unplug
<1>3. CASE IdleElapse
  BY <1>3 DEF IdleElapse
<1> QED BY <1>1, <1>2, <1>3 DEF Environment

\* HandleInv: the callbacks of the driver task.
LEMMA DriverTaskHandles ==
  ASSUME TypeOK, HandleInv, DriverTask
  PROVE  HandleInv'
<1> USE DEF HandleInv, InCall, Owns, Closing, Opening, OpenPcs,
            CallsExclusive, PendingCloseHasOwner, NoLeakedHandle,
            TypeOK, PortType, DevType, SharedType, LocalsType
<1>1. CASE DeviceConnected
  BY <1>1 DEF DeviceConnected
<1>2. CASE DisconnectAttached
  BY <1>2 DEF DisconnectAttached
<1>3. CASE DisconnectConnected
  BY <1>3 DEF DisconnectConnected
<1>4. CASE DisconnectVc
  BY <1>4 DEF DisconnectVc
<1>5. CASE DisconnectDev
  BY <1>5 DEF DisconnectDev
<1>6. CASE DisconnectClose
  BY <1>6 DEF DisconnectClose, DriverClose
<1>7. CASE FrameStore
  BY <1>7 DEF FrameStore
<1> QED BY <1>1, <1>2, <1>3, <1>4, <1>5, <1>6, <1>7 DEF DriverTask

\* HandleInv: the frame callback's first critical section.
LEMMA FramesHandles ==
  ASSUME TypeOK, HandleInv, Frames
  PROVE  HandleInv'
<1> USE DEF HandleInv, InCall, Owns, Closing, Opening, OpenPcs,
            CallsExclusive, PendingCloseHasOwner, NoLeakedHandle,
            TypeOK, PortType, DevType, SharedType, LocalsType
<1>1. ASSUME NEW b \in BOOLEAN, FrameCount(b) PROVE HandleInv'
  BY <1>1 DEF FrameCount
<1> QED BY <1>1 DEF Frames

\* HandleInv: with_handle, in thread t.
LEMMA WithHandleHandles ==
  ASSUME NEW t \in Threads, TypeOK, HandleInv, WithHandle(t)
  PROVE  HandleInv'
<1> USE DEF HandleInv, InCall, Owns, Closing, Opening, OpenPcs,
            CallsExclusive, PendingCloseHasOwner, NoLeakedHandle,
            TypeOK, PortType, DevType, SharedType, LocalsType
<1>1. CASE AcquireFails(t)
  BY <1>1 DEF AcquireFails, Return
<1>2. CASE Acquire(t)
  BY <1>2 DEF Acquire
<1>3. CASE Call(t)
  BY <1>3 DEF Call, DriverStart, DriverStop, Goto
<1>4. CASE Release(t)
  <2>1. CASE pending_close BY <1>4, <2>1 DEF Release, Goto
  <2>2. CASE ~pending_close /\ Return(t) BY <1>4, <2>2 DEF Release, Return
  <2>3. CASE ~pending_close /\ (Goto(t, "started") \/ Goto(t, "stopped"))
    BY <1>4, <2>3 DEF Release, Goto
  <2> QED BY <1>4, <2>1, <2>2, <2>3 DEF Release
<1>5. CASE Close(t)
  BY <1>5 DEF Close, DriverClose, Return
<1> QED BY <1>1, <1>2, <1>3, <1>4, <1>5 DEF WithHandle

\* HandleInv: the camera-open thread.
LEMMA OpenStepHandles ==
  ASSUME TypeOK, HandleInv, OpenStep
  PROVE  HandleInv'
<1> USE DEF HandleInv, InCall, Owns, Closing, Opening, OpenPcs,
            CallsExclusive, PendingCloseHasOwner, NoLeakedHandle,
            TypeOK, PortType, DevType, SharedType, LocalsType
<1>1. CASE OpenLock
  BY <1>1 DEF OpenLock, Goto
<1>2. CASE OpenScan
  BY <1>2 DEF OpenScan, Goto
<1>3. CASE OpenBegin
  BY <1>3 DEF OpenBegin, Goto
<1>4. CASE OpenFails
  BY <1>4 DEF OpenFails, Goto
<1>5. CASE OpenFinish
  BY <1>5 DEF OpenFinish, NextCandidate, Goto
<1>6. CASE OpenDrop
  BY <1>6 DEF OpenDrop, DriverClose, NextCandidate
<1>7. CASE OpenResetSeq
  BY <1>7 DEF OpenResetSeq, Goto
<1>8. CASE OpenAttach
  BY <1>8 DEF OpenAttach, Goto
<1>9. CASE OpenReapply
  BY <1>9 DEF OpenReapply, Return
<1>10. ASSUME NEW h \in Handles, OpenSucceeds(h) PROVE HandleInv'
  BY <1>10 DEF OpenSucceeds
<1>11. ASSUME NEW b \in BOOLEAN, OpenVc(b) PROVE HandleInv'
  BY <1>11 DEF OpenVc, Goto
<1> QED BY <1>1, <1>2, <1>3, <1>4, <1>5, <1>6, <1>7, <1>8, <1>9, <1>10, <1>11 DEF OpenStep

\* HandleInv: the camera-idle thread.
LEMMA IdleStepHandles ==
  ASSUME TypeOK, HandleInv, IdleStep
  PROVE  HandleInv'
<1> USE DEF HandleInv, InCall, Owns, Closing, Opening, OpenPcs,
            CallsExclusive, PendingCloseHasOwner, NoLeakedHandle,
            TypeOK, PortType, DevType, SharedType, LocalsType
<1>1. CASE IdleTick
  BY <1>1 DEF IdleTick, Goto
<1>2. CASE IdleCheck
  BY <1>2 DEF IdleCheck, Return
<1>3. CASE IdleStopped
  BY <1>3 DEF IdleStopped, Return
<1> QED BY <1>1, <1>2, <1>3 DEF IdleStep

\* HandleInv: a client's steps under way.
LEMMA ClientStepHandles ==
  ASSUME NEW c \in Clients, TypeOK, HandleInv, ClientStep(c)
  PROVE  HandleInv'
<1> USE DEF HandleInv, InCall, Owns, Closing, Opening, OpenPcs,
            CallsExclusive, PendingCloseHasOwner, NoLeakedHandle,
            TypeOK, PortType, DevType, SharedType, LocalsType
<1>1. CASE SnapSeq(c)
  BY <1>1 DEF SnapSeq
<1>2. CASE EnsureStreaming(c)
  BY <1>2 DEF EnsureStreaming, Goto
<1>3. CASE StreamStarted(c)
  BY <1>3 DEF StreamStarted
<1>4. CASE SnapReturn(c)
  BY <1>4 DEF SnapReturn, Return
<1>5. CASE SnapFails(c)
  BY <1>5 DEF SnapFails, Return
<1>6. CASE DescribeUnlock(c)
  BY <1>6 DEF DescribeUnlock, Goto
<1> QED BY <1>1, <1>2, <1>3, <1>4, <1>5, <1>6 DEF ClientStep

\* HandleInv: a client's first steps.
LEMMA ClientBeginHandles ==
  ASSUME NEW c \in Clients, TypeOK, HandleInv, ClientBegin(c)
  PROVE  HandleInv'
<1> USE DEF HandleInv, InCall, Owns, Closing, Opening, OpenPcs,
            CallsExclusive, PendingCloseHasOwner, NoLeakedHandle,
            TypeOK, PortType, DevType, SharedType, LocalsType
<1>1. ASSUME NEW n \in Skips, SnapBegin(c, n) PROVE HandleInv'
  BY <1>1 DEF SnapBegin
<1>2. CASE CtrlBegin(c)
  BY <1>2 DEF CtrlBegin
<1>3. CASE DescribeLock(c)
  BY <1>3 DEF DescribeLock, Goto
<1> QED BY <1>1, <1>2, <1>3 DEF ClientBegin

-----------------------------------------------------------------------------
(***************************************************************************)
(* Put together.                                                           *)
(***************************************************************************)

\* The initial state satisfies the types and the invariant.
LEMMA InitHandleInv == Init => TypeOK /\ HandleInv
<1> SUFFICES ASSUME Init PROVE TypeOK /\ HandleInv
  OBVIOUS
<1> USE DEF Init
<1>1. PortType BY DEF PortType
<1>2. DevType
  <2>1. frames \in 0..Warmup OBVIOUS
  <2>2. in_use \in BOOLEAN /\ pending_close \in BOOLEAN /\ running \in BOOLEAN
    BY Zenon
  <2> QED BY <2>1, <2>2 DEF DevType
<1>3. SharedType BY DEF SharedType, DrvValues
<1>4. LocalsType BY DEF LocalsType, PcValues
<1>5. HandleInv
  BY DEF HandleInv, InCall, Owns, Closing, Opening, OpenPcs, CallsExclusive,
         PendingCloseHasOwner, NoLeakedHandle
<1> QED BY <1>1, <1>2, <1>3, <1>4, <1>5 DEF TypeOK

\* No step leaves the types ...
LEMMA NextTypes == TypeOK /\ HandleInv /\ [Next]_vars => TypeOK'
<1> SUFFICES ASSUME TypeOK, HandleInv, [Next]_vars PROVE TypeOK'
  OBVIOUS
<1>1. CASE Environment BY <1>1, EnvironmentTypes
<1>2. CASE DriverTask BY <1>2, DriverTaskTypes
<1>3. CASE Frames BY <1>3, FramesTypes
<1>4. CASE \E t \in Threads : WithHandle(t) BY <1>4, WithHandleTypes
<1>5. CASE OpenStep BY <1>5, OpenStepTypes
<1>6. CASE IdleStep BY <1>6, IdleStepTypes
<1>7. CASE \E c \in Clients : ClientStep(c) \/ ClientBegin(c)
  BY <1>7, ClientStepTypes, ClientBeginTypes
<1>8. CASE UNCHANGED vars
  BY <1>8 DEF vars, TypeOK, PortType, DevType, SharedType, LocalsType
<1> QED BY <1>1, <1>2, <1>3, <1>4, <1>5, <1>6, <1>7, <1>8 DEF Next

\* ... or breaks the invariant.
LEMMA NextHandleInv == TypeOK /\ HandleInv /\ [Next]_vars => HandleInv'
<1> SUFFICES ASSUME TypeOK, HandleInv, [Next]_vars PROVE HandleInv'
  OBVIOUS
<1>1. CASE Environment BY <1>1, EnvironmentHandles
<1>2. CASE DriverTask BY <1>2, DriverTaskHandles
<1>3. CASE Frames BY <1>3, FramesHandles
<1>4. CASE \E t \in Threads : WithHandle(t) BY <1>4, WithHandleHandles
<1>5. CASE OpenStep BY <1>5, OpenStepHandles
<1>6. CASE IdleStep BY <1>6, IdleStepHandles
<1>7. CASE \E c \in Clients : ClientStep(c) \/ ClientBegin(c)
  BY <1>7, ClientStepHandles, ClientBeginHandles
<1>8. CASE UNCHANGED vars
  BY <1>8 DEF vars, HandleInv, InCall, Owns, Closing, Opening, OpenPcs,
              CallsExclusive, PendingCloseHasOwner, NoLeakedHandle
<1> QED BY <1>1, <1>2, <1>3, <1>4, <1>5, <1>6, <1>7, <1>8 DEF Next

(***************************************************************************)
(* The state of struct Inner, of the driver and of every thread keeps its  *)
(* type, and the invariant of the in-use protocol holds in every state.    *)
(***************************************************************************)
THEOREM HandleInvariant == Spec => [](TypeOK /\ HandleInv)
<1>1. TypeOK /\ HandleInv /\ [Next]_vars => (TypeOK /\ HandleInv)'
  BY NextTypes, NextHandleInv
<1> QED BY <1>1, InitHandleInv, PTL DEF Spec

\* The types alone: the statement the model checker evaluates.
THEOREM TypeCorrect == Spec => []TypeOK
BY HandleInvariant, PTL

(***************************************************************************)
(* A thread calling into the driver never has its handle closed under it   *)
(* (the comment on struct DevState), for any number of threads.            *)
(***************************************************************************)
THEOREM CallsAreOnOpenHandles == Spec => []NoCallOnClosedHandle
<1>1. TypeOK /\ HandleInv => NoCallOnClosedHandle
  BY DEF HandleInv, NoCallOnClosedHandle, TypeOK, PortType, DevType, LocalsType,
         InCall, Owns, Closing
<1> QED BY <1>1, HandleInvariant, PTL

\* Every stream handle is closed at most once and none is lost: the close
\* of a stream whose camera left is made by exactly one thread.
THEOREM HandlesAreClosedOnce == Spec => [](ClosedOnce /\ NoLeakedHandle)
<1>1. TypeOK /\ HandleInv => ClosedOnce /\ NoLeakedHandle
  BY DEF HandleInv, ClosedOnce, Owns, Closing
<1> QED BY <1>1, HandleInvariant, PTL

\* in_use serialises with_handle and open_with, and a pending close always
\* has a call under way that will perform it.
THEOREM CallsAreSerialised == Spec => [](CallsExclusive /\ PendingCloseHasOwner)
<1>1. HandleInv => CallsExclusive /\ PendingCloseHasOwner
  BY DEF HandleInv
<1> QED BY <1>1, HandleInvariant, PTL
-----------------------------------------------------------------------------
(***************************************************************************)
(* OpsInv, an actor at a time.                                             *)
(***************************************************************************)

\* OpsInv: the cable and the clock.
LEMMA EnvironmentOps ==
  ASSUME TypeOK, OpsInv, Environment
  PROVE  OpsInv'
<1> USE DEF OpsInv, OpenPcs, TypeOK, LocalsType
<1>1. ASSUME NEW k \in Cameras, Plug(k) PROVE OpsInv'
  BY <1>1 DEF Plug
<1>2. ASSUME NEW r \in BOOLEAN, Unplug(r) PROVE OpsInv'
  BY <1>2 DEF Unplug
<1>3. CASE IdleElapse
  BY <1>3 DEF IdleElapse
<1> QED BY <1>1, <1>2, <1>3 DEF Environment

\* OpsInv: the callbacks of the driver task.
LEMMA DriverTaskOps ==
  ASSUME TypeOK, OpsInv, DriverTask
  PROVE  OpsInv'
<1> USE DEF OpsInv, OpenPcs, TypeOK, LocalsType
<1>1. CASE DeviceConnected
  BY <1>1 DEF DeviceConnected
<1>2. CASE DisconnectAttached
  BY <1>2 DEF DisconnectAttached
<1>3. CASE DisconnectConnected
  BY <1>3 DEF DisconnectConnected
<1>4. CASE DisconnectVc
  BY <1>4 DEF DisconnectVc
<1>5. CASE DisconnectDev
  BY <1>5 DEF DisconnectDev
<1>6. CASE DisconnectClose
  BY <1>6 DEF DisconnectClose, DriverClose
<1>7. CASE FrameStore
  BY <1>7 DEF FrameStore
<1> QED BY <1>1, <1>2, <1>3, <1>4, <1>5, <1>6, <1>7 DEF DriverTask

\* OpsInv: the frame callback's first critical section.
LEMMA FramesOps ==
  ASSUME TypeOK, OpsInv, Frames
  PROVE  OpsInv'
<1> USE DEF OpsInv, OpenPcs, TypeOK, LocalsType
<1>1. ASSUME NEW b \in BOOLEAN, FrameCount(b) PROVE OpsInv'
  BY <1>1 DEF FrameCount
<1> QED BY <1>1 DEF Frames

\* OpsInv: with_handle, in thread t.
LEMMA WithHandleOps ==
  ASSUME NEW t \in Threads, TypeOK, OpsInv, WithHandle(t)
  PROVE  OpsInv'
<1> USE DEF OpsInv, OpenPcs, TypeOK, LocalsType
<1>1. CASE AcquireFails(t)
  BY <1>1 DEF AcquireFails, Return
<1>2. CASE Acquire(t)
  BY <1>2 DEF Acquire
<1>3. CASE Call(t)
  BY <1>3 DEF Call, DriverStart, DriverStop, Goto
<1>4. CASE Release(t)
  BY <1>4 DEF Release, Goto, Return
<1>5. CASE Close(t)
  BY <1>5 DEF Close, DriverClose, Return
<1> QED BY <1>1, <1>2, <1>3, <1>4, <1>5 DEF WithHandle

\* OpsInv: the camera-open thread.
LEMMA OpenStepOps ==
  ASSUME TypeOK, OpsInv, OpenStep
  PROVE  OpsInv'
<1> USE DEF OpsInv, OpenPcs, TypeOK, LocalsType
<1>1. CASE OpenLock
  BY <1>1 DEF OpenLock, Goto
<1>2. CASE OpenScan
  BY <1>2 DEF OpenScan, Goto
<1>3. CASE OpenBegin
  BY <1>3 DEF OpenBegin, Goto
<1>4. CASE OpenFails
  BY <1>4 DEF OpenFails, Goto
<1>5. CASE OpenFinish
  BY <1>5 DEF OpenFinish, NextCandidate, Goto
<1>6. CASE OpenDrop
  BY <1>6 DEF OpenDrop, DriverClose, NextCandidate
<1>7. CASE OpenResetSeq
  BY <1>7 DEF OpenResetSeq, Goto
<1>8. CASE OpenAttach
  BY <1>8 DEF OpenAttach, Goto
<1>9. CASE OpenReapply
  BY <1>9 DEF OpenReapply, Return
<1>10. ASSUME NEW h \in Handles, OpenSucceeds(h) PROVE OpsInv'
  BY <1>10 DEF OpenSucceeds
<1>11. ASSUME NEW b \in BOOLEAN, OpenVc(b) PROVE OpsInv'
  BY <1>11 DEF OpenVc, Goto
<1> QED BY <1>1, <1>2, <1>3, <1>4, <1>5, <1>6, <1>7, <1>8, <1>9, <1>10, <1>11 DEF OpenStep

\* OpsInv: the camera-idle thread.
LEMMA IdleStepOps ==
  ASSUME TypeOK, OpsInv, IdleStep
  PROVE  OpsInv'
<1> USE DEF OpsInv, OpenPcs, TypeOK, LocalsType
<1>1. CASE IdleTick
  BY <1>1 DEF IdleTick, Goto
<1>2. CASE IdleCheck
  BY <1>2 DEF IdleCheck, Return
<1>3. CASE IdleStopped
  BY <1>3 DEF IdleStopped, Return
<1> QED BY <1>1, <1>2, <1>3 DEF IdleStep

\* OpsInv: a client's steps under way.
LEMMA ClientStepOps ==
  ASSUME NEW c \in Clients, TypeOK, OpsInv, ClientStep(c)
  PROVE  OpsInv'
<1> USE DEF OpsInv, OpenPcs, TypeOK, LocalsType
<1>1. CASE SnapSeq(c)
  BY <1>1 DEF SnapSeq
<1>2. CASE EnsureStreaming(c)
  BY <1>2 DEF EnsureStreaming, Goto
<1>3. CASE StreamStarted(c)
  BY <1>3 DEF StreamStarted
<1>4. CASE SnapReturn(c)
  BY <1>4 DEF SnapReturn, Return
<1>5. CASE SnapFails(c)
  BY <1>5 DEF SnapFails, Return
<1>6. CASE DescribeUnlock(c)
  BY <1>6 DEF DescribeUnlock, Goto
<1> QED BY <1>1, <1>2, <1>3, <1>4, <1>5, <1>6 DEF ClientStep

\* OpsInv: a client's first steps.
LEMMA ClientBeginOps ==
  ASSUME NEW c \in Clients, TypeOK, OpsInv, ClientBegin(c)
  PROVE  OpsInv'
<1> USE DEF OpsInv, OpenPcs, TypeOK, LocalsType
<1>1. ASSUME NEW n \in Skips, SnapBegin(c, n) PROVE OpsInv'
  BY <1>1 DEF SnapBegin
<1>2. CASE CtrlBegin(c)
  BY <1>2 DEF CtrlBegin
<1>3. CASE DescribeLock(c)
  BY <1>3 DEF DescribeLock, Goto
<1> QED BY <1>1, <1>2, <1>3 DEF ClientBegin
-----------------------------------------------------------------------------
(***************************************************************************)
(* RunningInv, an actor at a time.                                         *)
(***************************************************************************)

\* RunningInv: the cable and the clock.
LEMMA EnvironmentRunning ==
  ASSUME TypeOK, HandleInv, OpsInv, RunningInv, Environment
  PROVE  RunningInv'
<1> USE DEF RunningInv, JustStarted, Disconnecting, OpsInv, OpenPcs,
            HandleInv, CallsExclusive, InCall, Owns, Closing,
            TypeOK, PortType, DevType, SharedType, LocalsType
<1>1. ASSUME NEW k \in Cameras, Plug(k) PROVE RunningInv'
  BY <1>1 DEF Plug
<1>2. ASSUME NEW r \in BOOLEAN, Unplug(r) PROVE RunningInv'
  BY <1>2 DEF Unplug
<1>3. CASE IdleElapse
  BY <1>3 DEF IdleElapse
<1> QED BY <1>1, <1>2, <1>3 DEF Environment

\* RunningInv: the callbacks of the driver task.
LEMMA DriverTaskRunning ==
  ASSUME TypeOK, HandleInv, OpsInv, RunningInv, DriverTask
  PROVE  RunningInv'
<1> USE DEF RunningInv, JustStarted, Disconnecting, OpsInv, OpenPcs,
            HandleInv, CallsExclusive, InCall, Owns, Closing,
            TypeOK, PortType, DevType, SharedType, LocalsType
<1>1. CASE DeviceConnected
  BY <1>1 DEF DeviceConnected
<1>2. CASE DisconnectAttached
  BY <1>2 DEF DisconnectAttached
<1>3. CASE DisconnectConnected
  BY <1>3 DEF DisconnectConnected
<1>4. CASE DisconnectVc
  BY <1>4 DEF DisconnectVc
<1>5. CASE DisconnectDev
  BY <1>5 DEF DisconnectDev
<1>6. CASE DisconnectClose
  BY <1>6 DEF DisconnectClose, DriverClose
<1>7. CASE FrameStore
  BY <1>7 DEF FrameStore
<1> QED BY <1>1, <1>2, <1>3, <1>4, <1>5, <1>6, <1>7 DEF DriverTask

\* RunningInv: the frame callback's first critical section.
LEMMA FramesRunning ==
  ASSUME TypeOK, HandleInv, OpsInv, RunningInv, Frames
  PROVE  RunningInv'
<1> USE DEF RunningInv, JustStarted, Disconnecting, OpsInv, OpenPcs,
            HandleInv, CallsExclusive, InCall, Owns, Closing,
            TypeOK, PortType, DevType, SharedType, LocalsType
<1>1. ASSUME NEW b \in BOOLEAN, FrameCount(b) PROVE RunningInv'
  BY <1>1 DEF FrameCount
<1> QED BY <1>1 DEF Frames

\* RunningInv: with_handle, in thread t.
LEMMA WithHandleRunning ==
  ASSUME NEW t \in Threads, TypeOK, HandleInv, OpsInv, RunningInv, WithHandle(t)
  PROVE  RunningInv'
<1> USE DEF RunningInv, JustStarted, Disconnecting, OpsInv, OpenPcs,
            HandleInv, CallsExclusive, InCall, Owns, Closing,
            TypeOK, PortType, DevType, SharedType, LocalsType
<1>1. CASE AcquireFails(t)
  BY <1>1 DEF AcquireFails, Return
<1>2. CASE Acquire(t)
  BY <1>2 DEF Acquire
<1>3. CASE Call(t)
  BY <1>3 DEF Call, DriverStart, DriverStop, Goto
<1>4. CASE Release(t)
  BY <1>4 DEF Release, Goto, Return
<1>5. CASE Close(t)
  BY <1>5 DEF Close, DriverClose, Return
<1> QED BY <1>1, <1>2, <1>3, <1>4, <1>5 DEF WithHandle

\* RunningInv: the camera-open thread.
LEMMA OpenStepRunning ==
  ASSUME TypeOK, HandleInv, OpsInv, RunningInv, OpenStep
  PROVE  RunningInv'
<1> USE DEF RunningInv, JustStarted, Disconnecting, OpsInv, OpenPcs,
            HandleInv, CallsExclusive, InCall, Owns, Closing,
            TypeOK, PortType, DevType, SharedType, LocalsType
<1>1. CASE OpenLock
  BY <1>1 DEF OpenLock, Goto
<1>2. CASE OpenScan
  BY <1>2 DEF OpenScan, Goto
<1>3. CASE OpenBegin
  BY <1>3 DEF OpenBegin, Goto
<1>4. CASE OpenFails
  BY <1>4 DEF OpenFails, Goto
<1>5. CASE OpenFinish
  BY <1>5 DEF OpenFinish, NextCandidate, Goto
<1>6. CASE OpenDrop
  BY <1>6 DEF OpenDrop, DriverClose, NextCandidate
<1>7. CASE OpenResetSeq
  BY <1>7 DEF OpenResetSeq, Goto
<1>8. CASE OpenAttach
  BY <1>8 DEF OpenAttach, Goto
<1>9. CASE OpenReapply
  BY <1>9 DEF OpenReapply, Return
<1>10. ASSUME NEW h \in Handles, OpenSucceeds(h) PROVE RunningInv'
  BY <1>10 DEF OpenSucceeds
<1>11. ASSUME NEW b \in BOOLEAN, OpenVc(b) PROVE RunningInv'
  BY <1>11 DEF OpenVc, Goto
<1> QED BY <1>1, <1>2, <1>3, <1>4, <1>5, <1>6, <1>7, <1>8, <1>9, <1>10, <1>11 DEF OpenStep

\* RunningInv: the camera-idle thread.
LEMMA IdleStepRunning ==
  ASSUME TypeOK, HandleInv, OpsInv, RunningInv, IdleStep
  PROVE  RunningInv'
<1> USE DEF RunningInv, JustStarted, Disconnecting, OpsInv, OpenPcs,
            HandleInv, CallsExclusive, InCall, Owns, Closing,
            TypeOK, PortType, DevType, SharedType, LocalsType
<1>1. CASE IdleTick
  BY <1>1 DEF IdleTick, Goto
<1>2. CASE IdleCheck
  BY <1>2 DEF IdleCheck, Return
<1>3. CASE IdleStopped
  BY <1>3 DEF IdleStopped, Return
<1> QED BY <1>1, <1>2, <1>3 DEF IdleStep

\* RunningInv: a client's steps under way.
LEMMA ClientStepRunning ==
  ASSUME NEW c \in Clients, TypeOK, HandleInv, OpsInv, RunningInv, ClientStep(c)
  PROVE  RunningInv'
<1> USE DEF RunningInv, JustStarted, Disconnecting, OpsInv, OpenPcs,
            HandleInv, CallsExclusive, InCall, Owns, Closing,
            TypeOK, PortType, DevType, SharedType, LocalsType
<1>1. CASE SnapSeq(c)
  BY <1>1 DEF SnapSeq
<1>2. CASE EnsureStreaming(c)
  BY <1>2 DEF EnsureStreaming, Goto
<1>3. CASE StreamStarted(c)
  BY <1>3 DEF StreamStarted
<1>4. CASE SnapReturn(c)
  BY <1>4 DEF SnapReturn, Return
<1>5. CASE SnapFails(c)
  BY <1>5 DEF SnapFails, Return
<1>6. CASE DescribeUnlock(c)
  BY <1>6 DEF DescribeUnlock, Goto
<1> QED BY <1>1, <1>2, <1>3, <1>4, <1>5, <1>6 DEF ClientStep

\* RunningInv: a client's first steps.
LEMMA ClientBeginRunning ==
  ASSUME NEW c \in Clients, TypeOK, HandleInv, OpsInv, RunningInv, ClientBegin(c)
  PROVE  RunningInv'
<1> USE DEF RunningInv, JustStarted, Disconnecting, OpsInv, OpenPcs,
            HandleInv, CallsExclusive, InCall, Owns, Closing,
            TypeOK, PortType, DevType, SharedType, LocalsType
<1>1. ASSUME NEW n \in Skips, SnapBegin(c, n) PROVE RunningInv'
  BY <1>1 DEF SnapBegin
<1>2. CASE CtrlBegin(c)
  BY <1>2 DEF CtrlBegin
<1>3. CASE DescribeLock(c)
  BY <1>3 DEF DescribeLock, Goto
<1> QED BY <1>1, <1>2, <1>3 DEF ClientBegin

-----------------------------------------------------------------------------
(***************************************************************************)
(* SnapshotInv, an actor at a time.                                        *)
(***************************************************************************)

\* SkipCap is above every skip.
LEMMA SkipCapAbove == SkipCap \in Nat /\ \A n \in Skips : n < SkipCap
<1>1. PICK m : m = CHOOSE x \in Skips \cup {0} : \A n \in Skips : n <= x
  OBVIOUS
<1>2. m \in Skips \cup {0} /\ \A n \in Skips : n <= m
  BY <1>1 DEF CameraAssumption
<1>3. m \in Nat /\ Skips \subseteq Nat
  BY <1>2 DEF CameraAssumption
<1>4. SkipCap = 1 + m
  BY <1>1 DEF SkipCap
<1> QED BY <1>2, <1>3, <1>4

\* SnapshotInv: the cable and the clock.
LEMMA EnvironmentSnapshots ==
  ASSUME TypeOK, HandleInv, OpsInv, SnapshotInv, Environment
  PROVE  SnapshotInv'
<1> USE DEF SnapshotInv, OpsInv, OpenPcs, HandleInv,
            TypeOK, SharedType, LocalsType
<1>1. ASSUME NEW k \in Cameras, Plug(k) PROVE SnapshotInv'
  BY <1>1 DEF Plug
<1>2. ASSUME NEW r \in BOOLEAN, Unplug(r) PROVE SnapshotInv'
  BY <1>2 DEF Unplug
<1>3. CASE IdleElapse
  BY <1>3 DEF IdleElapse
<1> QED BY <1>1, <1>2, <1>3 DEF Environment

\* SnapshotInv: the callbacks of the driver task.
LEMMA DriverTaskSnapshots ==
  ASSUME TypeOK, HandleInv, OpsInv, SnapshotInv, DriverTask
  PROVE  SnapshotInv'
<1> USE DEF SnapshotInv, OpsInv, OpenPcs, HandleInv,
            TypeOK, SharedType, LocalsType
<1>1. CASE DeviceConnected
  BY <1>1 DEF DeviceConnected
<1>2. CASE DisconnectAttached
  BY <1>2 DEF DisconnectAttached
<1>3. CASE DisconnectConnected
  BY <1>3 DEF DisconnectConnected
<1>4. CASE DisconnectVc
  BY <1>4 DEF DisconnectVc
<1>5. CASE DisconnectDev
  BY <1>5 DEF DisconnectDev
<1>6. CASE DisconnectClose
  BY <1>6 DEF DisconnectClose, DriverClose
<1>7. CASE FrameStore
  <2> SUFFICES ASSUME NEW c \in Clients, op[c] = "start"
               PROVE  /\ skip[c] < SkipCap
                      /\ pc[c] # "seq" => seq' <= start[c] + got'[c] \/ got'[c] >= SkipCap
    BY <1>7 DEF FrameStore
  <2>1. /\ seq \in Nat /\ seq' = seq + 1 /\ start[c] \in Nat /\ got[c] \in Nat
        /\ pc[c] # "seq" => got'[c] = IF got[c] < SkipCap THEN got[c] + 1 ELSE got[c]
    BY <1>7 DEF FrameStore
  <2> QED BY <2>1, SkipCapAbove
<1> QED BY <1>1, <1>2, <1>3, <1>4, <1>5, <1>6, <1>7 DEF DriverTask

\* SnapshotInv: the frame callback's first critical section.
LEMMA FramesSnapshots ==
  ASSUME TypeOK, HandleInv, OpsInv, SnapshotInv, Frames
  PROVE  SnapshotInv'
<1> USE DEF SnapshotInv, OpsInv, OpenPcs, HandleInv,
            TypeOK, SharedType, LocalsType
<1>1. ASSUME NEW b \in BOOLEAN, FrameCount(b) PROVE SnapshotInv'
  BY <1>1 DEF FrameCount
<1> QED BY <1>1 DEF Frames

\* SnapshotInv: with_handle, in thread t.
LEMMA WithHandleSnapshots ==
  ASSUME NEW t \in Threads, TypeOK, HandleInv, OpsInv, SnapshotInv, WithHandle(t)
  PROVE  SnapshotInv'
<1> USE DEF SnapshotInv, OpsInv, OpenPcs, HandleInv,
            TypeOK, SharedType, LocalsType
<1>1. CASE AcquireFails(t)
  BY <1>1 DEF AcquireFails, Return
<1>2. CASE Acquire(t)
  BY <1>2 DEF Acquire
<1>3. CASE Call(t)
  BY <1>3 DEF Call, DriverStart, DriverStop, Goto
<1>4. CASE Release(t)
  BY <1>4 DEF Release, Goto, Return
<1>5. CASE Close(t)
  BY <1>5 DEF Close, DriverClose, Return
<1> QED BY <1>1, <1>2, <1>3, <1>4, <1>5 DEF WithHandle

\* SnapshotInv: the camera-open thread.
LEMMA OpenStepSnapshots ==
  ASSUME TypeOK, HandleInv, OpsInv, SnapshotInv, OpenStep
  PROVE  SnapshotInv'
<1> USE DEF SnapshotInv, OpsInv, OpenPcs, HandleInv,
            TypeOK, SharedType, LocalsType
<1>1. CASE OpenLock
  BY <1>1 DEF OpenLock, Goto
<1>2. CASE OpenScan
  BY <1>2 DEF OpenScan, Goto
<1>3. CASE OpenBegin
  BY <1>3 DEF OpenBegin, Goto
<1>4. CASE OpenFails
  BY <1>4 DEF OpenFails, Goto
<1>5. CASE OpenFinish
  BY <1>5 DEF OpenFinish, NextCandidate, Goto
<1>6. CASE OpenDrop
  BY <1>6 DEF OpenDrop, DriverClose, NextCandidate
<1>7. CASE OpenResetSeq
  BY <1>7 DEF OpenResetSeq, Goto
<1>8. CASE OpenAttach
  BY <1>8 DEF OpenAttach, Goto
<1>9. CASE OpenReapply
  BY <1>9 DEF OpenReapply, Return
<1>10. ASSUME NEW h \in Handles, OpenSucceeds(h) PROVE SnapshotInv'
  BY <1>10 DEF OpenSucceeds
<1>11. ASSUME NEW b \in BOOLEAN, OpenVc(b) PROVE SnapshotInv'
  BY <1>11 DEF OpenVc, Goto
<1> QED BY <1>1, <1>2, <1>3, <1>4, <1>5, <1>6, <1>7, <1>8, <1>9, <1>10, <1>11 DEF OpenStep

\* SnapshotInv: the camera-idle thread.
LEMMA IdleStepSnapshots ==
  ASSUME TypeOK, HandleInv, OpsInv, SnapshotInv, IdleStep
  PROVE  SnapshotInv'
<1> USE DEF SnapshotInv, OpsInv, OpenPcs, HandleInv,
            TypeOK, SharedType, LocalsType
<1>1. CASE IdleTick
  BY <1>1 DEF IdleTick, Goto
<1>2. CASE IdleCheck
  BY <1>2 DEF IdleCheck, Return
<1>3. CASE IdleStopped
  BY <1>3 DEF IdleStopped, Return
<1> QED BY <1>1, <1>2, <1>3 DEF IdleStep

\* SnapshotInv: a client's steps under way.
LEMMA ClientStepSnapshots ==
  ASSUME NEW c \in Clients, TypeOK, HandleInv, OpsInv, SnapshotInv, ClientStep(c)
  PROVE  SnapshotInv'
<1> USE DEF SnapshotInv, OpsInv, OpenPcs, HandleInv,
            TypeOK, SharedType, LocalsType
<1>1. CASE SnapSeq(c)
  BY <1>1 DEF SnapSeq
<1>2. CASE EnsureStreaming(c)
  BY <1>2 DEF EnsureStreaming, Goto
<1>3. CASE StreamStarted(c)
  BY <1>3 DEF StreamStarted
<1>4. CASE SnapReturn(c)
  BY <1>4 DEF SnapReturn, Return
<1>5. CASE SnapFails(c)
  BY <1>5 DEF SnapFails, Return
<1>6. CASE DescribeUnlock(c)
  BY <1>6 DEF DescribeUnlock, Goto
<1> QED BY <1>1, <1>2, <1>3, <1>4, <1>5, <1>6 DEF ClientStep

\* SnapshotInv: a client's first steps.
LEMMA ClientBeginSnapshots ==
  ASSUME NEW c \in Clients, TypeOK, HandleInv, OpsInv, SnapshotInv, ClientBegin(c)
  PROVE  SnapshotInv'
<1> USE DEF SnapshotInv, OpsInv, OpenPcs, HandleInv,
            TypeOK, SharedType, LocalsType
<1>1. ASSUME NEW n \in Skips, SnapBegin(c, n) PROVE SnapshotInv'
  <2>1. n < SkipCap
    BY SkipCapAbove
  <2> QED BY <1>1, <2>1 DEF SnapBegin
<1>2. CASE CtrlBegin(c)
  BY <1>2 DEF CtrlBegin
<1>3. CASE DescribeLock(c)
  BY <1>3 DEF DescribeLock, Goto
<1> QED BY <1>1, <1>2, <1>3 DEF ClientBegin
-----------------------------------------------------------------------------
(***************************************************************************)
(* Frames, warm-up and running.                                            *)
(***************************************************************************)

\* The inductive invariant of the stream and its snapshots.
CameraInv == TypeOK /\ HandleInv /\ OpsInv /\ RunningInv /\ SnapshotInv

\* It holds at first.
LEMMA InitCameraInv == Init => CameraInv
<1> SUFFICES ASSUME Init PROVE CameraInv
  OBVIOUS
<1>1. TypeOK /\ HandleInv
  BY InitHandleInv
<1>2. OpsInv
  BY DEF Init, OpsInv
<1>3. RunningInv
  BY DEF Init, RunningInv, Disconnecting
<1>4. SnapshotInv
  BY DEF Init, SnapshotInv
<1> QED BY <1>1, <1>2, <1>3, <1>4 DEF CameraInv

\* No step breaks OpsInv ...
LEMMA NextOpsInv == TypeOK /\ HandleInv /\ OpsInv /\ [Next]_vars => OpsInv'
<1> SUFFICES ASSUME TypeOK, HandleInv, OpsInv, [Next]_vars PROVE OpsInv'
  OBVIOUS
<1>1. CASE Environment BY <1>1, EnvironmentOps
<1>2. CASE DriverTask BY <1>2, DriverTaskOps
<1>3. CASE Frames BY <1>3, FramesOps
<1>4. CASE \E t \in Threads : WithHandle(t) BY <1>4, WithHandleOps
<1>5. CASE OpenStep BY <1>5, OpenStepOps
<1>6. CASE IdleStep BY <1>6, IdleStepOps
<1>7. CASE \E c \in Clients : ClientStep(c) \/ ClientBegin(c)
  BY <1>7, ClientStepOps, ClientBeginOps
<1>8. CASE UNCHANGED vars
  BY <1>8 DEF vars, OpsInv
<1> QED BY <1>1, <1>2, <1>3, <1>4, <1>5, <1>6, <1>7, <1>8 DEF Next

\* ... RunningInv ...
LEMMA NextRunningInv ==
  TypeOK /\ HandleInv /\ OpsInv /\ RunningInv /\ [Next]_vars => RunningInv'
<1> SUFFICES ASSUME TypeOK, HandleInv, OpsInv, RunningInv, [Next]_vars PROVE RunningInv'
  OBVIOUS
<1>1. CASE Environment BY <1>1, EnvironmentRunning
<1>2. CASE DriverTask BY <1>2, DriverTaskRunning
<1>3. CASE Frames BY <1>3, FramesRunning
<1>4. CASE \E t \in Threads : WithHandle(t) BY <1>4, WithHandleRunning
<1>5. CASE OpenStep BY <1>5, OpenStepRunning
<1>6. CASE IdleStep BY <1>6, IdleStepRunning
<1>7. CASE \E c \in Clients : ClientStep(c) \/ ClientBegin(c)
  BY <1>7, ClientStepRunning, ClientBeginRunning
<1>8. CASE UNCHANGED vars
  BY <1>8 DEF vars, RunningInv, Disconnecting, JustStarted
<1> QED BY <1>1, <1>2, <1>3, <1>4, <1>5, <1>6, <1>7, <1>8 DEF Next

\* ... SnapshotInv ...
LEMMA NextSnapshotInv ==
  TypeOK /\ HandleInv /\ OpsInv /\ SnapshotInv /\ [Next]_vars => SnapshotInv'
<1> SUFFICES ASSUME TypeOK, HandleInv, OpsInv, SnapshotInv, [Next]_vars PROVE SnapshotInv'
  OBVIOUS
<1>1. CASE Environment BY <1>1, EnvironmentSnapshots
<1>2. CASE DriverTask BY <1>2, DriverTaskSnapshots
<1>3. CASE Frames BY <1>3, FramesSnapshots
<1>4. CASE \E t \in Threads : WithHandle(t) BY <1>4, WithHandleSnapshots
<1>5. CASE OpenStep BY <1>5, OpenStepSnapshots
<1>6. CASE IdleStep BY <1>6, IdleStepSnapshots
<1>7. CASE \E c \in Clients : ClientStep(c) \/ ClientBegin(c)
  BY <1>7, ClientStepSnapshots, ClientBeginSnapshots
<1>8. CASE UNCHANGED vars
  BY <1>8 DEF vars, SnapshotInv
<1> QED BY <1>1, <1>2, <1>3, <1>4, <1>5, <1>6, <1>7, <1>8 DEF Next

\* The stream invariant holds in every state.
LEMMA CameraAlways == Spec => []CameraInv
<1>1. CameraInv /\ [Next]_vars => CameraInv'
  BY NextTypes, NextHandleInv, NextOpsInv, NextRunningInv, NextSnapshotInv DEF CameraInv
<1>2. Init => CameraInv
  BY InitCameraInv
<1> QED BY <1>1, <1>2, PTL DEF Spec

(***************************************************************************)
(* Whoever takes a snapshot gets a frame stored after its call, and skip   *)
(* more have passed, for any number of clients, any skips and any replugs  *)
(* that set seq back (snapshot).                                           *)
(***************************************************************************)
THEOREM SnapshotsAreFresh == Spec => FrameIsFresh
<1>1. ASSUME CameraInv, NEW c \in Clients, SnapReturn(c) PROVE got[c] > skip[c]
  <2>1. /\ seq \in Nat /\ start[c] \in Nat /\ got[c] \in Nat /\ skip[c] \in Nat
        /\ op[c] = "start" /\ pc[c] = "wait"
    BY <1>1 DEF CameraInv, TypeOK, SharedType, LocalsType, OpsInv, SnapReturn
  <2>2. seq > start[c] + skip[c]
    BY <1>1 DEF SnapReturn
  <2>3. skip[c] < SkipCap /\ (seq <= start[c] + got[c] \/ got[c] >= SkipCap)
    BY <1>1, <2>1 DEF CameraInv, SnapshotInv
  <2> QED BY <2>1, <2>2, <2>3, SkipCapAbove
<1>2. CameraInv /\ [Next]_vars => [\A c \in Clients : SnapReturn(c) => got[c] > skip[c]]_vars
  BY <1>1
<1> QED BY <1>2, CameraAlways, PTL DEF Spec, FrameIsFresh

\* Only frame_cb lets a frame of the warm-up pass.
LEMMA WarmFrame ==
  ASSUME [Next]_vars, drv_warm', ~drv_warm
  PROVE  \E b \in BOOLEAN : FrameCount(b)
<1>1. CASE Environment
  BY <1>1 DEF Environment, Plug, Unplug, IdleElapse
<1>2. CASE DriverTask
  BY <1>2 DEF DriverTask, DeviceConnected, DisconnectAttached, DisconnectConnected,
              DisconnectVc, DisconnectDev, DisconnectClose, FrameStore
<1>3. CASE \E t \in Threads : WithHandle(t)
  BY <1>3 DEF WithHandle, AcquireFails, Acquire, Call, Release, Close
<1>4. CASE OpenStep
  BY <1>4 DEF OpenStep, OpenLock, OpenScan, OpenBegin, OpenFails, OpenFinish, OpenDrop,
              OpenResetSeq, OpenAttach, OpenReapply, OpenSucceeds, OpenVc
<1>5. CASE IdleStep
  BY <1>5 DEF IdleStep, IdleTick, IdleCheck, IdleStopped
<1>6. CASE \E c \in Clients : ClientStep(c) \/ ClientBegin(c)
  BY <1>6 DEF ClientStep, SnapSeq, EnsureStreaming, StreamStarted, SnapReturn, SnapFails,
              DescribeUnlock, ClientBegin, SnapBegin, CtrlBegin, DescribeLock
<1>7. CASE UNCHANGED vars
  BY <1>7 DEF vars
<1> QED BY <1>1, <1>2, <1>3, <1>4, <1>5, <1>6, <1>7 DEF Next, Frames

(***************************************************************************)
(* The stream the driver runs is the published one, of the device on the  *)
(* port; running is TRUE only of a published stream (DevState), for any    *)
(* number of clients and plug-ins, and whichever stops fail.               *)
(***************************************************************************)
THEOREM StreamIsPublished == Spec => []RunningInv
<1> QED BY CameraAlways, PTL DEF CameraInv

(***************************************************************************)
(* A frame of a stream's first Warmup passes the counter of frame_cb only  *)
(* while a client that has just started the stream is about to set the     *)
(* counter back, for any number of clients and of plug-ins and any Warmup. *)
(***************************************************************************)
THEOREM WarmupLostOnlyAtStart == Spec => WarmupLostAtStart
<1>1. ASSUME CameraInv, [Next]_vars, drv_warm', ~drv_warm
      PROVE  \E c \in Clients : JustStarted(c)
  <2>1. PICK b \in BOOLEAN : FrameCount(b)
    BY <1>1, WarmFrame
  <2>2. streaming # NoHandle /\ ~(frames < Warmup) /\ sent < Warmup
    BY <1>1, <2>1 DEF FrameCount
  <2>3. frames \in Nat /\ sent \in Nat /\ Warmup \in Nat
    BY <1>1 DEF CameraInv, TypeOK, PortType, DevType
  <2>4. ~(frames <= sent)
    BY <2>2, <2>3
  <2> QED BY <1>1, <2>2, <2>4 DEF CameraInv, RunningInv
<1>2. CameraInv /\ [Next]_vars =>
        [drv_warm' /\ ~drv_warm =>
           \E c \in Clients : JustStarted(c)]_vars
  BY <1>1
<1> QED BY <1>2, CameraAlways, PTL DEF Spec, WarmupLostAtStart
=============================================================================
