--------------------------- MODULE QueueThread_proofs ---------------------------
(***************************************************************************)
(* The hand-over between timer, queue and main thread is correct for every *)
(* capacity of the input queue and every number of events.                 *)
(***************************************************************************)
EXTENDS QueueThread, TLAPS

(* From the moment main has told the thread to stop, the thread is on its  *)
(* way out; once it has been signalled it cannot wait again.               *)
OnItsWayOut ==
  /\ mpc = "create" <=> qpc = "none"
  /\ mpc \notin {"create", "loop"} => quit_thread
  /\ mpc \in {"join", "down"} =>
       \/ qpc \in {"relock", "quit?", "done"}
       \/ qpc \in {"lock", "check"} /\ signalled

IInv == TypeOK /\ MutexOwned /\ NoSleepOnSignal /\ OnItsWayOut

USE QueueAssumption

LEMMA InitIInv == Init => IInv
<1> SUFFICES ASSUME Init PROVE IInv
  OBVIOUS
<1>1. /\ input \in Seq(1 .. arrived) /\ Len(input) <= Capacity
      /\ idle \in Seq(1 .. arrived)
  BY DEF Init
<1>2. TypeOK
  <2>1. arrived \in 0 .. MaxEvents /\ handled \in 0 .. arrived
    BY DEF Init
  <2>2. signalled \in BOOLEAN /\ quit_thread \in BOOLEAN
    BY DEF Init
  <2> QED
    BY <1>1, <2>1, <2>2 DEF Init, TypeOK
<1>3. MutexOwned /\ NoSleepOnSignal /\ OnItsWayOut
  BY DEF Init, MutexOwned, NoSleepOnSignal, OnItsWayOut, Free
<1> QED
  BY <1>2, <1>3 DEF IInv

-------------------------------------------------------------------------------
(* Sequences of events stay sequences of events as more events arrive. *)
LEMMA MoreEvents ==
  ASSUME NEW n \in Nat, NEW s \in Seq(1 .. n)
  PROVE  s \in Seq(1 .. n + 1) /\ Append(s, n + 1) \in Seq(1 .. n + 1)
OBVIOUS

LEMMA TimerTypes == TypeOK /\ Timer => TypeOK'
<1> SUFFICES ASSUME TypeOK, Timer PROVE TypeOK'
  OBVIOUS
<1> USE DEF TypeOK
<1>1. CASE InputAccepted
  <2> USE <1>1 DEF InputAccepted, Arrive, threadVars
  <2>1. arrived \in Nat /\ arrived' = arrived + 1
    OBVIOUS
  <2>2. input' \in Seq(1 .. arrived') /\ idle' \in Seq(1 .. arrived')
    BY <2>1, MoreEvents
  <2> QED
    BY <2>1, <2>2
<1>2. CASE InputRefused
  <2> USE <1>2 DEF InputRefused, Arrive, threadVars
  <2>1. arrived \in Nat /\ arrived' = arrived + 1
    OBVIOUS
  <2>2. input' \in Seq(1 .. arrived') /\ idle' \in Seq(1 .. arrived')
    BY <2>1, MoreEvents
  <2> QED
    BY <2>1, <2>2
<1>3. CASE TryLock
  BY <1>3 DEF TryLock, eventVars
<1>4. CASE TrySignal
  BY <1>4 DEF TrySignal, eventVars, Woken, Free
<1> QED
  BY <1>1, <1>2, <1>3, <1>4 DEF Timer

LEMMA QueueTypes == TypeOK /\ Queue => TypeOK'
<1> SUFFICES ASSUME TypeOK, Queue PROVE TypeOK'
  OBVIOUS
<1> USE DEF TypeOK, eventVars, threadVars, Free
<1>1. CASE FirstLock \/ Wait \/ SkipWait \/ Timeout
  BY <1>1 DEF FirstLock, Wait, SkipWait, Timeout
<1>2. CASE Relock \/ Quit \/ Drained
  BY <1>2 DEF Relock, Quit, Drained
<1>3. CASE Take
  <2>1. Head(input) \in 1 .. arrived /\ Tail(input) \in Seq(1 .. arrived)
          /\ Len(Tail(input)) <= Capacity
    BY <1>3 DEF Take
  <2>2. Append(idle, Head(input)) \in Seq(1 .. arrived)
    BY <2>1
  <2> QED
    BY <1>3, <2>1, <2>2 DEF Take
<1> QED
  BY <1>1, <1>2, <1>3 DEF Queue

LEMMA MainTypes == TypeOK /\ Main => TypeOK'
<1> SUFFICES ASSUME TypeOK, Main PROVE TypeOK'
  OBVIOUS
<1> USE DEF TypeOK, eventVars, threadVars, Free
<1>1. CASE Dispatch
  <2>1. Head(idle) \in 1 .. arrived /\ Tail(idle) \in Seq(1 .. arrived)
    BY <1>1 DEF Dispatch
  <2> QED
    BY <1>1, <2>1 DEF Dispatch
<1>2. CASE CreateThread \/ ShutDown \/ SignalLock \/ SignalQueue \/ Join
  BY <1>2 DEF CreateThread, ShutDown, SignalLock, SignalQueue, Join, Woken
<1> QED
  BY <1>1, <1>2 DEF Main

-------------------------------------------------------------------------------
(* Mutex, flag and condition do not depend on where the events are. *)
LEMMA TimerStep ==
  IInv /\ Timer => MutexOwned' /\ NoSleepOnSignal' /\ OnItsWayOut'
<1> SUFFICES ASSUME IInv, Timer
             PROVE  MutexOwned' /\ NoSleepOnSignal' /\ OnItsWayOut'
  OBVIOUS
<1> USE DEF IInv, TypeOK, MutexOwned, NoSleepOnSignal, OnItsWayOut, eventVars,
            threadVars, Free
<1>1. CASE Arrive
  BY <1>1 DEF Arrive
<1>2. CASE TryLock
  BY <1>2 DEF TryLock
<1>3. CASE TrySignal
  BY <1>3 DEF TrySignal, Woken
<1> QED
  BY <1>1, <1>2, <1>3 DEF Timer, InputAccepted, InputRefused

LEMMA QueueStep ==
  IInv /\ Queue => MutexOwned' /\ NoSleepOnSignal' /\ OnItsWayOut'
<1> SUFFICES ASSUME IInv, Queue
             PROVE  MutexOwned' /\ NoSleepOnSignal' /\ OnItsWayOut'
  OBVIOUS
<1> USE DEF IInv, TypeOK, MutexOwned, NoSleepOnSignal, OnItsWayOut, eventVars,
            threadVars, Free
<1>1. CASE FirstLock
  BY <1>1 DEF FirstLock
<1>2. CASE Wait
  BY <1>2 DEF Wait
<1>3. CASE SkipWait
  BY <1>3 DEF SkipWait
<1>4. CASE Timeout
  BY <1>4 DEF Timeout
<1>5. CASE Relock
  BY <1>5 DEF Relock
<1>6. CASE Quit
  BY <1>6 DEF Quit
<1>7. CASE Take \/ Drained
  BY <1>7 DEF Take, Drained
<1> QED
  BY <1>1, <1>2, <1>3, <1>4, <1>5, <1>6, <1>7 DEF Queue

LEMMA MainStep ==
  IInv /\ Main => MutexOwned' /\ NoSleepOnSignal' /\ OnItsWayOut'
<1> SUFFICES ASSUME IInv, Main
             PROVE  MutexOwned' /\ NoSleepOnSignal' /\ OnItsWayOut'
  OBVIOUS
<1> USE DEF IInv, TypeOK, MutexOwned, NoSleepOnSignal, OnItsWayOut, eventVars,
            threadVars, Free
<1>1. CASE CreateThread
  BY <1>1 DEF CreateThread
<1>2. CASE Dispatch
  BY <1>2 DEF Dispatch
<1>3. CASE ShutDown
  BY <1>3 DEF ShutDown
<1>4. CASE SignalLock
  BY <1>4 DEF SignalLock
<1>5. CASE SignalQueue
  BY <1>5 DEF SignalQueue, Woken
<1>6. CASE Join
  BY <1>6 DEF Join
<1> QED
  BY <1>1, <1>2, <1>3, <1>4, <1>5, <1>6 DEF Main

(* The inductive invariant holds in every reachable state. *)
THEOREM Inductive == Spec => []IInv
<1>1. IInv /\ [Next]_vars => IInv'
  <2> SUFFICES ASSUME IInv, [Next]_vars PROVE IInv'
    OBVIOUS
  <2>1. CASE Timer
    BY <2>1, TimerTypes, TimerStep DEF IInv
  <2>2. CASE Queue
    BY <2>2, QueueTypes, QueueStep DEF IInv
  <2>3. CASE Main
    BY <2>3, MainTypes, MainStep DEF IInv
  <2>4. CASE UNCHANGED vars
    BY <2>4 DEF IInv, TypeOK, MutexOwned, NoSleepOnSignal, OnItsWayOut, vars,
       eventVars, threadVars
  <2> QED
    BY <2>1, <2>2, <2>3, <2>4 DEF Next
<1> QED
  BY <1>1, InitIInv, PTL DEF Spec

(* Type correctness, and the bound of the input queue. *)
THEOREM TypeCorrect == Spec => []TypeOK
<1>1. IInv => TypeOK
  BY DEF IInv
<1> QED
  BY <1>1, Inductive, PTL

(* The mutex is owned by the thread that works on flag and condition. *)
THEOREM MutexAlwaysOwned == Spec => []MutexOwned
<1>1. IInv => MutexOwned
  BY DEF IInv
<1> QED
  BY <1>1, Inductive, PTL

(* No signal is lost while the queue thread waits. *)
THEOREM SignalsNeverSleptOn == Spec => []NoSleepOnSignal
<1>1. IInv => NoSleepOnSignal
  BY DEF IInv
<1> QED
  BY <1>1, Inductive, PTL

(* audio_shutdown joins a thread that is on its way out. *)
THEOREM JoinAlwaysSafe == Spec => []JoinIsSafe
<1>1. IInv => JoinIsSafe
  BY DEF IInv, TypeOK, OnItsWayOut, JoinIsSafe
<1> QED
  BY <1>1, Inductive, PTL

-------------------------------------------------------------------------------
(* Moving an event from the input queue to an idle source moves nothing in *)
(* the channel.                                                            *)
LEMMA TakeKeepsOrder ==
  ASSUME NEW S, NEW s \in Seq(S), NEW t \in Seq(S), t # <<>>
  PROVE  Append(s, Head(t)) \o Tail(t) = s \o t
OBVIOUS

LEMMA AcceptAppends ==
  ASSUME NEW S, NEW s \in Seq(S), NEW t \in Seq(S), NEW e \in S
  PROVE  s \o Append(t, e) = Append(s \o t, e)
OBVIOUS

LEMMA DispatchTakesFront ==
  ASSUME NEW S, NEW s \in Seq(S), NEW t \in Seq(S), s # <<>>
  PROVE  s \o t # <<>> /\ Head(s \o t) = Head(s) /\ Tail(s \o t) = Tail(s) \o t
OBVIOUS

LEMMA StepImplementsChannel ==
  IInv /\ [Next]_vars => [Promise!ChannelNext]_<<arrived, Channel, handled>>
<1> SUFFICES ASSUME IInv, [Next]_vars
             PROVE  [Promise!ChannelNext]_<<arrived, Channel, handled>>
  OBVIOUS
<1>0. /\ arrived \in Nat
      /\ input \in Seq(Nat) /\ idle \in Seq(Nat) /\ Len(input) <= Capacity
  BY DEF IInv, TypeOK
<1>1. CASE InputAccepted
  <2>1. arrived' = arrived + 1 /\ UNCHANGED <<idle, handled>>
          /\ input' = Append(input, arrived + 1)
    BY <1>1 DEF InputAccepted, Arrive
  <2>2. Channel' = Append(Channel, arrived + 1)
    BY <1>0, <2>1, AcceptAppends DEF Channel
  <2> QED
    BY <2>1, <2>2 DEF Promise!ChannelNext, Promise!Accept
<1>2. CASE InputRefused
  <2>1. arrived' = arrived + 1 /\ UNCHANGED <<input, idle, handled>>
          /\ Len(input) = Capacity
    BY <1>2 DEF InputRefused, Arrive
  <2>2. Channel' = Channel /\ Len(Channel) >= Capacity
    BY <1>0, <2>1 DEF Channel
  <2> QED
    BY <2>1, <2>2 DEF Promise!ChannelNext, Promise!Refuse
<1>3. CASE Take
  <2>1. UNCHANGED <<arrived, handled>> /\ input # <<>>
          /\ idle' = Append(idle, Head(input)) /\ input' = Tail(input)
    BY <1>3 DEF Take
  <2>2. Channel' = Channel
    BY <1>0, <2>1, TakeKeepsOrder DEF Channel
  <2> QED
    BY <2>1, <2>2
<1>4. CASE Dispatch
  <2>1. UNCHANGED <<arrived, input>> /\ idle # <<>>
          /\ handled' = Head(idle) /\ idle' = Tail(idle)
    BY <1>4 DEF Dispatch
  <2>2. Channel # <<>> /\ handled' = Head(Channel) /\ Channel' = Tail(Channel)
    BY <1>0, <2>1, DispatchTakesFront DEF Channel
  <2> QED
    BY <2>1, <2>2 DEF Promise!ChannelNext, Promise!Handle
<1>5. CASE TryLock \/ TrySignal \/ Drained \/ FirstLock \/ Wait \/ SkipWait
             \/ Timeout \/ Relock \/ Quit
  BY <1>5 DEF TryLock, TrySignal, Drained, FirstLock, Wait, SkipWait, Timeout,
     Relock, Quit, eventVars, Channel
<1>6. CASE CreateThread \/ ShutDown \/ SignalLock \/ SignalQueue \/ Join
  BY <1>6 DEF CreateThread, ShutDown, SignalLock, SignalQueue, Join, eventVars, Channel
<1>7. CASE UNCHANGED vars
  BY <1>7 DEF vars, eventVars, Channel
<1> QED
  BY <1>1, <1>2, <1>3, <1>4, <1>5, <1>6, <1>7 DEF Next, Timer, Queue, Main

(* Keyboard events are handled in order, none twice, and refused only when *)
(* the queue is full: the threads implement the bounded FIFO channel.      *)
THEOREM InputIsChannel == Spec => ImplementsChannel
<1>1. Init => Promise!ChannelInit
  BY DEF Init, Promise!ChannelInit, Channel
<1> QED
  BY <1>1, StepImplementsChannel, Inductive, PTL
     DEF Spec, ImplementsChannel, Promise!ChannelSpec, Promise!channelVars
=================================================================================
