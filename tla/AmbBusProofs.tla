---------------------------- MODULE AmbBusProofs ----------------------------
(***************************************************************************)
(* Safety of the CAN bus for any threads, channels and bounds: types,      *)
(* one answer per request written into a living frame (AnsweredOnce),      *)
(* driver calls on open handles only (HandleIsOpen), and honest results of *)
(* syncMonitor (MonitorIsReply).                                           *)
(***************************************************************************)
EXTENDS AmbBus, TLAPS

-----------------------------------------------------------------------------
(* Sequences.                                                               *)

(* Appending an element adds it and nothing else (AmbQueue::append). *)
LEMMA ContainsAppend ==
    ASSUME NEW S, NEW s \in Seq(S), NEW e \in S, NEW x
    PROVE  Contains(Append(s, e), x) <=> Contains(s, x) \/ x = e
<1>1. Len(Append(s, e)) = Len(s) + 1 /\ Len(s) \in Nat
  OBVIOUS
<1>2. \A i \in 1..Len(s) : Append(s, e)[i] = s[i]
  OBVIOUS
<1>3. Append(s, e)[Len(s) + 1] = e
  OBVIOUS
<1> QED BY <1>1, <1>2, <1>3 DEF Contains

(* Appending an element that was absent repeats nothing. *)
LEMMA InjectiveAppend ==
    ASSUME NEW S, NEW s \in Seq(S), NEW e \in S,
           IsInjective(s), ~Contains(s, e)
    PROVE  IsInjective(Append(s, e))
<1>1. /\ Len(Append(s, e)) = Len(s) + 1 /\ Len(s) \in Nat
      /\ DOMAIN s = 1..Len(s)
      /\ DOMAIN Append(s, e) = 1..(Len(s) + 1)
  OBVIOUS
<1>2. \A i \in 1..Len(s) : Append(s, e)[i] = s[i]
  OBVIOUS
<1>3. Append(s, e)[Len(s) + 1] = e
  OBVIOUS
<1> QED BY <1>1, <1>2, <1>3 DEF Contains, IsInjective

(* Removing the head of a sequence without repetitions (AmbQueue::getNext) *)
(* removes that element and no other.                                      *)
LEMMA TailOfInjective ==
    ASSUME NEW S, NEW s \in Seq(S), s # <<>>, IsInjective(s)
    PROVE  /\ Head(s) \in S /\ Tail(s) \in Seq(S)
           /\ IsInjective(Tail(s))
           /\ Contains(s, Head(s))
           /\ \A x : Contains(Tail(s), x) <=> Contains(s, x) /\ x # Head(s)
<1>1. /\ Len(s) \in Nat /\ Len(s) >= 1 /\ Len(Tail(s)) = Len(s) - 1
      /\ DOMAIN s = 1..Len(s) /\ DOMAIN Tail(s) = 1..(Len(s) - 1)
      /\ Head(s) = s[1] /\ Head(s) \in S /\ Tail(s) \in Seq(S)
  OBVIOUS
<1>2. \A i \in 1..(Len(s) - 1) : Tail(s)[i] = s[i + 1]
  OBVIOUS
<1>3. IsInjective(Tail(s))
  BY <1>1, <1>2 DEF IsInjective
<1>4. Contains(s, Head(s))
  BY <1>1 DEF Contains
<1>5. ASSUME NEW x
      PROVE  Contains(Tail(s), x) <=> Contains(s, x) /\ x # Head(s)
  <2>1. ASSUME Contains(Tail(s), x)
        PROVE  Contains(s, x) /\ x # Head(s)
    <3>1. PICK i \in 1..(Len(s) - 1) : s[i + 1] = x
      BY <2>1, <1>1, <1>2 DEF Contains
    <3>2. i + 1 \in 1..Len(s) /\ 1 \in 1..Len(s) /\ i + 1 # 1
      BY <1>1, <3>1
    <3> QED BY <3>1, <3>2, <1>1 DEF Contains, IsInjective
  <2>2. ASSUME Contains(s, x), x # Head(s)
        PROVE  Contains(Tail(s), x)
    <3>1. PICK i \in 1..Len(s) : s[i] = x
      BY <2>2 DEF Contains
    <3>2. i # 1
      BY <3>1, <2>2, <1>1
    <3>3. i - 1 \in 1..(Len(s) - 1) /\ (i - 1) + 1 = i
      BY <3>1, <3>2, <1>1
    <3>4. Tail(s)[i - 1] = x
      BY <3>1, <3>3, <1>2
    <3> QED BY <3>3, <3>4, <1>1 DEF Contains
  <2> QED BY <2>1, <2>2
<1> QED BY <1>1, <1>3, <1>4, <1>5

(* Nothing is in the empty queue. *)
LEMMA EmptyQueue == IsInjective(<<>>) /\ \A x : ~Contains(<<>>, x)
BY DEF IsInjective, Contains
-----------------------------------------------------------------------------
(* Type correctness.                                                        *)

(* Every variable keeps its type: in particular no semaphore goes below     *)
(* zero and every lookup of a channel or a client is in range.              *)
THEOREM TypeCorrect == Spec => []TypeOK
<1> USE DEF clientVars, flagVars, channelVars, workerVars, downVars, Goto, Post
<1>1. Init => TypeOK
  <2>1. SomeClient \in Client /\ SomeChannel \in Channel
    BY ClientAssumption, ChannelAssumption, Zenon DEF SomeClient, SomeChannel
  <2> SUFFICES ASSUME Init PROVE TypeOK
    OBVIOUS
  <2>2. wmsg \in Client /\ closing \in Channel /\ wpc \in WorkerPCs /\ spc \in DownPCs
    BY <2>1 DEF Init, WorkerPCs, DownPCs
  <2>3. /\ pc \in [Client -> ClientPCs] /\ request \in [Client -> Requests]
        /\ chan \in [Client -> Channel] /\ status \in [Client -> Statuses]
        /\ data \in [Client -> Datas]
    BY DEF Init, ClientPCs, Requests, Statuses, Datas
  <2>4. /\ posts \in [Client -> Nat] /\ fresh \in [Client -> Nat]
        /\ isOpen \in [Channel -> BOOLEAN] /\ handle \in [Channel -> Nat]
    BY DEF Init
  <2>5. /\ calls \in Nat /\ opens \in Nat /\ whandle \in Nat
        /\ objects \in SUBSET Nat /\ queue \in Seq(Client)
    BY DEF Init
  <2>6. busSet \in BOOLEAN /\ dieNow \in BOOLEAN /\ deadNow \in BOOLEAN
    BY Zenon DEF Init
  <2> QED BY <2>2, <2>3, <2>4, <2>5, <2>6 DEF TypeOK
<1>2. TypeOK /\ [Next]_vars => TypeOK'
  <2> SUFFICES ASSUME TypeOK, [Next]_vars PROVE TypeOK'
    OBVIOUS
  <2> USE DEF TypeOK, ClientPCs, Requests, Statuses, Datas, WorkerPCs, DownPCs
  <2>1. ASSUME NEW c \in Client, SyncMonitor(c) PROVE TypeOK'
    BY <2>1 DEF SyncMonitor
  <2>2. ASSUME NEW c \in Client, SyncCommand(c) PROVE TypeOK'
    BY <2>2 DEF SyncCommand
  <2>3. ASSUME NEW c \in Client, Deref(c) PROVE TypeOK'
    BY <2>3 DEF Deref
  <2>4. ASSUME NEW c \in Client, CheckDieNow(c) PROVE TypeOK'
    BY <2>4 DEF CheckDieNow
  <2>5. ASSUME NEW c \in Client, IsOpenChannel(c) PROVE TypeOK'
    BY <2>5 DEF IsOpenChannel
  <2>6. ASSUME NEW c \in Client, OpenFails(c) PROVE TypeOK'
    BY <2>6 DEF OpenFails
  <2>7. ASSUME NEW c \in Client, OpenObject(c) PROVE TypeOK'
    BY <2>7 DEF OpenObject
  <2>8. ASSUME NEW c \in Client, SetHandle(c) PROVE TypeOK'
    BY <2>8 DEF SetHandle
  <2>9. ASSUME NEW c \in Client, MarkOpen(c) PROVE TypeOK'
    BY <2>9 DEF MarkOpen
  <2>10. ASSUME NEW c \in Client, Reject(c) PROVE TypeOK'
    BY <2>10 DEF Reject, StatusAfter
  <2>11. ASSUME NEW c \in Client, AppendMessage(c) PROVE TypeOK'
    BY <2>11 DEF AppendMessage
  <2>12. ASSUME NEW c \in Client, Wake(c) PROVE TypeOK'
    <3>1. posts[c] - 1 \in Nat
      BY <2>12 DEF Wake
    <3>2. posts' \in [Client -> Nat]
      BY <2>12, <3>1 DEF Wake
    <3>3. pc' \in [Client -> ClientPCs] /\ request' \in [Client -> Requests]
      BY <2>12 DEF Wake
    <3> QED BY <2>12, <3>2, <3>3 DEF Wake
  <2>13. CASE WorkerTop
    BY <2>13 DEF WorkerTop
  <2>14. CASE GetNext
    <3>1. queue # <<>> => Head(queue) \in Client /\ Tail(queue) \in Seq(Client)
      OBVIOUS
    <3> QED BY <2>14, <3>1 DEF GetNext
  <2>15. CASE GetHandle
    BY <2>15 DEF GetHandle
  <2>16. CASE Transact
    BY <2>16 DEF Transact, Outcomes, StatusAfter, DataAfter
  <2>17. CASE SignalCaller
    BY <2>17 DEF SignalCaller
  <2>18. CASE DeleteCompletion
    BY <2>18 DEF DeleteCompletion
  <2>19. CASE ShutdownBegin
    BY <2>19 DEF ShutdownBegin
  <2>20. CASE WorkerIsDead
    BY <2>20 DEF WorkerIsDead
  <2>21. CASE Flush
    BY <2>21 DEF Flush, StatusAfter
  <2>22. CASE GetFirstOpenChannel
    BY <2>22 DEF GetFirstOpenChannel
  <2>23. CASE CloseObject
    BY <2>23 DEF CloseObject
  <2>24. CASE MarkClosed
    BY <2>24 DEF MarkClosed
  <2>25. CASE ForgetBus
    BY <2>25 DEF ForgetBus
  <2>26. CASE UNCHANGED vars
    BY <2>26 DEF vars
  <2> QED
    BY <2>1, <2>2, <2>3, <2>4, <2>5, <2>6, <2>7, <2>8, <2>9, <2>10, <2>11, <2>12, <2>13, <2>14, <2>15, <2>16, <2>17, <2>18, <2>19, <2>20, <2>21, <2>22, <2>23, <2>24, <2>25, <2>26
       DEF Next, ClientStep, SendMessage, QueueHandlerThread, ShutdownRest
<1> QED BY <1>1, <1>2, PTL DEF Spec

-----------------------------------------------------------------------------
(* One answer per request, into a frame that is still there.                *)

(* AnsweredOnce needs no strengthening beyond the types: who has a message  *)
(* is decided at each hand-over, from sendMessage to the queue, from the    *)
(* queue to the worker or to flush, and from these to the semaphore.        *)
LEMMA AnsweredOnceStep == TypeOK /\ AnsweredOnce /\ [Next]_vars => AnsweredOnce'
<1> USE DEF clientVars, flagVars, channelVars, workerVars, downVars, Goto, Post
<1> SUFFICES ASSUME TypeOK, AnsweredOnce, [Next]_vars PROVE AnsweredOnce'
  OBVIOUS
<1> USE DEF AnsweredOnce, TypeOK, Queued, Held
<1>1. ASSUME NEW c \in Client, SyncMonitor(c) PROVE AnsweredOnce'
  BY <1>1 DEF SyncMonitor
<1>2. ASSUME NEW c \in Client, SyncCommand(c) PROVE AnsweredOnce'
  BY <1>2 DEF SyncCommand
<1>3. ASSUME NEW c \in Client, Deref(c) PROVE AnsweredOnce'
  BY <1>3 DEF Deref
<1>4. ASSUME NEW c \in Client, CheckDieNow(c) PROVE AnsweredOnce'
  BY <1>4 DEF CheckDieNow
<1>5. ASSUME NEW c \in Client, IsOpenChannel(c) PROVE AnsweredOnce'
  BY <1>5 DEF IsOpenChannel
<1>6. ASSUME NEW c \in Client, OpenFails(c) PROVE AnsweredOnce'
  BY <1>6 DEF OpenFails
<1>7. ASSUME NEW c \in Client, OpenObject(c) PROVE AnsweredOnce'
  BY <1>7 DEF OpenObject
<1>8. ASSUME NEW c \in Client, SetHandle(c) PROVE AnsweredOnce'
  BY <1>8 DEF SetHandle
<1>9. ASSUME NEW c \in Client, MarkOpen(c) PROVE AnsweredOnce'
  BY <1>9 DEF MarkOpen
<1>10. ASSUME NEW c \in Client, Reject(c) PROVE AnsweredOnce'
  BY <1>10 DEF Reject
<1>11. ASSUME NEW c \in Client, AppendMessage(c) PROVE AnsweredOnce'
  <2>1. ~Contains(queue, c) /\ queue' = Append(queue, c)
    BY <1>11 DEF AppendMessage
  <2>2. IsInjective(queue')
    BY <2>1, InjectiveAppend
  <2>3. \A x : Contains(queue', x) <=> Contains(queue, x) \/ x = c
    BY <2>1, ContainsAppend
  <2> QED BY <1>11, <2>2, <2>3 DEF AppendMessage
<1>12. ASSUME NEW c \in Client, Wake(c) PROVE AnsweredOnce'
  BY <1>12 DEF Wake
<1>13. CASE WorkerTop
  BY <1>13 DEF WorkerTop
<1>14. CASE GetNext
  <2>1. CASE queue = <<>>
    BY <1>14, <2>1 DEF GetNext
  <2>2. CASE queue # <<>>
    <3>1. /\ Head(queue) \in Client
          /\ IsInjective(Tail(queue)) /\ Contains(queue, Head(queue))
          /\ \A x : Contains(Tail(queue), x) <=> Contains(queue, x) /\ x # Head(queue)
      BY <2>2, TailOfInjective
    <3> QED BY <1>14, <2>2, <3>1 DEF GetNext
  <2> QED BY <2>1, <2>2
<1>15. CASE GetHandle
  BY <1>15 DEF GetHandle
<1>16. CASE Transact
  BY <1>16 DEF Transact
<1>17. CASE SignalCaller
  BY <1>17 DEF SignalCaller
<1>18. CASE DeleteCompletion
  BY <1>18 DEF DeleteCompletion
<1>19. CASE ShutdownBegin
  BY <1>19 DEF ShutdownBegin
<1>20. CASE WorkerIsDead
  BY <1>20 DEF WorkerIsDead
<1>21. CASE Flush
  <2>1. IsInjective(queue') /\ \A x : ~Contains(queue', x)
    BY <1>21, EmptyQueue DEF Flush
  <2> QED BY <1>21, <2>1 DEF Flush
<1>22. CASE GetFirstOpenChannel
  BY <1>22 DEF GetFirstOpenChannel
<1>23. CASE CloseObject
  BY <1>23 DEF CloseObject
<1>24. CASE MarkClosed
  BY <1>24 DEF MarkClosed
<1>25. CASE ForgetBus
  BY <1>25 DEF ForgetBus
<1>26. CASE UNCHANGED vars
  BY <1>26 DEF vars
<1> QED
  BY <1>1, <1>2, <1>3, <1>4, <1>5, <1>6, <1>7, <1>8, <1>9, <1>10, <1>11, <1>12, <1>13,
     <1>14, <1>15, <1>16, <1>17, <1>18, <1>19, <1>20, <1>21, <1>22, <1>23, <1>24, <1>25, <1>26
     DEF Next, ClientStep, SendMessage, QueueHandlerThread, ShutdownRest

(* For any threads and channels, each request is answered once, and its     *)
(* sender's frame outlives every pointer the bus holds into it.             *)
THEOREM AnsweredOnceHolds == Spec => []AnsweredOnce
<1>1. Init => AnsweredOnce
  BY EmptyQueue DEF Init, AnsweredOnce, Queued, Held
<1>2. TypeOK /\ AnsweredOnce /\ [Next]_vars => AnsweredOnce'
  BY AnsweredOnceStep
<1> QED BY <1>1, <1>2, TypeCorrect, PTL DEF Spec

-----------------------------------------------------------------------------
(* The driver is called on open handles.                                    *)

(* The worker reports its death as it dies, and shutdown goes past its spin *)
(* only then.  While the worker lives, nothing is closed, so each handle    *)
(* obtained, bound or looked up stays open, and a message is queued only    *)
(* when its channel has one.                                                *)
HandlesBound ==
    /\ deadNow <=> wpc = "dead"
    /\ spc \notin {"up", "spin"} => deadNow
    /\ wpc # "dead" =>
        /\ \A c \in Client : pc[c] = "bind" => fresh[c] \in objects
        /\ \A c \in Client : pc[c] = "mark" => handle[chan[c]] \in objects
        /\ \A ch \in Channel : isOpen[ch] => handle[ch] \in objects
        /\ \A c \in Client : pc[c] = "append" \/ Queued(c) \/ Held(c)
                                => isOpen[chan[c]]
        /\ wpc = "transact" => whandle \in objects

LEMMA HandlesBoundStep ==
    TypeOK /\ AnsweredOnce /\ HandlesBound /\ [Next]_vars => HandlesBound'
<1> USE DEF clientVars, flagVars, channelVars, workerVars, downVars, Goto, Post
<1> SUFFICES ASSUME TypeOK, AnsweredOnce, HandlesBound, [Next]_vars
             PROVE  HandlesBound'
  OBVIOUS
<1> USE DEF HandlesBound, TypeOK, Queued, Held
<1>1. ASSUME NEW c \in Client, SyncMonitor(c) PROVE HandlesBound'
  BY <1>1 DEF SyncMonitor
<1>2. ASSUME NEW c \in Client, SyncCommand(c) PROVE HandlesBound'
  BY <1>2 DEF SyncCommand
<1>3. ASSUME NEW c \in Client, Deref(c) PROVE HandlesBound'
  BY <1>3 DEF Deref
<1>4. ASSUME NEW c \in Client, CheckDieNow(c) PROVE HandlesBound'
  BY <1>4 DEF CheckDieNow
<1>5. ASSUME NEW c \in Client, IsOpenChannel(c) PROVE HandlesBound'
  BY <1>5 DEF IsOpenChannel
<1>6. ASSUME NEW c \in Client, OpenFails(c) PROVE HandlesBound'
  BY <1>6 DEF OpenFails
<1>7. ASSUME NEW c \in Client, OpenObject(c) PROVE HandlesBound'
  BY <1>7 DEF OpenObject
<1>8. ASSUME NEW c \in Client, SetHandle(c) PROVE HandlesBound'
  BY <1>8 DEF SetHandle
<1>9. ASSUME NEW c \in Client, MarkOpen(c) PROVE HandlesBound'
  BY <1>9 DEF MarkOpen
<1>10. ASSUME NEW c \in Client, Reject(c) PROVE HandlesBound'
  BY <1>10 DEF Reject
<1>11. ASSUME NEW c \in Client, AppendMessage(c) PROVE HandlesBound'
  <2>1. \A x : Contains(queue', x) <=> Contains(queue, x) \/ x = c
    BY <1>11, ContainsAppend DEF AppendMessage
  <2> QED BY <1>11, <2>1 DEF AppendMessage
<1>12. ASSUME NEW c \in Client, Wake(c) PROVE HandlesBound'
  BY <1>12 DEF Wake
<1>13. CASE WorkerTop
  BY <1>13 DEF WorkerTop
<1>14. CASE GetNext
  <2>1. CASE queue = <<>>
    BY <1>14, <2>1 DEF GetNext
  <2>2. CASE queue # <<>>
    <3>1. /\ Head(queue) \in Client /\ Contains(queue, Head(queue))
          /\ \A x : Contains(Tail(queue), x) => Contains(queue, x)
      BY <2>2, TailOfInjective DEF AnsweredOnce
    <3>2. /\ wmsg' = Head(queue) /\ queue' = Tail(queue)
          /\ wpc = "next" /\ wpc' = "lookup"
      BY <1>14, <2>2 DEF GetNext
    <3>3. \A c \in Client : Queued(c)' \/ Held(c)' => Queued(c)
      BY <3>1, <3>2
    <3> QED BY <1>14, <3>2, <3>3 DEF GetNext
  <2> QED BY <2>1, <2>2
<1>15. CASE GetHandle
  BY <1>15 DEF GetHandle
<1>16. CASE Transact
  BY <1>16 DEF Transact
<1>17. CASE SignalCaller
  BY <1>17 DEF SignalCaller
<1>18. CASE DeleteCompletion
  BY <1>18 DEF DeleteCompletion
<1>19. CASE ShutdownBegin
  BY <1>19 DEF ShutdownBegin
<1>20. CASE WorkerIsDead
  BY <1>20 DEF WorkerIsDead
<1>21. CASE Flush
  <2>1. \A x : ~Contains(queue', x)
    BY <1>21, EmptyQueue DEF Flush
  <2> QED BY <1>21, <2>1 DEF Flush
<1>22. CASE GetFirstOpenChannel
  BY <1>22 DEF GetFirstOpenChannel
<1>23. CASE CloseObject
  BY <1>23 DEF CloseObject
<1>24. CASE MarkClosed
  BY <1>24 DEF MarkClosed
<1>25. CASE ForgetBus
  BY <1>25 DEF ForgetBus
<1>26. CASE UNCHANGED vars
  BY <1>26 DEF vars
<1> QED
  BY <1>1, <1>2, <1>3, <1>4, <1>5, <1>6, <1>7, <1>8, <1>9, <1>10, <1>11, <1>12, <1>13,
     <1>14, <1>15, <1>16, <1>17, <1>18, <1>19, <1>20, <1>21, <1>22, <1>23, <1>24, <1>25, <1>26
     DEF Next, ClientStep, SendMessage, QueueHandlerThread, ShutdownRest

(* HandlesBound is an invariant of the bus (CANBusInterface, the openChannel *)
(* and closeChannel of NICANBusInterface).                                  *)
LEMMA HandlesBoundHolds == Spec => []HandlesBound
<1>1. Init => HandlesBound
  BY EmptyQueue DEF Init, HandlesBound, Queued, Held
<1>2. TypeOK /\ AnsweredOnce /\ HandlesBound /\ [Next]_vars => HandlesBound'
  BY HandlesBoundStep
<1> QED BY <1>1, <1>2, TypeCorrect, AnsweredOnceHolds, PTL DEF Spec

(* For any interleaving of clients, worker and shutdown the worker calls    *)
(* the driver with a handle that is open at that moment.                    *)
THEOREM HandleIsOpenHolds == Spec => []HandleIsOpen
<1>1. HandlesBound => HandleIsOpen
  BY DEF HandlesBound, HandleIsOpen
<1> QED BY <1>1, HandlesBoundHolds, PTL

-----------------------------------------------------------------------------
(* The result of syncMonitor.                                               *)

(* Once the frame of a monitor request has been written, NOERR goes with    *)
(* bytes from the device: from the worker's write to its signal, while the  *)
(* semaphore is up, and when the call has returned.                         *)
FrameIsHonest ==
    \A c \in Client :
        /\ request[c] = "monitor"
        /\ status[c] = "NOERR"
        /\ posts[c] = 1 \/ pc[c] = "done" \/ (Held(c) /\ wpc = "post")
        => data[c] = "reply"

LEMMA FrameIsHonestStep ==
    TypeOK /\ AnsweredOnce /\ FrameIsHonest /\ [Next]_vars => FrameIsHonest'
<1> USE DEF clientVars, flagVars, channelVars, workerVars, downVars, Goto, Post
<1> SUFFICES ASSUME TypeOK, AnsweredOnce, FrameIsHonest, [Next]_vars
             PROVE  FrameIsHonest'
  OBVIOUS
<1> USE DEF FrameIsHonest, AnsweredOnce, TypeOK, Queued, Held, Requests, Statuses
<1>1. ASSUME NEW c \in Client, SyncMonitor(c) PROVE FrameIsHonest'
  BY <1>1 DEF SyncMonitor
<1>2. ASSUME NEW c \in Client, SyncCommand(c) PROVE FrameIsHonest'
  BY <1>2 DEF SyncCommand
<1>3. ASSUME NEW c \in Client, Deref(c) PROVE FrameIsHonest'
  BY <1>3 DEF Deref
<1>4. ASSUME NEW c \in Client, CheckDieNow(c) PROVE FrameIsHonest'
  BY <1>4 DEF CheckDieNow
<1>5. ASSUME NEW c \in Client, IsOpenChannel(c) PROVE FrameIsHonest'
  BY <1>5 DEF IsOpenChannel
<1>6. ASSUME NEW c \in Client, OpenFails(c) PROVE FrameIsHonest'
  BY <1>6 DEF OpenFails
<1>7. ASSUME NEW c \in Client, OpenObject(c) PROVE FrameIsHonest'
  BY <1>7 DEF OpenObject
<1>8. ASSUME NEW c \in Client, SetHandle(c) PROVE FrameIsHonest'
  BY <1>8 DEF SetHandle
<1>9. ASSUME NEW c \in Client, MarkOpen(c) PROVE FrameIsHonest'
  BY <1>9 DEF MarkOpen
<1>10. ASSUME NEW c \in Client, Reject(c) PROVE FrameIsHonest'
  BY <1>10 DEF Reject, StatusAfter
<1>11. ASSUME NEW c \in Client, AppendMessage(c) PROVE FrameIsHonest'
  BY <1>11 DEF AppendMessage
<1>12. ASSUME NEW c \in Client, Wake(c) PROVE FrameIsHonest'
  BY <1>12 DEF Wake
<1>13. CASE WorkerTop
  BY <1>13 DEF WorkerTop
<1>14. CASE GetNext
  BY <1>14 DEF GetNext
<1>15. CASE GetHandle
  BY <1>15 DEF GetHandle
<1>16. CASE Transact
  BY <1>16 DEF Transact, Outcomes, StatusAfter, DataAfter
<1>17. CASE SignalCaller
  BY <1>17 DEF SignalCaller
<1>18. CASE DeleteCompletion
  BY <1>18 DEF DeleteCompletion
<1>19. CASE ShutdownBegin
  BY <1>19 DEF ShutdownBegin
<1>20. CASE WorkerIsDead
  BY <1>20 DEF WorkerIsDead
<1>21. CASE Flush
  BY <1>21 DEF Flush, StatusAfter
<1>22. CASE GetFirstOpenChannel
  BY <1>22 DEF GetFirstOpenChannel
<1>23. CASE CloseObject
  BY <1>23 DEF CloseObject
<1>24. CASE MarkClosed
  BY <1>24 DEF MarkClosed
<1>25. CASE ForgetBus
  BY <1>25 DEF ForgetBus
<1>26. CASE UNCHANGED vars
  BY <1>26 DEF vars
<1> QED
  BY <1>1, <1>2, <1>3, <1>4, <1>5, <1>6, <1>7, <1>8, <1>9, <1>10, <1>11, <1>12, <1>13,
     <1>14, <1>15, <1>16, <1>17, <1>18, <1>19, <1>20, <1>21, <1>22, <1>23, <1>24, <1>25, <1>26
     DEF Next, ClientStep, SendMessage, QueueHandlerThread, ShutdownRest

(* A syncMonitor that returns without an AMB error returns bytes the device *)
(* sent for it, whether its message was performed, rejected or flushed.     *)
THEOREM MonitorIsReplyHolds == Spec => []MonitorIsReply
<1>1. Init => FrameIsHonest
  BY DEF Init, FrameIsHonest, Held
<1>2. TypeOK /\ AnsweredOnce /\ FrameIsHonest /\ [Next]_vars => FrameIsHonest'
  BY FrameIsHonestStep
<1>3. FrameIsHonest => MonitorIsReply
  BY DEF FrameIsHonest, MonitorIsReply
<1> QED BY <1>1, <1>2, <1>3, TypeCorrect, AnsweredOnceHolds, PTL DEF Spec

-----------------------------------------------------------------------------
(* The bus implements BusService.                                           *)

(* Elements of a sequence with one more in front. *)
LEMMA ConsProperties ==
    ASSUME NEW S, NEW s \in Seq(S), NEW h \in S
    PROVE  /\ <<h>> \o s \in Seq(S) /\ <<h>> \o s # <<>>
           /\ Head(<<h>> \o s) = h /\ Tail(<<h>> \o s) = s
           /\ \A e \in S : <<h>> \o Append(s, e) = Append(<<h>> \o s, e)
OBVIOUS

(* Taking the head of a sequence and putting it in front again. *)
LEMMA HeadThenTail ==
    ASSUME NEW S, NEW s \in Seq(S), s # <<>>
    PROVE  <<Head(s)>> \o Tail(s) = s
OBVIOUS

(* Each step of the bus is a step of the service or leaves it unchanged:    *)
(* the deciding steps are the hand-overs, from sendMessage to the queue or  *)
(* to a rejection, and from the worker or flush to the semaphore.           *)
LEMMA ServiceStep ==
    TypeOK /\ AnsweredOnce /\ HandlesBound /\ [Next]_vars
        => [Service!Next]_(Service!vars)
<1> USE DEF clientVars, flagVars, channelVars, workerVars, downVars, Goto, Post
<1> SUFFICES ASSUME TypeOK, AnsweredOnce, HandlesBound, [Next]_vars
             PROVE  [Service!Next]_(Service!vars)
  OBVIOUS
<1> USE DEF TypeOK, AnsweredOnce, Queued, Held
<1>1. ASSUME NEW c \in Client, SyncMonitor(c) PROVE UNCHANGED <<lineBar, stageBar>>
  <2>1. lineBar' = lineBar /\ \A d \in Client : Stage(d)' = Stage(d)
    BY <1>1 DEF SyncMonitor, lineBar, Stage
  <2> QED BY <2>1 DEF stageBar
<1>2. ASSUME NEW c \in Client, SyncCommand(c) PROVE UNCHANGED <<lineBar, stageBar>>
  <2>1. lineBar' = lineBar /\ \A d \in Client : Stage(d)' = Stage(d)
    BY <1>2 DEF SyncCommand, lineBar, Stage
  <2> QED BY <2>1 DEF stageBar
<1>3. ASSUME NEW c \in Client, Deref(c) PROVE Service!Ask(c)
  <2>1. Stage(c) = "none" /\ Stage(c)' = "asked"
    BY <1>3 DEF Deref, Stage
  <2>2. \A d \in Client \ {c} : Stage(d)' = Stage(d)
    BY <1>3 DEF Deref, Stage
  <2>3. stageBar[c] = "none" /\ stageBar' = [stageBar EXCEPT ![c] = "asked"]
    BY <2>1, <2>2 DEF stageBar
  <2>4. lineBar' = lineBar
    BY <1>3 DEF Deref, lineBar
  <2> QED BY <2>3, <2>4 DEF Service!Ask
<1>4. ASSUME NEW c \in Client, CheckDieNow(c) PROVE UNCHANGED <<lineBar, stageBar>>
  <2>1. lineBar' = lineBar /\ \A d \in Client : Stage(d)' = Stage(d)
    BY <1>4 DEF CheckDieNow, lineBar, Stage
  <2> QED BY <2>1 DEF stageBar
<1>5. ASSUME NEW c \in Client, IsOpenChannel(c) PROVE UNCHANGED <<lineBar, stageBar>>
  <2>1. lineBar' = lineBar /\ \A d \in Client : Stage(d)' = Stage(d)
    BY <1>5 DEF IsOpenChannel, lineBar, Stage
  <2> QED BY <2>1 DEF stageBar
<1>6. ASSUME NEW c \in Client, OpenFails(c) PROVE UNCHANGED <<lineBar, stageBar>>
  <2>1. lineBar' = lineBar /\ \A d \in Client : Stage(d)' = Stage(d)
    BY <1>6 DEF OpenFails, lineBar, Stage
  <2> QED BY <2>1 DEF stageBar
<1>7. ASSUME NEW c \in Client, OpenObject(c) PROVE UNCHANGED <<lineBar, stageBar>>
  <2>1. lineBar' = lineBar /\ \A d \in Client : Stage(d)' = Stage(d)
    BY <1>7 DEF OpenObject, lineBar, Stage
  <2> QED BY <2>1 DEF stageBar
<1>8. ASSUME NEW c \in Client, SetHandle(c) PROVE UNCHANGED <<lineBar, stageBar>>
  <2>1. lineBar' = lineBar /\ \A d \in Client : Stage(d)' = Stage(d)
    BY <1>8 DEF SetHandle, lineBar, Stage
  <2> QED BY <2>1 DEF stageBar
<1>9. ASSUME NEW c \in Client, MarkOpen(c) PROVE UNCHANGED <<lineBar, stageBar>>
  <2>1. lineBar' = lineBar /\ \A d \in Client : Stage(d)' = Stage(d)
    BY <1>9 DEF MarkOpen, lineBar, Stage
  <2> QED BY <2>1 DEF stageBar
<1>10. ASSUME NEW c \in Client, Reject(c) PROVE Service!Refuse(c)
  <2>1. Stage(c) = "asked" /\ Stage(c)' = "answered"
    BY <1>10 DEF Reject, Stage
  <2>2. \A d \in Client \ {c} : Stage(d)' = Stage(d)
    BY <1>10 DEF Reject, Stage
  <2>3. stageBar[c] = "asked" /\ stageBar' = [stageBar EXCEPT ![c] = "answered"]
    BY <2>1, <2>2 DEF stageBar
  <2>4. lineBar' = lineBar
    BY <1>10 DEF Reject, lineBar
  <2> QED BY <2>3, <2>4 DEF Service!Refuse
<1>11. ASSUME NEW c \in Client, AppendMessage(c) PROVE Service!Accept(c)
  <2>1. \A x : Contains(queue', x) <=> Contains(queue, x) \/ x = c
    BY <1>11, ContainsAppend DEF AppendMessage
  <2>2. Stage(c) = "asked" /\ Stage(c)' = "accepted"
    BY <1>11, <2>1 DEF AppendMessage, Stage
  <2>3. \A d \in Client \ {c} : Stage(d)' = Stage(d)
    BY <1>11, <2>1 DEF AppendMessage, Stage
  <2>4. stageBar[c] = "asked" /\ stageBar' = [stageBar EXCEPT ![c] = "accepted"]
    BY <2>2, <2>3 DEF stageBar
  <2>5. lineBar' = Append(lineBar, c)
    <3>1. queue' = Append(queue, c) /\ UNCHANGED <<wpc, wmsg>>
      BY <1>11 DEF AppendMessage
    <3>2. <<wmsg>> \o Append(queue, c) = Append(<<wmsg>> \o queue, c)
      BY ConsProperties, c \in Client, wmsg \in Client, queue \in Seq(Client), SMTT(30)
    <3> QED BY <3>1, <3>2 DEF lineBar
  <2> QED BY <2>4, <2>5 DEF Service!Accept
<1>12. ASSUME NEW c \in Client, Wake(c) PROVE Service!Return(c)
  <2>1. Stage(c) = "answered" /\ Stage(c)' = "none"
    BY <1>12 DEF Wake, Stage
  <2>2. \A d \in Client \ {c} : Stage(d)' = Stage(d)
    BY <1>12 DEF Wake, Stage
  <2>3. stageBar[c] = "answered" /\ stageBar' = [stageBar EXCEPT ![c] = "none"]
    BY <2>1, <2>2 DEF stageBar
  <2>4. lineBar' = lineBar
    BY <1>12 DEF Wake, lineBar
  <2> QED BY <2>3, <2>4 DEF Service!Return
<1>13. ASSUME WorkerTop PROVE UNCHANGED <<lineBar, stageBar>>
  <2>1. lineBar' = lineBar /\ \A d \in Client : Stage(d)' = Stage(d)
    BY <1>13 DEF WorkerTop, lineBar, Stage
  <2> QED BY <2>1 DEF stageBar
<1>14. ASSUME GetNext PROVE UNCHANGED <<lineBar, stageBar>>
  <2>1. CASE queue = <<>>
    <3>1. lineBar' = lineBar /\ \A d \in Client : Stage(d)' = Stage(d)
      BY <1>14, <2>1 DEF GetNext, lineBar, Stage
    <3> QED BY <3>1 DEF stageBar
  <2>2. CASE queue # <<>>
    <3>1. /\ Head(queue) \in Client /\ Contains(queue, Head(queue))
          /\ \A x : Contains(Tail(queue), x) <=> Contains(queue, x) /\ x # Head(queue)
      BY <2>2, TailOfInjective
    <3>2. /\ wmsg' = Head(queue) /\ queue' = Tail(queue)
          /\ wpc = "next" /\ wpc' = "lookup" /\ UNCHANGED <<pc, posts>>
      BY <1>14, <2>2 DEF GetNext
    <3>3. \A d \in Client : (Queued(d) \/ Held(d))' <=> (Queued(d) \/ Held(d))
      BY <3>1, <3>2
    <3>4. \A d \in Client : Stage(d)' = Stage(d)
      BY <3>2, <3>3 DEF Stage
    <3>5. lineBar' = lineBar
      BY <3>2, <2>2, HeadThenTail DEF lineBar
    <3> QED BY <3>4, <3>5 DEF stageBar
  <2> QED BY <2>1, <2>2
<1>15. ASSUME GetHandle PROVE UNCHANGED <<lineBar, stageBar>>
  <2>1. lineBar' = lineBar /\ \A d \in Client : Stage(d)' = Stage(d)
    BY <1>15 DEF GetHandle, lineBar, Stage
  <2> QED BY <2>1 DEF stageBar
<1>16. ASSUME Transact PROVE UNCHANGED <<lineBar, stageBar>>
  <2>1. lineBar' = lineBar /\ \A d \in Client : Stage(d)' = Stage(d)
    BY <1>16 DEF Transact, lineBar, Stage
  <2> QED BY <2>1 DEF stageBar
<1>17. ASSUME SignalCaller PROVE Service!Serve
  <2>1. /\ lineBar = <<wmsg>> \o queue /\ lineBar' = queue
        /\ lineBar # <<>> /\ Head(lineBar) = wmsg /\ Tail(lineBar) = queue
    BY <1>17, ConsProperties DEF SignalCaller, lineBar
  <2>2. Stage(wmsg)' = "answered" /\ \A d \in Client \ {wmsg} : Stage(d)' = Stage(d)
    BY <1>17 DEF SignalCaller, Stage
  <2>3. stageBar' = [stageBar EXCEPT ![wmsg] = "answered"]
    BY <1>17, <2>2 DEF stageBar, SignalCaller
  <2> QED BY <2>1, <2>3 DEF Service!Serve
<1>18. ASSUME DeleteCompletion PROVE UNCHANGED <<lineBar, stageBar>>
  <2>1. lineBar' = lineBar /\ \A d \in Client : Stage(d)' = Stage(d)
    BY <1>18 DEF DeleteCompletion, lineBar, Stage
  <2> QED BY <2>1 DEF stageBar
<1>19. ASSUME ShutdownBegin PROVE UNCHANGED <<lineBar, stageBar>>
  <2>1. lineBar' = lineBar /\ \A d \in Client : Stage(d)' = Stage(d)
    BY <1>19 DEF ShutdownBegin, lineBar, Stage
  <2> QED BY <2>1 DEF stageBar
<1>20. ASSUME WorkerIsDead PROVE UNCHANGED <<lineBar, stageBar>>
  <2>1. lineBar' = lineBar /\ \A d \in Client : Stage(d)' = Stage(d)
    BY <1>20 DEF WorkerIsDead, lineBar, Stage
  <2> QED BY <2>1 DEF stageBar
<1>21. ASSUME Flush PROVE Service!ServeAll \/ UNCHANGED <<lineBar, stageBar>>
  <2>1. lineBar = queue /\ lineBar' = <<>> /\ wpc = "dead"
    BY <1>21 DEF Flush, lineBar, HandlesBound
  <2>2. \A x : ~Contains(queue', x)
    BY <1>21, EmptyQueue DEF Flush
  <2>3. \A d \in Client : Stage(d)' = IF Contains(queue, d) THEN "answered" ELSE Stage(d)
    BY <1>21, <2>1, <2>2 DEF Flush, Stage
  <2>4. CASE queue = <<>>
    BY <2>1, <2>3, <2>4, EmptyQueue DEF stageBar
  <2>5. CASE queue # <<>>
    <3>1. stageBar' = [c \in Client |->
                          IF Contains(lineBar, c) THEN "answered" ELSE stageBar[c]]
      BY <2>1, <2>3 DEF stageBar
    <3> QED BY <2>1, <2>5, <3>1 DEF Service!ServeAll, Service!Contains, Contains
  <2> QED BY <2>4, <2>5
<1>22. ASSUME GetFirstOpenChannel PROVE UNCHANGED <<lineBar, stageBar>>
  <2>1. lineBar' = lineBar /\ \A d \in Client : Stage(d)' = Stage(d)
    BY <1>22 DEF GetFirstOpenChannel, lineBar, Stage
  <2> QED BY <2>1 DEF stageBar
<1>23. ASSUME CloseObject PROVE UNCHANGED <<lineBar, stageBar>>
  <2>1. lineBar' = lineBar /\ \A d \in Client : Stage(d)' = Stage(d)
    BY <1>23 DEF CloseObject, lineBar, Stage
  <2> QED BY <2>1 DEF stageBar
<1>24. ASSUME MarkClosed PROVE UNCHANGED <<lineBar, stageBar>>
  <2>1. lineBar' = lineBar /\ \A d \in Client : Stage(d)' = Stage(d)
    BY <1>24 DEF MarkClosed, lineBar, Stage
  <2> QED BY <2>1 DEF stageBar
<1>25. ASSUME ForgetBus PROVE UNCHANGED <<lineBar, stageBar>>
  <2>1. lineBar' = lineBar /\ \A d \in Client : Stage(d)' = Stage(d)
    BY <1>25 DEF ForgetBus, lineBar, Stage
  <2> QED BY <2>1 DEF stageBar
<1>26. CASE UNCHANGED vars
  <2>1. lineBar' = lineBar /\ \A d \in Client : Stage(d)' = Stage(d)
    BY <1>26 DEF vars, lineBar, Stage
  <2> QED BY <2>1 DEF stageBar, Service!vars
<1> QED
  BY <1>1, <1>2, <1>3, <1>4, <1>5, <1>6, <1>7, <1>8, <1>9, <1>10, <1>11, <1>12, <1>13,
     <1>14, <1>15, <1>16, <1>17, <1>18, <1>19, <1>20, <1>21, <1>22, <1>23, <1>24, <1>25, <1>26
     DEF Next, ClientStep, SendMessage, QueueHandlerThread, ShutdownRest,
         Service!Next, Service!vars

(* For any threads and channels the bus, with its worker, its rejections    *)
(* and its shutdown, serves requests first come first served and answers    *)
(* each before its sender goes on.                                          *)
THEOREM ServiceImplemented == Spec => ServiceSpec
<1>1. Init => Service!Init
  <2>1. SUFFICES ASSUME Init PROVE Service!Init
    OBVIOUS
  <2>2. lineBar = <<>> /\ \A c \in Client : Stage(c) = "none"
    BY <2>1, EmptyQueue DEF Init, lineBar, Stage, Queued, Held
  <2> QED BY <2>2 DEF stageBar, Service!Init
<1>2. TypeOK /\ AnsweredOnce /\ HandlesBound /\ [Next]_vars
          => [Service!Next]_(Service!vars)
  BY ServiceStep
<1> QED
  BY <1>1, <1>2, TypeCorrect, AnsweredOnceHolds, HandlesBoundHolds, PTL
     DEF Spec, ServiceSpec, Service!Spec

=============================================================================
