------------------------------- MODULE AmbBus -------------------------------
(***************************************************************************)
(* FrontEndAMBLib: the CAN bus shared by every device of the front end.    *)
(*                                                                         *)
(* Client threads (monitor threads, LabVIEW calls, optimizer threads) run  *)
(* FEHardwareDevice::syncMonitor or syncCommand: each builds a completion  *)
(* block whose pointers reach into its own stack frame, hands a message to *)
(* AmbInterface::sendMessage and blocks on a semaphore of that frame.  The *)
(* worker thread of CANBusInterface takes the messages from AmbQueue,      *)
(* performs them, writes the caller's frame through the pointers, posts    *)
(* the semaphore and deletes the block.  The thread that destroys the      *)
(* AmbInterface runs CANBusInterface::shutdown.                            *)
(*                                                                         *)
(* A thread has at most one message outstanding, so a message is named by  *)
(* the thread that waits for it.  Each action is one access to shared      *)
(* state: a flag, a mutex-protected operation of the queue or of the       *)
(* channel map, a call of the CAN driver, a semaphore operation.           *)
(***************************************************************************)
EXTENDS Integers, Sequences, SequencesExt

CONSTANTS
    Client,         \* threads that issue synchronous transactions
    Channel,        \* CAN channels in use
    NoTransmit,     \* CANBusInterface::noTransmit_m
    MaxCalls,       \* bound: transactions issued by all the threads together
    MaxOpens        \* bound: successful ncOpenObject calls

ASSUME BoundsAssumption == MaxCalls \in Nat /\ MaxOpens \in Nat
ASSUME ClientAssumption == Client # {}
ASSUME ChannelAssumption == Channel \subseteq Nat /\ Channel # {}
ASSUME NoTransmitAssumption == NoTransmit \in BOOLEAN

VARIABLES
    pc,             \* pc[c]: where thread c stands in its transaction
    request,        \* request[c]: the message in progress
    chan,           \* chan[c]: its channel
    status,         \* status[c]: the caller's `status' variable
    data,           \* data[c]: what the caller's dataLength and data hold
    posts,          \* posts[c]: value of the caller's semaphore
    fresh,          \* fresh[c]: handle ncOpenObject just returned to c
    calls,          \* transactions issued so far
    busSet,         \* AmbInterface::canBus_mp is not NULL
    dieNow,         \* CANBusInterface::dieNow
    deadNow,        \* CANBusInterface::deadNow
    queue,          \* AmbQueue
    isOpen,         \* ChannelNodeMap: isOpen of each channel
    handle,         \* ChannelNodeMap: objH of each channel, 0 when never set
    objects,        \* CAN objects open in the driver
    opens,          \* ncOpenObject calls that succeeded so far
    wpc,            \* where the worker thread stands
    wmsg,           \* message the worker took from the queue
    whandle,        \* handle the worker will use
    spc,            \* where the shutdown thread stands
    closing         \* channel it is closing

clientVars  == <<pc, request, chan, status, data, posts, fresh, calls>>
flagVars    == <<busSet, dieNow, deadNow>>
channelVars == <<isOpen, handle, objects, opens>>
workerVars  == <<wpc, wmsg, whandle>>
downVars    == <<spc, closing>>
vars == <<clientVars, flagVars, queue, channelVars, workerVars, downVars>>

Requests == {"monitor", "command", "readback"}
Statuses == {"NOERR", "TIMEOUT", "WRITEERR", "FLUSHED", "INITFAILED"}
\* "junk": uninitialised; "payload": the bytes syncCommand packed to send;
\* "reply": bytes read from the device; "empty": length zero.
Datas == {"junk", "payload", "reply", "empty"}

ClientPCs == {"idle", "deref", "dying", "probe", "open", "bind", "mark",
              "reject", "append", "wait", "done"}
WorkerPCs == {"top", "next", "lookup", "transact", "post", "free", "dead"}
DownPCs   == {"up", "spin", "flush", "first", "close", "unmark", "null", "down"}

TypeOK ==
    /\ pc \in [Client -> ClientPCs]
    /\ request \in [Client -> Requests]
    /\ chan \in [Client -> Channel]
    /\ status \in [Client -> Statuses]
    /\ data \in [Client -> Datas]
    /\ posts \in [Client -> Nat]
    /\ fresh \in [Client -> Nat]
    /\ calls \in Nat
    /\ busSet \in BOOLEAN /\ dieNow \in BOOLEAN /\ deadNow \in BOOLEAN
    /\ queue \in Seq(Client)
    /\ isOpen \in [Channel -> BOOLEAN]
    /\ handle \in [Channel -> Nat]
    /\ objects \in SUBSET Nat
    /\ opens \in Nat
    /\ wpc \in WorkerPCs /\ wmsg \in Client /\ whandle \in Nat
    /\ spc \in DownPCs /\ closing \in Channel

\* Locals of the worker and of shutdown before their first assignment: any
\* value would do, none is read.
SomeClient  == CHOOSE c \in Client : TRUE
SomeChannel == CHOOSE ch \in Channel : TRUE

Init ==
    /\ pc = [c \in Client |-> "idle"]
    /\ request = [c \in Client |-> "monitor"]
    /\ chan \in [Client -> Channel]
    /\ status = [c \in Client |-> "NOERR"]
    /\ data = [c \in Client |-> "junk"]
    /\ posts = [c \in Client |-> 0]
    /\ fresh = [c \in Client |-> 0]
    /\ calls = 0
    /\ busSet = TRUE /\ dieNow = FALSE /\ deadNow = FALSE
    /\ queue = <<>>
    /\ isOpen = [ch \in Channel |-> FALSE]
    /\ handle = [ch \in Channel |-> 0]
    /\ objects = {}
    /\ opens = 0
    /\ wpc = "top" /\ wmsg = SomeClient /\ whandle = 0
    /\ spc = "up" /\ closing = SomeChannel

-----------------------------------------------------------------------------
(* The caller's frame.                                                      *)

\* The readback of syncCommand passes a NULL status pointer.
StatusAfter(c, s) ==
    IF request[c] = "readback" THEN status
    ELSE [status EXCEPT ![c] = s]

\* A command passes NULL data and length pointers.
DataAfter(c, d) ==
    IF request[c] = "command" THEN data
    ELSE [data EXCEPT ![c] = d]

Goto(c, label) == pc' = [pc EXCEPT ![c] = label]
Post(c) == posts' = [posts EXCEPT ![c] = @ + 1]

-----------------------------------------------------------------------------
(* The client threads.                                                      *)

\* syncMonitor: status starts as NOERR, data and length are uninitialised.
SyncMonitor(c) ==
    /\ pc[c] \in {"idle", "done"}
    /\ calls < MaxCalls
    /\ Goto(c, "deref")
    /\ calls' = calls + 1
    /\ request' = [request EXCEPT ![c] = "monitor"]
    /\ status' = [status EXCEPT ![c] = "NOERR"]
    /\ data' = [data EXCEPT ![c] = "junk"]
    /\ UNCHANGED <<chan, posts, fresh, flagVars, queue, channelVars,
                   workerVars, downVars>>

\* syncCommand: the value is packed into the array the readback will fill.
SyncCommand(c) ==
    /\ pc[c] \in {"idle", "done"}
    /\ calls < MaxCalls
    /\ Goto(c, "deref")
    /\ calls' = calls + 1
    /\ request' = [request EXCEPT ![c] = "command"]
    /\ status' = [status EXCEPT ![c] = "NOERR"]
    /\ data' = [data EXCEPT ![c] = "payload"]
    /\ UNCHANGED <<chan, posts, fresh, flagVars, queue, channelVars,
                   workerVars, downVars>>

\* AmbInterface::sendMessage: with no bus the message is dropped, and the
\* caller goes on to wait for an answer nobody will give.
Deref(c) ==
    /\ pc[c] = "deref"
    /\ Goto(c, IF busSet THEN "dying" ELSE "wait")
    /\ UNCHANGED <<request, chan, status, data, posts, fresh, calls, flagVars,
                   queue, channelVars, workerVars, downVars>>

CheckDieNow(c) ==
    /\ pc[c] = "dying"
    /\ Goto(c, IF dieNow THEN "reject" ELSE "probe")
    /\ UNCHANGED <<request, chan, status, data, posts, fresh, calls, flagVars,
                   queue, channelVars, workerVars, downVars>>

\* ChannelNodeMap::isOpenChannel, read without the map's mutex.
IsOpenChannel(c) ==
    /\ pc[c] = "probe"
    /\ Goto(c, IF isOpen[chan[c]] THEN "append" ELSE "open")
    /\ UNCHANGED <<request, chan, status, data, posts, fresh, calls, flagVars,
                   queue, channelVars, workerVars, downVars>>

OpenFails(c) ==
    /\ pc[c] = "open"
    /\ Goto(c, "reject")
    /\ UNCHANGED <<request, chan, status, data, posts, fresh, calls, flagVars,
                   queue, channelVars, workerVars, downVars>>

\* NICANBusInterface::openChannel: ncOpenObject returns a new handle.
OpenObject(c) ==
    /\ pc[c] = "open"
    /\ opens < MaxOpens
    /\ opens' = opens + 1
    /\ objects' = objects \union {opens + 1}
    /\ fresh' = [fresh EXCEPT ![c] = opens + 1]
    /\ Goto(c, "bind")
    /\ UNCHANGED <<request, chan, status, data, posts, calls, flagVars, queue,
                   isOpen, handle, workerVars, downVars>>

SetHandle(c) ==
    /\ pc[c] = "bind"
    /\ handle' = [handle EXCEPT ![chan[c]] = fresh[c]]
    /\ Goto(c, "mark")
    /\ UNCHANGED <<request, chan, status, data, posts, fresh, calls, flagVars,
                   queue, isOpen, objects, opens, workerVars, downVars>>

MarkOpen(c) ==
    /\ pc[c] = "mark"
    /\ isOpen' = [isOpen EXCEPT ![chan[c]] = TRUE]
    /\ Goto(c, "append")
    /\ UNCHANGED <<request, chan, status, data, posts, fresh, calls, flagVars,
                   queue, handle, objects, opens, workerVars, downVars>>

\* Mutant: a rejected request keeps the status its caller started with.
RejectWithoutStatus(c) ==
    /\ pc[c] = "reject"
    /\ Post(c)
    /\ Goto(c, "wait")
    /\ UNCHANGED <<request, chan, status, data, fresh, calls, flagVars, queue,
                   channelVars, workerVars, downVars>>

Reject(c) ==
    /\ pc[c] = "reject"
    /\ status' = StatusAfter(c, "INITFAILED")
    /\ Post(c)
    /\ Goto(c, "wait")
    /\ UNCHANGED <<request, chan, data, fresh, calls, flagVars, queue,
                   channelVars, workerVars, downVars>>

AppendMessage(c) ==
    /\ pc[c] = "append"
    /\ queue' = Append(queue, c)
    /\ Goto(c, "wait")
    /\ UNCHANGED <<request, chan, status, data, posts, fresh, calls, flagVars,
                   channelVars, workerVars, downVars>>

\* Mutant: the caller does not block on its semaphore.
WakeUnsignalled(c) ==
    /\ pc[c] = "wait"
    /\ posts' = [posts EXCEPT ![c] = @ - 1]
    /\ Goto(c, "done")
    /\ UNCHANGED <<request, chan, status, data, fresh, calls, flagVars, queue,
                   channelVars, workerVars, downVars>>

\* sem_wait returns.  syncCommand ignores the status of its command and asks
\* for the readback; otherwise the call is over and returns a result.
Wake(c) ==
    /\ pc[c] = "wait"
    /\ posts[c] > 0
    /\ posts' = [posts EXCEPT ![c] = @ - 1]
    /\ IF request[c] = "command"
       THEN /\ request' = [request EXCEPT ![c] = "readback"]
            /\ Goto(c, "deref")
       ELSE /\ UNCHANGED request
            /\ Goto(c, "done")
    /\ UNCHANGED <<chan, status, data, fresh, calls, flagVars, queue,
                   channelVars, workerVars, downVars>>

-----------------------------------------------------------------------------
(* The worker thread: CANBusInterface::queueHandlerThread.                  *)

\* Mutant: the worker exits without telling the thread that spins on it.
WorkerTopSilent ==
    /\ wpc = "top"
    /\ wpc' = IF dieNow THEN "dead" ELSE "next"
    /\ whandle' = 0
    /\ UNCHANGED <<clientVars, flagVars, queue, channelVars, wmsg, downVars>>

WorkerTop ==
    /\ wpc = "top"
    /\ IF dieNow THEN wpc' = "dead" /\ deadNow' = TRUE
                 ELSE wpc' = "next" /\ UNCHANGED deadNow
    /\ whandle' = 0
    /\ UNCHANGED <<clientVars, busSet, dieNow, queue, channelVars, wmsg,
                   downVars>>

\* Mutant: the newest message is taken first.
GetNextNewest ==
    /\ wpc = "next"
    /\ IF queue = <<>>
       THEN wpc' = "top" /\ UNCHANGED <<wmsg, queue>>
       ELSE wpc' = "lookup" /\ wmsg' = Last(queue) /\ queue' = Front(queue)
    /\ UNCHANGED <<clientVars, flagVars, channelVars, whandle, downVars>>

\* Mutant: the message is copied from the queue and left in it.
GetNextKeeping ==
    /\ wpc = "next"
    /\ IF queue = <<>>
       THEN wpc' = "top" /\ UNCHANGED wmsg
       ELSE wpc' = "lookup" /\ wmsg' = Head(queue)
    /\ UNCHANGED <<clientVars, flagVars, queue, channelVars, whandle, downVars>>

GetNext ==
    /\ wpc = "next"
    /\ IF queue = <<>>
       THEN wpc' = "top" /\ UNCHANGED <<wmsg, queue>>
       ELSE wpc' = "lookup" /\ wmsg' = Head(queue) /\ queue' = Tail(queue)
    /\ UNCHANGED <<clientVars, flagVars, channelVars, whandle, downVars>>

GetHandle ==
    /\ wpc = "lookup"
    /\ whandle' = handle[chan[wmsg]]
    /\ wpc' = "transact"
    /\ UNCHANGED <<clientVars, flagVars, queue, channelVars, wmsg, downVars>>

\* Outcomes of commandImpl and monitorImpl: what each leaves in the frame.
Outcomes(kind) ==
    IF NoTransmit THEN {<<"TIMEOUT", "empty">>}
    ELSE IF kind = "command" THEN {<<"NOERR", "empty">>, <<"WRITEERR", "empty">>}
    ELSE {<<"NOERR", "reply">>, <<"TIMEOUT", "empty">>}

Transact ==
    /\ wpc = "transact"
    /\ \E o \in Outcomes(request[wmsg]) :
          /\ status' = StatusAfter(wmsg, o[1])
          /\ data' = DataAfter(wmsg, o[2])
    /\ wpc' = "post"
    /\ UNCHANGED <<pc, request, chan, posts, fresh, calls, flagVars, queue,
                   channelVars, wmsg, whandle, downVars>>

SignalCaller ==
    /\ wpc = "post"
    /\ Post(wmsg)
    /\ wpc' = "free"
    /\ UNCHANGED <<pc, request, chan, status, data, fresh, calls, flagVars,
                   queue, channelVars, wmsg, whandle, downVars>>

\* The completion block is deleted; the caller may already have returned.
DeleteCompletion ==
    /\ wpc = "free"
    /\ wpc' = "top"
    /\ UNCHANGED <<clientVars, flagVars, queue, channelVars, wmsg, whandle,
                   downVars>>

-----------------------------------------------------------------------------
(* The thread that runs ~AmbInterface: CANBusInterface::shutdown.           *)

ShutdownBegin ==
    /\ spc = "up"
    /\ dieNow' = TRUE
    /\ spc' = "spin"
    /\ UNCHANGED <<clientVars, busSet, deadNow, queue, channelVars, workerVars,
                   closing>>

\* Mutant: shutdown does not wait for the worker.
WorkerIsDeadUnchecked ==
    /\ spc = "spin"
    /\ spc' = "flush"
    /\ UNCHANGED <<clientVars, flagVars, queue, channelVars, workerVars,
                   closing>>

WorkerIsDead ==
    /\ spc = "spin"
    /\ deadNow
    /\ spc' = "flush"
    /\ UNCHANGED <<clientVars, flagVars, queue, channelVars, workerVars,
                   closing>>

\* Mutant: the queue is emptied and nobody is told.
FlushSilently ==
    /\ spc = "flush"
    /\ queue' = <<>>
    /\ spc' = "first"
    /\ UNCHANGED <<clientVars, flagVars, channelVars, workerVars, closing>>

\* AmbQueue::flush holds the queue's mutex throughout, and a caller it wakes
\* touches nothing flush touches: the loop is one step.
Flush ==
    /\ spc = "flush"
    /\ status' = [c \in Client |->
                    IF Contains(queue, c) THEN StatusAfter(c, "FLUSHED")[c]
                                          ELSE status[c]]
    /\ posts' = [c \in Client |->
                    IF Contains(queue, c) THEN posts[c] + 1 ELSE posts[c]]
    /\ queue' = <<>>
    /\ spc' = "first"
    /\ UNCHANGED <<pc, request, chan, data, fresh, calls, flagVars,
                   channelVars, workerVars, closing>>

GetFirstOpenChannel ==
    /\ spc = "first"
    /\ \/ \E ch \in Channel :
             /\ isOpen[ch]
             /\ \A other \in Channel : isOpen[other] => ch <= other
             /\ closing' = ch
             /\ spc' = "close"
       \/ /\ \A ch \in Channel : ~isOpen[ch]
          /\ spc' = "null"
          /\ UNCHANGED closing
    /\ UNCHANGED <<clientVars, flagVars, queue, channelVars, workerVars>>

\* NICANBusInterface::closeChannel: ncCloseObject on the map's handle.
CloseObject ==
    /\ spc = "close"
    /\ objects' = objects \ {handle[closing]}
    /\ spc' = "unmark"
    /\ UNCHANGED <<clientVars, flagVars, queue, isOpen, handle, opens,
                   workerVars, closing>>

MarkClosed ==
    /\ spc = "unmark"
    /\ isOpen' = [isOpen EXCEPT ![closing] = FALSE]
    /\ spc' = "first"
    /\ UNCHANGED <<clientVars, flagVars, queue, handle, objects, opens,
                   workerVars, closing>>

ForgetBus ==
    /\ spc = "null"
    /\ busSet' = FALSE
    /\ spc' = "down"
    /\ UNCHANGED <<clientVars, dieNow, deadNow, queue, channelVars, workerVars,
                   closing>>

-----------------------------------------------------------------------------
SendMessage(c) ==
    \/ Deref(c) \/ CheckDieNow(c) \/ IsOpenChannel(c) \/ OpenFails(c)
    \/ OpenObject(c) \/ SetHandle(c) \/ MarkOpen(c) \/ Reject(c)
    \/ AppendMessage(c)

ClientStep(c) == SyncMonitor(c) \/ SyncCommand(c) \/ SendMessage(c) \/ Wake(c)

QueueHandlerThread ==
    \/ WorkerTop \/ GetNext \/ GetHandle \/ Transact \/ SignalCaller
    \/ DeleteCompletion

ShutdownRest ==
    \/ WorkerIsDead \/ Flush \/ GetFirstOpenChannel \/ CloseObject
    \/ MarkClosed \/ ForgetBus

Next ==
    \/ \E c \in Client : ClientStep(c)
    \/ QueueHandlerThread
    \/ ShutdownBegin
    \/ ShutdownRest

Spec == Init /\ [][Next]_vars

\* Threads that can run do run; nobody has to start a transaction or the
\* shutdown, and ncOpenObject need not succeed.
Fairness ==
    /\ WF_vars(QueueHandlerThread)
    /\ WF_vars(ShutdownRest)
    /\ \A c \in Client : WF_vars(SendMessage(c)) /\ WF_vars(Wake(c))

FairSpec == Spec /\ Fairness
-----------------------------------------------------------------------------
(* Who holds the message of c once sendMessage handed it over.              *)

Queued(c) == Contains(queue, c)

\* The worker still has something to write or to signal in the frame of c.
Held(c) == wmsg = c /\ wpc \in {"lookup", "transact", "post"}

(* A caller's frame outlives every pointer into it, and its one semaphore   *)
(* is posted once for its message: the message is in the queue at most      *)
(* once, never both there and with the worker, and as long as either has it *)
(* the caller is blocked with its semaphore at zero.  A violation is a      *)
(* write into a stack frame that is gone, or an answer taken for the next   *)
(* request's (FEHardwareDevice.h syncMonitor, syncCommand).                 *)
AnsweredOnce ==
    /\ IsInjective(queue)
    /\ \A c \in Client :
        /\ ~(Queued(c) /\ Held(c))
        /\ Queued(c) \/ Held(c) => pc[c] = "wait" /\ posts[c] = 0
        /\ posts[c] <= 1
        /\ posts[c] = 1 => pc[c] = "wait"

(* syncMonitor starts with status NOERR and uninitialised data; when it     *)
(* returns with status NOERR the bytes it unpacks were read from the device *)
(* for this call, whatever became of the bus meanwhile.                     *)
MonitorIsReply ==
    \A c \in Client :
        pc[c] = "done" /\ request[c] = "monitor" /\ status[c] = "NOERR"
            => data[c] = "reply"

(* The worker never calls the driver with a handle that was not opened, or  *)
(* that shutdown has closed: a handle is bound before its channel is marked *)
(* open, and channels are closed only when the worker is gone.              *)
HandleIsOpen == wpc = "transact" => whandle \in objects

(* A message that was in the queue before shutdown emptied it does not keep *)
(* its sender blocked: the worker performs it or flush answers it.          *)
QueuedIsAnswered ==
    \A c \in Client :
        (Queued(c) /\ spc \in {"up", "spin", "flush"}) ~> pc[c] # "wait"

(* CANBusInterface::shutdown returns: the worker sees dieNow and reports    *)
(* its death, and the loop over the open channels ends, although clients    *)
(* may be opening channels behind it.                                       *)
ShutdownReturns == spc = "spin" ~> spc = "down"

(* CANBusInterface.cpp:89: "At this point it's safe to queue the command    *)
(* for sending".  No message is left in the queue once shutdown has flushed *)
(* it, for nobody will look there again.                                    *)
SafeToQueue == spc \in {"first", "close", "unmark", "null", "down"} => queue = <<>>

(* FEHardwareDevice.h:200-202: syncCommand performs "a pair of command and  *)
(* readback transactions" and returns "the status byte from the readback".  *)
(* When it returns without error the bytes it unpacked are a readback.      *)
CommandIsReadBack ==
    \A c \in Client :
        pc[c] = "done" /\ request[c] = "readback" /\ data[c] # "empty"
            => data[c] = "reply"

-----------------------------------------------------------------------------
(* The bus implements the service it promises.                              *)

\* The message the worker is busy with is still first in line.
lineBar == IF wpc \in {"lookup", "transact", "post"} THEN <<wmsg>> \o queue
                                                    ELSE queue

Stage(c) ==
    IF posts[c] > 0 THEN "answered"
    ELSE IF Queued(c) \/ Held(c) THEN "accepted"
    ELSE IF pc[c] \in {"idle", "done", "deref"} THEN "none"
    ELSE "asked"

stageBar == [c \in Client |-> Stage(c)]

Service == INSTANCE BusService WITH line <- lineBar, stage <- stageBar

(* Requests are served in the order they were queued, each is answered once *)
(* and its sender goes on only then, across the worker, the rejections in   *)
(* sendMessage and the flush of shutdown.                                   *)
ServiceSpec == Service!Spec
=============================================================================
