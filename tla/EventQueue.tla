----------------------------- MODULE EventQueue -----------------------------
(* FEMCEventQueue, the one queue through which every thread of the library  *)
(* tells the host what has happened.  An event gets its number under the    *)
(* lock whether or not it is kept, and is kept if anybody is subscribed at  *)
(* the moment it would be pushed.  The count of subscribers is not under    *)
(* the lock, and nothing keeps it from being changed by two threads at      *)
(* once, or from falling below zero.  An event is its number here.          *)
EXTENDS Integers, Sequences

CONSTANTS Senders,         \* threads that add events
          Clients,         \* threads that subscribe and take events
          Nobody,          \* holds the lock when no thread does
          MaxEvents,       \* bound: numbers given out by one instance
          MaxSubscribers   \* bound: |subcribers_m|

ASSUME QueueAssumption ==
  /\ Nobody \notin Senders
  /\ MaxEvents \in Nat /\ MaxSubscribers \in Nat

VARIABLES
  instance,     \* instance_mp is not NULL
  subscribers,  \* subcribers_m
  nextSeq,      \* nextSeq_m
  queue,        \* queue_m
  lock,         \* the sender that holds queueLock_m between its steps
  entered,      \* the senders that have found the instance and want the lock
  count,        \* client -> what it is about to store in subcribers_m, or none
  taken,        \* the number of the last event taken out of the queue
  since         \* nextSeq when subscribers last became positive

vars == <<instance, subscribers, nextSeq, queue, lock, entered, count, taken, since>>

None == MaxSubscribers + 1
Count == -MaxSubscribers..MaxSubscribers

TypeOK ==
  /\ instance \in BOOLEAN /\ subscribers \in Count
  /\ nextSeq \in Nat \ {0} /\ queue \in Seq(Nat)
  /\ lock \in Senders \cup {Nobody} /\ entered \in SUBSET Senders
  /\ count \in [Clients -> Count \cup {None}]
  /\ taken \in Nat /\ since \in Nat \ {0}

Init ==
  /\ instance = FALSE /\ subscribers = 0 /\ nextSeq = 1 /\ queue = <<>>
  /\ lock = Nobody /\ entered = {} /\ count = [c \in Clients |-> None]
  /\ taken = 0 /\ since = 1

-----------------------------------------------------------------------------
(* createInstance and destroyInstance, by which the host is done with every *)
(* other call.  That no worker is still inside addEvent is assumed.         *)

CreateInstance ==
  /\ ~instance /\ instance' = TRUE
  /\ UNCHANGED <<subscribers, nextSeq, queue, lock, entered, count, taken, since>>

DestroyInstance ==
  /\ instance /\ instance' = FALSE
  /\ lock = Nobody /\ entered = {} /\ \A c \in Clients : count[c] = None
  /\ subscribers' = 0 /\ nextSeq' = 1 /\ queue' = <<>> /\ taken' = 0 /\ since' = 1
  /\ UNCHANGED <<lock, entered, count>>

-----------------------------------------------------------------------------
(* addEvent.  Without an instance nothing happens.                          *)

FindInstance(s) ==
  /\ instance /\ lock # s /\ s \notin entered
  /\ entered' = entered \cup {s}
  /\ UNCHANGED <<instance, subscribers, nextSeq, queue, lock, count, taken, since>>

\* (mutant) The number is given out before the lock is asked for.
NumberUnlocked(s) ==
  /\ s \in entered /\ nextSeq <= MaxEvents
  /\ lock' = s /\ entered' = entered \ {s}
  /\ nextSeq' = nextSeq + 1
  /\ UNCHANGED <<instance, subscribers, queue, count, taken, since>>

Number(s) ==
  /\ s \in entered /\ lock = Nobody /\ nextSeq <= MaxEvents
  /\ lock' = s /\ entered' = entered \ {s}
  /\ nextSeq' = nextSeq + 1
  /\ UNCHANGED <<instance, subscribers, queue, count, taken, since>>

\* (mutant) One subscriber is taken for none.
KeepForSeveral(s) ==
  /\ lock = s /\ lock' = Nobody
  /\ queue' = IF subscribers > 1 THEN Append(queue, nextSeq - 1) ELSE queue
  /\ UNCHANGED <<instance, subscribers, nextSeq, entered, count, taken, since>>

\* The event is pushed, or dropped, and the lock is let go.
Keep(s) ==
  /\ lock = s /\ lock' = Nobody
  /\ queue' = IF subscribers > 0 THEN Append(queue, nextSeq - 1) ELSE queue
  /\ UNCHANGED <<instance, subscribers, nextSeq, entered, count, taken, since>>

-----------------------------------------------------------------------------
(* subscribe and getNextEvent.                                              *)

\* subcribers_m += 1 or -1 reads ...
ReadCount(c, change) ==
  /\ instance /\ count[c] = None
  /\ subscribers + change \in Count
  /\ count' = [count EXCEPT ![c] = subscribers + change]
  /\ UNCHANGED <<instance, subscribers, nextSeq, queue, lock, entered, taken, since>>

\* ... and writes.  What is in the queue stays for the next subscriber.
WriteCount(c) ==
  /\ count[c] # None
  /\ subscribers' = count[c] /\ count' = [count EXCEPT ![c] = None]
  /\ since' = IF subscribers <= 0 /\ count[c] > 0 THEN nextSeq ELSE since
  /\ UNCHANGED <<instance, nextSeq, queue, lock, entered, taken>>

\* Every client takes from the same queue, subscribed or not.
GetNextEvent(c) ==
  /\ instance /\ count[c] = None /\ lock = Nobody
  /\ queue # <<>>
  /\ taken' = Head(queue) /\ queue' = Tail(queue)
  /\ UNCHANGED <<instance, subscribers, nextSeq, lock, entered, count, since>>

Next ==
  \/ CreateInstance \/ DestroyInstance
  \/ \E s \in Senders : FindInstance(s) \/ Number(s) \/ Keep(s)
  \/ \E c \in Clients : ReadCount(c, 1) \/ ReadCount(c, -1) \/ WriteCount(c) \/ GetNextEvent(c)

Spec == Init /\ [][Next]_vars

-----------------------------------------------------------------------------
(* Properties.                                                              *)

\* The next number for an event that is still to be pushed or dropped.
Pending == IF lock = Nobody THEN nextSeq ELSE nextSeq - 1

\* The queue holds events in the order of their numbers, none of them taken
\* before; and as long as the count of subscribers stays positive every
\* event since then has been taken or waits in the queue, whatever threads
\* add events while others subscribe and take.
NothingLost ==
  /\ \A i \in 1..Len(queue) : taken < queue[i] /\ queue[i] < Pending
  /\ \A i, j \in 1..Len(queue) : i < j => queue[i] < queue[j]
  /\ subscribers > 0 =>
        \A n \in since..Pending - 1 : n > taken => \E i \in 1..Len(queue) : queue[i] = n

\* Although an event is numbered in one step and pushed in another, with the
\* subscribers changing in between, the queue is the channel of EventChannel,
\* open while the count of subscribers is positive.
Channel == INSTANCE EventChannel WITH
             open <- subscribers > 0, next <- Pending, channel <- queue
IsAChannel == Channel!Spec
=============================================================================
