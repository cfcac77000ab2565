--------------------------- MODULE LibraryProofs ----------------------------
(* What is shared by all that the library does: the event queue, and the    *)
(* sessions that keep its objects alive.                                    *)
(* For any number of senders, clients, events and subscribers: the event    *)
(* queue loses nothing while the count of subscribers stays positive, keeps *)
(* the order of the numbers (NothingLost), and is the channel of            *)
(* EventChannel (IsAChannel).                                               *)
(* For any number of sessions, cartridges and threads of the host, as long  *)
(* as no two threads initialize at once (OneAtATime): whatever can still    *)
(* send has its bus, a session that was served stays served, the last one   *)
(* to leave leaves nothing behind, and an exported call uses no object that *)
(* is not there.                                                            *)
EXTENDS EventQueue, Sessions, TLAPS

-----------------------------------------------------------------------------
(* Sequences.                                                               *)

(* A place in a row that has become longer by one. *)
LEMMA LastOrBefore ==
    ASSUME NEW n \in Nat, NEW j \in 1..n + 1
    PROVE  j \in 1..n \/ j = n + 1
OBVIOUS

(* What push_back leaves in front of the new event. *)
LEMMA AppendAt ==
    ASSUME NEW q \in Seq(Nat), NEW e \in Nat
    PROVE  /\ Append(q, e) \in Seq(Nat) /\ Len(q) \in Nat
           /\ Len(Append(q, e)) = Len(q) + 1
           /\ \A i \in 1..Len(q) : Append(q, e)[i] = q[i]
           /\ Append(q, e)[Len(q) + 1] = e
  OBVIOUS

(* What pop_front leaves behind it. *)
LEMMA TailAt ==
    ASSUME NEW q \in Seq(Nat), q # <<>>
    PROVE  /\ Tail(q) \in Seq(Nat) /\ Head(q) = q[1] /\ Head(q) \in Nat
           /\ Len(q) \in Nat \ {0} /\ Len(Tail(q)) = Len(q) - 1
           /\ \A i \in 1..Len(Tail(q)) : Tail(q)[i] = q[i + 1]
  OBVIOUS

-----------------------------------------------------------------------------
(* Types.                                                                   *)

(* Every variable keeps its type; the counter of the numbers never falls    *)
(* below one, and whoever holds the lock is a sender.                       *)
THEOREM TypeCorrect == Spec => []TypeOK
<1>1. Init => TypeOK
  <2> SUFFICES ASSUME Init PROVE TypeOK
    OBVIOUS
  <2> USE DEF Init
  <2>1. instance \in BOOLEAN /\ lock \in Senders \cup {Nobody} /\ entered \in SUBSET Senders
    OBVIOUS
  <2>2. subscribers \in Count
    BY QueueAssumption DEF Count
  <2>3. nextSeq \in Nat \ {0} /\ taken \in Nat /\ since \in Nat \ {0}
    OBVIOUS
  <2>4. queue \in Seq(Nat)
    OBVIOUS
  <2>5. count \in [Clients -> Count \cup {None}]
    OBVIOUS
  <2> QED BY <2>1, <2>2, <2>3, <2>4, <2>5, Zenon DEF TypeOK
<1>2. TypeOK /\ [Next]_vars => TypeOK'
  <2> SUFFICES ASSUME TypeOK, [Next]_vars PROVE TypeOK'
    OBVIOUS
  <2> USE DEF TypeOK
  <2>1. CASE CreateInstance
    BY <2>1 DEF CreateInstance
  <2>2. CASE DestroyInstance
    <3>1. /\ instance' = FALSE /\ subscribers' = 0 /\ nextSeq' = 1 /\ queue' = <<>>
          /\ taken' = 0 /\ since' = 1 /\ UNCHANGED <<lock, entered, count>>
      BY <2>2 DEF DestroyInstance
    <3>2. instance' \in BOOLEAN /\ lock' \in Senders \cup {Nobody} /\ entered' \in SUBSET Senders
      BY <3>1
    <3>3. subscribers' \in Count
      BY <3>1, QueueAssumption DEF Count
    <3>4. nextSeq' \in Nat \ {0} /\ taken' \in Nat /\ since' \in Nat \ {0}
      BY <3>1
    <3>5. queue' \in Seq(Nat)
      BY <3>1
    <3>6. count' \in [Clients -> Count \cup {None}]
      BY <3>1
    <3> QED BY <3>2, <3>3, <3>4, <3>5, <3>6, Zenon DEF TypeOK, Count, None
  <2>3. ASSUME NEW s \in Senders, FindInstance(s) PROVE TypeOK'
    BY <2>3 DEF FindInstance
  <2>4. ASSUME NEW s \in Senders, Number(s) PROVE TypeOK'
    BY <2>4 DEF Number
  <2>5. ASSUME NEW s \in Senders, Keep(s) PROVE TypeOK'
    <3>1. nextSeq - 1 \in Nat
      OBVIOUS
    <3>2. queue' \in Seq(Nat)
      BY <2>5, <3>1, AppendAt DEF Keep
    <3> QED BY <2>5, <3>2 DEF Keep
  <2>6. ASSUME NEW c \in Clients, NEW change \in {1, -1}, ReadCount(c, change)
        PROVE TypeOK'
    BY <2>6 DEF ReadCount
  <2>7. ASSUME NEW c \in Clients, WriteCount(c) PROVE TypeOK'
    BY <2>7 DEF WriteCount
  <2>8. ASSUME NEW c \in Clients, GetNextEvent(c) PROVE TypeOK'
    <3>1. taken' \in Nat /\ queue' \in Seq(Nat)
      BY <2>8, TailAt DEF GetNextEvent
    <3> QED BY <2>8, <3>1 DEF GetNextEvent
  <2>9. CASE UNCHANGED vars
    BY <2>9 DEF vars
  <2> QED BY <2>1, <2>2, <2>3, <2>4, <2>5, <2>6, <2>7, <2>8, <2>9 DEF Next
<1> QED BY <1>1, <1>2, PTL DEF Spec

-----------------------------------------------------------------------------
(* Nothing is lost.  Between the number and the push the event is in no     *)
(* queue; what makes NothingLost inductive is where the numbers stand then. *)

Numbered ==
    /\ lock # Nobody => nextSeq > 1
    /\ taken < Pending

NothingLostInv == Numbered /\ NothingLost

(* NothingLost, part by part. *)
InOrder == \A i \in 1..Len(queue) : taken < queue[i] /\ queue[i] < Pending
Ascending == \A i, j \in 1..Len(queue) : i < j => queue[i] < queue[j]
Waits(n) == \E i \in 1..Len(queue) : queue[i] = n
Kept == subscribers > 0 => \A n \in since..Pending - 1 : n > taken => Waits(n)

LEMMA Parts == NothingLost <=> InOrder /\ Ascending /\ Kept
  BY DEF NothingLost, InOrder, Ascending, Kept, Waits

(* addEvent, after the number: the event goes to the end of the queue if    *)
(* anybody is subscribed, and is passed over if nobody is.                  *)
LEMMA KeepLoses ==
    ASSUME TypeOK, NothingLostInv, NEW s \in Senders, Keep(s)
    PROVE  NothingLostInv'
<1> USE DEF TypeOK
<1>1. /\ lock # Nobody /\ lock' = Nobody /\ nextSeq > 1
      /\ UNCHANGED <<nextSeq, taken, since, subscribers>>
  BY QueueAssumption DEF Keep, NothingLostInv, Numbered
<1>2. Pending = nextSeq - 1 /\ Pending' = nextSeq /\ Pending \in Nat
  BY <1>1 DEF Pending
<1>3. taken < Pending /\ InOrder /\ Ascending /\ Kept
  BY Parts DEF NothingLostInv, Numbered
<1>4. Numbered'
  BY <1>1, <1>2, <1>3 DEF Numbered
<1>5. CASE subscribers > 0
  <2>1. queue' = Append(queue, Pending)
    BY <1>2, <1>5 DEF Keep
  <2>2. /\ Len(queue) \in Nat /\ Len(queue') = Len(queue) + 1
        /\ \A i \in 1..Len(queue) : queue'[i] = queue[i] /\ queue[i] \in Nat
        /\ queue'[Len(queue) + 1] = Pending
    BY <1>2, <2>1, AppendAt
  <2>3. InOrder'
    BY <1>1, <1>2, <1>3, <2>2 DEF InOrder
  <2>4. Ascending'
    <3> SUFFICES ASSUME NEW i \in 1..Len(queue'), NEW j \in 1..Len(queue'), i < j
                 PROVE  queue'[i] < queue'[j]
      BY DEF Ascending
    <3>1. i \in 1..Len(queue)
      <4>1. i \in Int /\ j \in Int /\ 1 <= i /\ j <= Len(queue) + 1
        BY <2>2
      <4> QED BY <2>2, <4>1
    <3>2. CASE j \in 1..Len(queue)
      BY <1>3, <2>2, <3>1, <3>2 DEF Ascending
    <3>3. CASE j = Len(queue) + 1
      BY <1>3, <2>2, <3>1, <3>3 DEF InOrder
    <3>4. j \in 1..Len(queue) \/ j = Len(queue) + 1
      <4> HIDE DEF TypeOK
      <4>1. Len(queue) \in Nat /\ j \in 1..Len(queue) + 1
        BY <2>2
      <4> QED BY <4>1, LastOrBefore
    <3> QED BY <3>2, <3>3, <3>4
  <2>5. Kept'
    <3> SUFFICES ASSUME NEW n \in since..Pending, n > taken
                 PROVE  \E i \in 1..Len(queue') : queue'[i] = n
      BY <1>1, <1>2 DEF Kept, Waits
    <3>1. CASE n = Pending
      BY <2>2, <3>1
    <3>2. CASE n # Pending
      <4>1. n \in since..Pending - 1
        BY <1>2, <3>2
      <4>2. PICK i \in 1..Len(queue) : queue[i] = n
        BY <1>3, <1>5, <4>1 DEF Kept, Waits
      <4> QED BY <2>2, <4>2
    <3> QED BY <3>1, <3>2
  <2> QED BY <1>4, <2>3, <2>4, <2>5, Parts, PTL DEF NothingLostInv
<1>6. CASE ~(subscribers > 0)
  <2>1. queue' = queue
    BY <1>6 DEF Keep
  <2>2. InOrder' /\ Ascending' /\ Kept'
    BY <1>1, <1>2, <1>3, <1>6, <2>1 DEF InOrder, Ascending, Kept
  <2> QED BY <1>4, <2>2, Parts, PTL DEF NothingLostInv
<1> QED BY <1>5, <1>6

(* getNextEvent: what is taken is the smallest number that waits. *)
LEMMA TakeLoses ==
    ASSUME TypeOK, NothingLostInv, NEW c \in Clients, GetNextEvent(c)
    PROVE  NothingLostInv'
<1> USE DEF TypeOK
<1>1. /\ UNCHANGED <<nextSeq, lock, since, subscribers>>
      /\ queue # <<>> /\ taken' = Head(queue) /\ queue' = Tail(queue)
  BY DEF GetNextEvent
<1>2. Pending' = Pending /\ Pending \in Nat
  BY <1>1 DEF Pending
<1>3. Numbered /\ InOrder /\ Ascending /\ Kept
  BY Parts DEF NothingLostInv
<1>4. /\ Len(queue) \in Nat \ {0} /\ Len(queue') = Len(queue) - 1
      /\ \A i \in 1..Len(queue') : queue'[i] = queue[i + 1]
      /\ \A i \in 1..Len(queue) : queue[i] \in Nat
      /\ taken' = queue[1] /\ taken' \in Nat
  BY <1>1, TailAt
<1>5. Numbered'
  BY <1>1, <1>2, <1>3, <1>4 DEF Numbered, InOrder
<1>6. InOrder'
  <2> SUFFICES ASSUME NEW i \in 1..Len(queue')
               PROVE  taken' < queue'[i] /\ queue'[i] < Pending'
    BY DEF InOrder
  <2>1. 1 \in 1..Len(queue) /\ i + 1 \in 1..Len(queue) /\ 1 < i + 1
    BY <1>4
  <2>2. queue'[i] = queue[i + 1]
    BY <1>4
  <2>3. queue[1] < queue[i + 1] /\ queue[i + 1] < Pending
    BY <1>3, <2>1 DEF InOrder, Ascending
  <2> QED BY <1>2, <1>4, <2>2, <2>3
<1>7. Ascending'
  <2> SUFFICES ASSUME NEW i \in 1..Len(queue'), NEW j \in 1..Len(queue'), i < j
               PROVE  queue'[i] < queue'[j]
    BY DEF Ascending
  <2>1. i + 1 \in 1..Len(queue) /\ j + 1 \in 1..Len(queue) /\ i + 1 < j + 1
    BY <1>4
  <2>2. queue'[i] = queue[i + 1] /\ queue'[j] = queue[j + 1]
    BY <1>4
  <2> QED BY <1>3, <2>1, <2>2 DEF Ascending
<1>8. Kept'
  <2> SUFFICES ASSUME subscribers > 0, NEW n \in since..Pending - 1, n > taken'
               PROVE  \E i \in 1..Len(queue') : queue'[i] = n
    BY <1>1, <1>2 DEF Kept, Waits
  <2>1. taken < taken'
    BY <1>3, <1>4 DEF InOrder
  <2>2. PICK i \in 1..Len(queue) : queue[i] = n
    BY <1>2, <1>3, <1>4, <2>1 DEF Kept, Waits
  <2>3. i # 1
    BY <1>4, <2>2
  <2>4. i - 1 \in 1..Len(queue') /\ (i - 1) + 1 = i
    BY <1>4, <2>3
  <2>5. queue'[i - 1] = n
    BY <1>4, <2>2, <2>4
  <2> QED BY <2>4, <2>5
<1> QED BY <1>5, <1>6, <1>7, <1>8, Parts, PTL DEF NothingLostInv

(* No event is lost while the count of subscribers stays positive, and none *)
(* is taken twice or before its turn (addEvent, subscribe, getNextEvent).   *)
THEOREM NothingLostHolds == Spec => []NothingLost
<1>1. Init => NothingLostInv
  BY DEF Init, NothingLostInv, Numbered, NothingLost, Pending
<1>2. TypeOK /\ NothingLostInv /\ [Next]_vars => NothingLostInv'
  <2> SUFFICES ASSUME TypeOK, NothingLostInv, [Next]_vars PROVE NothingLostInv'
    OBVIOUS
  <2>1. CASE CreateInstance
    BY <2>1 DEF CreateInstance, NothingLostInv, Numbered, NothingLost, Pending
  <2>2. CASE DestroyInstance
    BY <2>2 DEF DestroyInstance, NothingLostInv, Numbered, NothingLost, Pending
  <2>3. ASSUME NEW s \in Senders, FindInstance(s) PROVE NothingLostInv'
    BY <2>3 DEF FindInstance, NothingLostInv, Numbered, NothingLost, Pending
  <2>4. ASSUME NEW s \in Senders, Number(s) PROVE NothingLostInv'
    <3>1. Pending' = Pending /\ UNCHANGED <<queue, taken, since, subscribers>>
      BY <2>4, QueueAssumption DEF Number, Pending, TypeOK
    <3>2. lock' # Nobody => nextSeq' > 1
      BY <2>4 DEF Number, TypeOK
    <3> QED BY <3>1, <3>2 DEF NothingLostInv, Numbered, NothingLost
  <2>5. ASSUME NEW s \in Senders, Keep(s) PROVE NothingLostInv'
    BY <2>5, KeepLoses
  <2>6. ASSUME NEW c \in Clients, NEW change \in {1, -1}, ReadCount(c, change)
        PROVE NothingLostInv'
    BY <2>6 DEF ReadCount, NothingLostInv, Numbered, NothingLost, Pending
  <2>7. ASSUME NEW c \in Clients, WriteCount(c) PROVE NothingLostInv'
    <3>1. /\ UNCHANGED <<queue, taken, nextSeq, lock>> /\ Pending' = Pending
          /\ subscribers' = count[c] /\ subscribers \in Int /\ count[c] \in Int
      BY <2>7, QueueAssumption DEF WriteCount, TypeOK, Pending, Count, None
    <3>2. CASE subscribers > 0
      <4>1. since' = since
        BY <2>7, <3>1, <3>2 DEF WriteCount
      <4> QED BY <3>1, <3>2, <4>1 DEF NothingLostInv, Numbered, NothingLost
    <3>3. CASE subscribers <= 0 /\ count[c] > 0
      <4>1. since' = nextSeq /\ Pending <= nextSeq /\ nextSeq \in Nat /\ Pending \in Int
        BY <2>7, <3>3 DEF WriteCount, TypeOK, Pending
      <4>2. since'..Pending' - 1 = {}
        BY <3>1, <4>1
      <4> QED BY <3>1, <4>2 DEF NothingLostInv, Numbered, NothingLost
    <3>4. CASE ~(count[c] > 0)
      BY <3>1, <3>4 DEF NothingLostInv, Numbered, NothingLost
    <3> QED BY <3>1, <3>2, <3>3, <3>4
  <2>8. ASSUME NEW c \in Clients, GetNextEvent(c) PROVE NothingLostInv'
    BY <2>8, TakeLoses
  <2>9. CASE UNCHANGED vars
    BY <2>9 DEF vars, NothingLostInv, Numbered, NothingLost, Pending
  <2> QED BY <2>1, <2>2, <2>3, <2>4, <2>5, <2>6, <2>7, <2>8, <2>9 DEF Next
<1>3. NothingLostInv => NothingLost
  BY DEF NothingLostInv
<1> QED BY <1>1, <1>2, <1>3, TypeCorrect, PTL DEF Spec

-----------------------------------------------------------------------------
(* The channel.                                                             *)

(* An event is sent where it is pushed or dropped; the count of subscribers *)
(* opens and closes the channel where it passes zero.                       *)
LEMMA ChannelStep ==
    ASSUME TypeOK, [Next]_vars
    PROVE  [Channel!Next]_(Channel!channelVars)
<1> USE DEF Channel!Next, Channel!channelVars
<1>1. CASE CreateInstance
  BY <1>1 DEF CreateInstance, Pending
<1>2. CASE DestroyInstance
  BY <1>2 DEF DestroyInstance, Pending, Channel!Renew
<1>3. ASSUME NEW s \in Senders, FindInstance(s)
      PROVE  [Channel!Next]_(Channel!channelVars)
  BY <1>3 DEF FindInstance, Pending
<1>4. ASSUME NEW s \in Senders, Number(s)
      PROVE  [Channel!Next]_(Channel!channelVars)
  BY <1>4, QueueAssumption DEF Number, Pending, TypeOK
<1>5. ASSUME NEW s \in Senders, Keep(s)
      PROVE  [Channel!Next]_(Channel!channelVars)
  <2>1. Pending = nextSeq - 1 /\ Pending' = Pending + 1
    BY <1>5, QueueAssumption DEF Keep, Pending, TypeOK
  <2> QED BY <1>5, <2>1 DEF Keep, Channel!Send
<1>6. ASSUME NEW c \in Clients, NEW change \in {1, -1}, ReadCount(c, change)
      PROVE  [Channel!Next]_(Channel!channelVars)
  BY <1>6 DEF ReadCount, Pending
<1>7. ASSUME NEW c \in Clients, WriteCount(c)
      PROVE  [Channel!Next]_(Channel!channelVars)
  <2>1. UNCHANGED <<Pending, queue>>
    BY <1>7 DEF WriteCount, Pending
  <2>2. CASE (subscribers > 0)' = (subscribers > 0)
    BY <2>1, <2>2
  <2>3. CASE (subscribers > 0)' # (subscribers > 0)
    <3>1. (subscribers > 0)' = ~(subscribers > 0)
      BY <2>3
    <3> QED BY <2>1, <3>1 DEF Channel!OpenOrClose
  <2> QED BY <2>2, <2>3
<1>8. ASSUME NEW c \in Clients, GetNextEvent(c)
      PROVE  [Channel!Next]_(Channel!channelVars)
  BY <1>8 DEF GetNextEvent, Pending, Channel!Take
<1>9. CASE UNCHANGED vars
  BY <1>9 DEF vars, Pending
<1> QED BY <1>1, <1>2, <1>3, <1>4, <1>5, <1>6, <1>7, <1>8, <1>9 DEF Next

(* The event queue implements the channel its users rely on. *)
THEOREM ChannelImplemented == Spec => IsAChannel
<1>1. Init => Channel!Init
  BY DEF Init, Channel!Init, Pending
<1>2. TypeOK /\ [Next]_vars => [Channel!Next]_(Channel!channelVars)
  BY ChannelStep
<1> QED BY <1>1, <1>2, TypeCorrect, PTL DEF Spec, IsAChannel, Channel!Spec

-----------------------------------------------------------------------------
(* Sessions.                                                                *)

(* No two threads of the host are inside an initialization at once.  With   *)
(* two LVWrapperInit can lose a bus or hand out one that is deleted.        *)
OneAtATime ==
  \A a, b \in Callers : call[a].pc # "idle" /\ call[b].pc # "idle" => a = b

(* The part of an initialization before its module's object exists. *)
Early == {"enter", "build", "install", "create"}

(* Some call of k is in that part for module m. *)
Starting(k, m) == \E c \in Callers : k[c].pc \in Early /\ k[c].module = m

(* Some call of k has been counted by LVWrapperInit and has no object yet;  *)
(* it has the bus, and makes its object; it is about to initialize the      *)
(* compressor; it is somewhere in the initialization that a client asked of *)
(* m.                                                                       *)
Counted(k) == \E c \in Callers : k[c].pc \in {"build", "install", "create"}
Creating(k) == \E c \in Callers : k[c].pc = "create"
Asking(k) == \E c \in Callers : k[c].pc = "compressor"
Opening(k, m) == \E c \in Callers :
  k[c].pc # "idle" /\ m = (IF k[c].nested THEN "FE" ELSE k[c].module)

(* A condition as a number, for the sums. *)
One(x) == IF x THEN 1 ELSE 0

(* The modules that their shutdown takes down whatever became of the        *)
(* initialization. The others do nothing unless they are valid.             *)
Keyed == {"FE", "SigSrc"}

(* Module m still owes one LVWrapperShutdown for an object it has made. *)
Held(m) == IF m \in Keyed THEN owed[m] > One(Starting(call, m)) ELSE valid[m]

(* What the count of connected modules has to cover: the modules that are   *)
(* held, the front end's abandoned object, and the call that was counted    *)
(* and has no object yet.                                                   *)
Holding ==
  One(Held("FE")) + One(Held("SigSrc")) + One(Held("LORTM")) + One(Held("Compressor"))
  + One("FE" \in abandoned) + One(Counted(call))

(* What is known at each line of an initialization: the inner call of a     *)
(* front end is the compressor's; LVWrapperValid is as the call found it;   *)
(* the count of connected modules is within its bound; the object that is   *)
(* configured exists.                                                       *)
CallInOrder(c) ==
  /\ call[c].nested => call[c].module = "Compressor" /\ call[c].pc \in Early
  /\ call[c].pc = "compressor" => call[c].module = "FE"
  /\ call[c].pc = "load" => call[c].module \in Keyed
  /\ call[c].pc \in {"build", "install"} => ~LVWrapperValid
  /\ call[c].pc = "create" => LVWrapperValid
  /\ call[c].pc = "enter" => connectedModules < MaxConnected + One(call[c].nested)
  /\ call[c].pc \in {"build", "install", "create", "compressor"} /\ ~call[c].nested
     => connectedModules <= MaxConnected
  /\ call[c].pc = "compressor" \/ call[c].nested => startCompressorModule
  /\ call[c].pc \in {"compressor", "load"} => object[call[c].module] # "none"
  /\ call[c].nested => object["FE"] # "none"

(* So it is for every caller. *)
CallsInOrder == \A c \in Callers : CallInOrder(c)

(* Module m is up: XControlInit shares it with its caller. *)
Up(m) == object[m] # "none" /\ valid[m]

(* Whatever exists is held by its module, only the front end abandons an    *)
(* object, and no module is up before the object of its initialization is   *)
(* made; only the front end can be valid without one.                       *)
ObjectsAreHeld ==
  /\ abandoned \subseteq {"FE"}
  /\ \A m \in Modules :
        /\ m # "FE" /\ valid[m] => object[m] # "none"
        /\ object[m] # "none" => Held(m)
        /\ Starting(call, m) => ~Up(m)
  /\ ~valid["SigSrc"] => object["SigSrc"] # "monitoring"

(* There is a bus exactly when LVWrapperValid says so, and whatever is held *)
(* is counted; so the count cannot reach zero under an object.              *)
BusIsHeld ==
  /\ bus = LVWrapperValid
  /\ Holding <= connectedModules
  /\ \A m \in Modules : object[m] # "none" \/ m \in abandoned => LVWrapperValid

(* Of the sessions begun those served are a part, apart from the one being  *)
(* opened; a module other than the compressor with a served session is up;  *)
(* a module's clients are its sessions.                              *)
SessionsAreCounted ==
  /\ \A m \in Modules :
        /\ served[m] + One(Opening(call, m)) <= owed[m]
        /\ m # "Compressor" /\ served[m] > 0 => Up(m)
  /\ \A m \in Keyed : clients[m] = owed[m]
  /\ clients["LORTM"] >= owed["LORTM"]

(* The session of the compressor that the front end took for itself. *)
Share ==
  One(startCompressorModule /\ Held("FE") /\ ~Asking(call))

(* While no initialization has failed every count is exact: nothing that    *)
(* was raised is not owed.                                                  *)
CleanIsExact ==
  clean =>
    /\ \A m \in Modules : served[m] + One(Opening(call, m)) = owed[m]
    /\ clients["LORTM"] = owed["LORTM"]
    /\ clients["Compressor"] = owed["Compressor"] + Share
    /\ \A m \in {"LORTM", "Compressor"} : valid[m] <=> clients[m] > One(Starting(call, m))
    /\ Holding = connectedModules /\ abandoned = {}
    /\ LVWrapperValid <=> connectedModules > One(Counted(call) /\ ~Creating(call))

(* A port that is on has a cartridge. *)
FittedIsOn == \A p \in on : CartAt(p) # {}

(* The inductive invariant. *)
SessionsInv ==
  /\ SessionsTypeOK /\ CallsInOrder /\ ObjectsAreHeld /\ BusIsHeld /\ SessionsAreCounted
  /\ CleanIsExact /\ FittedIsOn

(* What the calls k show when the only one under way is at pc, for m. *)
Shows(k, pc, m, nested) ==
  /\ \A n \in Modules : Starting(k, n) <=> pc \in Early /\ m = n
  /\ \A n \in Modules : Opening(k, n) <=> pc # "idle" /\ n = (IF nested THEN "FE" ELSE m)
  /\ Counted(k) <=> pc \in {"build", "install", "create"}
  /\ Creating(k) <=> pc = "create"
  /\ Asking(k) <=> pc = "compressor"

(* What is said of all calls, when all but c are outside the library. *)
LEMMA OneCall ==
  ASSUME NEW k, NEW c \in Callers, \A b \in Callers : b # c => k[b].pc = "idle"
  PROVE  Shows(k, k[c].pc, k[c].module, k[c].nested)
  BY DEF Shows, Starting, Opening, Counted, Creating, Asking, Early

(* No call is inside the library. *)
Quiet(k) ==
  /\ \A n \in Modules : ~Starting(k, n) /\ ~Opening(k, n)
  /\ ~Counted(k) /\ ~Creating(k) /\ ~Asking(k)

(* It is so when every caller is idle. *)
LEMMA NoCall ==
  ASSUME NEW k, \A c \in Callers : k[c].pc = "idle"
  PROVE  Quiet(k)
  BY DEF Quiet, Starting, Opening, Counted, Creating, Asking, Early

(* At first nothing exists and nothing is counted. *)
LEMMA InitHolds == SessionsInit => SessionsInv
<1> SUFFICES ASSUME SessionsInit PROVE SessionsInv
  OBVIOUS
<1>1. \A c \in Callers : call[c] = Idle /\ call[c].pc = "idle" /\ ~call[c].nested
  BY DEF SessionsInit, Idle
<1>2. Quiet(call)
  BY <1>1, NoCall
<1>3. \A m \in Modules : /\ served[m] = 0 /\ owed[m] = 0 /\ clients[m] = 0
                         /\ object[m] = "none" /\ ~valid[m]
  BY DEF SessionsInit
<1>4. SessionsTypeOK
  <2>1. call \in [Callers -> CallType]
    BY DEF SessionsInit, Idle, CallType, PCs, Modules
  <2>2. 0 \in 0..MaxConnected + 1
    BY SessionsAssumption
  <2>3. owed \in [Modules -> Nat] /\ served \in [Modules -> Nat]
        /\ \A m \in Modules : served[m] <= owed[m]
    BY DEF SessionsInit
  <2>4. /\ clients \in [Modules -> Int] /\ valid \in [Modules -> BOOLEAN]
        /\ object \in [Modules -> Objects] /\ abandoned \subseteq Modules
    BY DEF SessionsInit, Objects
  <2> QED BY <2>1, <2>2, <2>3, <2>4 DEF SessionsTypeOK, SessionsInit
<1>5. CallsInOrder
  BY <1>1 DEF CallsInOrder, CallInOrder
<1>6. \A m \in Modules : ~Held(m) /\ One(Opening(call, m)) = 0 /\ One(Starting(call, m)) = 0
  BY <1>2, <1>3 DEF Held, One, Quiet
<1>7. Holding = 0
  BY <1>2, <1>6 DEF Holding, One, Modules, Quiet, SessionsInit
<1>8. ObjectsAreHeld
  BY <1>2, <1>3 DEF ObjectsAreHeld, Up, Quiet, Modules, SessionsInit
<1>9. BusIsHeld
  <2>1. /\ bus = LVWrapperValid /\ connectedModules = 0
        /\ \A m \in Modules : ~(object[m] # "none" \/ m \in abandoned)
    BY <1>3 DEF SessionsInit
  <2> QED BY <1>7, <2>1 DEF BusIsHeld
<1>10. SessionsAreCounted
  <2>1. Keyed \subseteq Modules /\ "LORTM" \in Modules
    BY DEF Keyed, Modules
  <2> QED BY <1>3, <1>6, <2>1 DEF SessionsAreCounted
<1>11. CleanIsExact
  <2>1. Share = 0 /\ One(Counted(call) /\ ~Creating(call)) = 0
    BY <1>2, <1>6 DEF Share, One, Modules, Quiet
  <2>2. "Compressor" \in Modules /\ "LORTM" \in Modules
    BY DEF Modules
  <2> QED BY <2>1, <2>2, <1>3, <1>6, <1>7 DEF CleanIsExact, SessionsInit
<1>12. FittedIsOn
  BY DEF FittedIsOn, SessionsInit
<1> QED BY <1>4, <1>5, <1>8, <1>9, <1>10, <1>11, <1>12 DEF SessionsInv

-----------------------------------------------------------------------------
(* A caller inside the library is alone in it. *)
LEMMA Alone ==
  ASSUME SessionsTypeOK, OneAtATime, NEW c \in Callers, call[c].pc # "idle"
  PROVE  /\ call \in [Callers -> CallType] /\ call[c] \in CallType
         /\ \A b \in Callers : b # c => call[b].pc = "idle"
         /\ Shows(call, call[c].pc, call[c].module, call[c].nested)
<1>1. call \in [Callers -> CallType] /\ call[c] \in CallType
  BY DEF SessionsTypeOK
<1>2. \A b \in Callers : b # c => call[b].pc = "idle"
  BY DEF OneAtATime
<1> QED BY <1>1, <1>2, OneCall

(* What the calls are after one of them has changed. *)
LEMMA Changed ==
  ASSUME NEW k \in [Callers -> CallType], NEW c \in Callers,
         \A b \in Callers : b # c => k[b].pc = "idle",
         NEW r \in CallType, NEW l, l = [k EXCEPT ![c] = r]
  PROVE  /\ l \in [Callers -> CallType] /\ l[c] = r
         /\ \A b \in Callers : b # c => l[b] = k[b] /\ l[b].pc = "idle"
         /\ Shows(l, r.pc, r.module, r.nested)
<1>1. l \in [Callers -> CallType] /\ l[c] = r
  OBVIOUS
<1>2. \A b \in Callers : b # c => l[b] = k[b] /\ l[b].pc = "idle"
  OBVIOUS
<1>3. Shows(l, l[c].pc, l[c].module, l[c].nested)
  BY <1>2, OneCall
<1> QED BY <1>1, <1>2, <1>3

(* A call at another line is a call, of the same module. *)
LEMMA Moved ==
  ASSUME NEW k \in [Callers -> CallType], NEW c \in Callers, NEW pc \in PCs
  PROVE  /\ [k[c] EXCEPT !.pc = pc] \in CallType
         /\ [k[c] EXCEPT !.pc = pc].pc = pc
         /\ [k[c] EXCEPT !.pc = pc].module = k[c].module
         /\ [k[c] EXCEPT !.pc = pc].nested = k[c].nested
         /\ [k EXCEPT ![c].pc = pc] = [k EXCEPT ![c] = [k[c] EXCEPT !.pc = pc]]
  BY DEF CallType

(* A step from one line of an initialization to another. *)
LEMMA Goes ==
  ASSUME SessionsTypeOK, OneAtATime, NEW c \in Callers, call[c].pc # "idle",
         NEW pc \in PCs, Goto(c, pc)
  PROVE  /\ call' \in [Callers -> CallType] /\ call'[c].pc = pc
         /\ call'[c].module = call[c].module /\ call'[c].nested = call[c].nested
         /\ \A b \in Callers : b # c => call'[b] = call[b] /\ call'[b].pc = "idle"
         /\ Shows(call', pc, call[c].module, call[c].nested)
<1> DEFINE r == [call[c] EXCEPT !.pc = pc]
<1>1. /\ call \in [Callers -> CallType]
      /\ \A b \in Callers : b # c => call[b].pc = "idle"
  BY Alone
<1>2. /\ r \in CallType /\ r.pc = pc /\ r.module = call[c].module
      /\ r.nested = call[c].nested /\ call' = [call EXCEPT ![c] = r]
  BY <1>1, Moved DEF Goto
<1> HIDE DEF r
<1>3. /\ call' \in [Callers -> CallType] /\ call'[c] = r
      /\ \A b \in Callers : b # c => call'[b] = call[b] /\ call'[b].pc = "idle"
      /\ Shows(call', r.pc, r.module, r.nested)
  BY <1>1, <1>2, Changed
<1> QED BY <1>2, <1>3

(* The return from an initialization. *)
Back(c) ==
  IF call[c].nested
  THEN call' = [call EXCEPT ![c].pc = "load", ![c].module = "FE", ![c].nested = FALSE]
  ELSE call' = [call EXCEPT ![c] = Idle]

(* It goes back to the front end when it was nested in its initialization,  *)
(* and to the client otherwise.                                             *)
LEMMA Returns ==
  ASSUME SessionsTypeOK, OneAtATime, NEW c \in Callers, call[c].pc # "idle", Back(c)
  PROVE  /\ call' \in [Callers -> CallType]
         /\ call'[c].pc = (IF call[c].nested THEN "load" ELSE "idle")
         /\ call'[c].module = "FE" /\ ~call'[c].nested
         /\ \A b \in Callers : b # c => call'[b] = call[b] /\ call'[b].pc = "idle"
         /\ Shows(call', IF call[c].nested THEN "load" ELSE "idle", "FE", FALSE)
<1> DEFINE r == IF call[c].nested
                THEN [call[c] EXCEPT !.pc = "load", !.module = "FE", !.nested = FALSE]
                ELSE Idle
<1>1. /\ call \in [Callers -> CallType]
      /\ \A b \in Callers : b # c => call[b].pc = "idle"
  BY Alone
<1>2. call' = [call EXCEPT ![c] = r]
  BY <1>1 DEF Back
<1>3. /\ r \in CallType /\ r.pc = (IF call[c].nested THEN "load" ELSE "idle")
      /\ r.module = "FE" /\ r.nested = FALSE
  BY <1>1 DEF CallType, Idle, PCs, Modules
<1> HIDE DEF r
<1>4. /\ call' \in [Callers -> CallType] /\ call'[c] = r
      /\ \A b \in Callers : b # c => call'[b] = call[b] /\ call'[b].pc = "idle"
      /\ Shows(call', r.pc, r.module, r.nested)
  BY <1>1, <1>2, <1>3, Changed
<1> QED BY <1>3, <1>4

(* The callers that are outside stay so. *)
LEMMA OthersInOrder ==
  ASSUME CallsInOrder, NEW c \in Callers, CallInOrder(c)',
         \A b \in Callers : b # c => call'[b] = call[b] /\ call'[b].pc = "idle"
  PROVE  CallsInOrder'
<1>1. ASSUME NEW b \in Callers, b # c PROVE CallInOrder(b)'
  BY <1>1 DEF CallsInOrder, CallInOrder, Early
<1> QED BY <1>1 DEF CallsInOrder

-----------------------------------------------------------------------------
(* One lemma for each step of an initialization.                            *)

LEMMA Enters ==
  ASSUME SessionsInv, OneAtATime, NEW c \in Callers, EnterWrapper(c)
  PROVE  SessionsInv'
<1> DEFINE pc == IF LVWrapperValid THEN "create" ELSE "build"
<1> USE DEF SessionsInv
<1>1. pc \in PCs /\ Goto(c, pc) /\ call[c].pc = "enter"
  BY DEF PCs, EnterWrapper, At
<1>2. pc \in {"create", "build"} /\ (pc = "create" <=> LVWrapperValid)
  OBVIOUS
<1> HIDE DEF pc
<1>3. /\ call' \in [Callers -> CallType] /\ call'[c].pc = pc
      /\ call'[c].module = call[c].module /\ call'[c].nested = call[c].nested
      /\ \A b \in Callers : b # c => call'[b] = call[b] /\ call'[b].pc = "idle"
      /\ Shows(call', pc, call[c].module, call[c].nested)
      /\ Shows(call, call[c].pc, call[c].module, call[c].nested)
  BY <1>1, Goes, Alone
<1>4. /\ \A m \in Modules : Starting(call', m) <=> Starting(call, m)
      /\ \A m \in Modules : Opening(call', m) <=> Opening(call, m)
      /\ \A m \in Modules : Starting(call, m) <=> m = call[c].module
      /\ ~Counted(call) /\ Counted(call') /\ ~Asking(call) /\ ~Asking(call')
      /\ ~Creating(call) /\ (Creating(call') <=> LVWrapperValid)
  BY <1>1, <1>2, <1>3 DEF Early, Shows
<1>5. UNCHANGED <<LVWrapperValid, bus, clients, valid, object, abandoned,
                  startCompressorModule, equipped, sourceCart, on, owed, served, clean>>
      /\ connectedModules' = connectedModules + 1
  BY DEF EnterWrapper, fitted, ledger
<1>6. CallInOrder(c)
  BY DEF CallsInOrder
<1>7. SessionsTypeOK'
  <2>1. connectedModules' \in 0..MaxConnected + 1
    BY <1>1, <1>5, <1>6, SessionsAssumption DEF SessionsTypeOK, CallInOrder, One
  <2> QED BY <1>3, <1>5, <2>1 DEF SessionsTypeOK
<1>8. CallsInOrder'
  <2>1. CallInOrder(c)'
    BY <1>1, <1>2, <1>3, <1>5, <1>6, SessionsAssumption DEF CallInOrder, Early, One, SessionsTypeOK
  <2> QED BY <1>3, <2>1, OthersInOrder
<1>9. \A m \in Modules : Held(m)' <=> Held(m)
  BY <1>4, <1>5 DEF Held, One
<1>10. ObjectsAreHeld'
  BY <1>4, <1>5, <1>9 DEF ObjectsAreHeld, Up
<1>11. Holding' = Holding + 1
  BY <1>4, <1>5, <1>9 DEF Holding, Modules, One
<1>12. BusIsHeld'
  BY <1>5, <1>11 DEF BusIsHeld, SessionsTypeOK, Holding, One
<1>13. SessionsAreCounted'
  BY <1>4, <1>5 DEF SessionsAreCounted, Up, One
<1>14. CleanIsExact'
  BY <1>4, <1>5, <1>9, <1>11 DEF CleanIsExact, SessionsTypeOK, One, Share, Modules, Holding
<1>15. FittedIsOn'
  BY <1>5 DEF FittedIsOn, CartAt
<1> QED BY <1>7, <1>8, <1>10, <1>12, <1>13, <1>14, <1>15

(* DropBus keeps SessionsInv: no object has the old bus. *)
LEMMA Drops ==
  ASSUME SessionsInv, OneAtATime, NEW c \in Callers, DropBus(c)
  PROVE  SessionsInv'
<1> USE DEF SessionsInv
<1>1. "install" \in PCs /\ Goto(c, "install") /\ call[c].pc = "build"
  BY DEF PCs, DropBus, At
<1>3. /\ call' \in [Callers -> CallType] /\ call'[c].pc = "install"
      /\ call'[c].module = call[c].module /\ call'[c].nested = call[c].nested
      /\ \A b \in Callers : b # c => call'[b] = call[b] /\ call'[b].pc = "idle"
      /\ Shows(call', "install", call[c].module, call[c].nested)
      /\ Shows(call, call[c].pc, call[c].module, call[c].nested)
  BY <1>1, Goes, Alone
<1>4. /\ \A m \in Modules : Starting(call', m) <=> Starting(call, m)
      /\ \A m \in Modules : Opening(call', m) <=> Opening(call, m)
      /\ Counted(call) /\ Counted(call') /\ ~Asking(call) /\ ~Asking(call')
      /\ ~Creating(call) /\ ~Creating(call')
  BY <1>1, <1>3 DEF Early, Shows
<1>5. UNCHANGED <<connectedModules, LVWrapperValid, clients, valid, object, abandoned,
                  startCompressorModule, equipped, sourceCart, on, owed, served, clean>>
      /\ bus' = FALSE
  BY DEF DropBus, fitted, ledger
<1>6. CallInOrder(c) /\ ~LVWrapperValid /\ bus = FALSE
  BY <1>1 DEF CallsInOrder, CallInOrder, BusIsHeld, SessionsTypeOK
<1>7. SessionsTypeOK'
  BY <1>3, <1>5 DEF SessionsTypeOK
<1>8. CallsInOrder'
  <2>1. CallInOrder(c)'
    BY <1>1, <1>3, <1>5, <1>6 DEF CallInOrder, Early
  <2> QED BY <1>3, <2>1, OthersInOrder
<1>9. \A m \in Modules : Held(m)' <=> Held(m)
  BY <1>4, <1>5 DEF Held, One
<1>10. ObjectsAreHeld'
  BY <1>4, <1>5, <1>9 DEF ObjectsAreHeld, Up
<1>11. Holding' = Holding
  BY <1>4, <1>5, <1>9 DEF Holding, Modules, One
<1>12. BusIsHeld'
  BY <1>5, <1>6, <1>11 DEF BusIsHeld
<1>13. SessionsAreCounted'
  BY <1>4, <1>5 DEF SessionsAreCounted, Up, One
<1>14. CleanIsExact'
  BY <1>4, <1>5, <1>9, <1>11 DEF CleanIsExact, One, Share, Modules
<1>15. FittedIsOn'
  BY <1>5 DEF FittedIsOn, CartAt
<1> QED BY <1>7, <1>8, <1>10, <1>12, <1>13, <1>14, <1>15

(* InstallBus keeps SessionsInv: from here the bus is counted on. *)
LEMMA Installs ==
  ASSUME SessionsInv, OneAtATime, NEW c \in Callers, InstallBus(c)
  PROVE  SessionsInv'
<1> USE DEF SessionsInv
<1>1. "create" \in PCs /\ Goto(c, "create") /\ call[c].pc = "install"
  BY DEF PCs, InstallBus, At
<1>3. /\ call' \in [Callers -> CallType] /\ call'[c].pc = "create"
      /\ call'[c].module = call[c].module /\ call'[c].nested = call[c].nested
      /\ \A b \in Callers : b # c => call'[b] = call[b] /\ call'[b].pc = "idle"
      /\ Shows(call', "create", call[c].module, call[c].nested)
      /\ Shows(call, call[c].pc, call[c].module, call[c].nested)
  BY <1>1, Goes, Alone
<1>4. /\ \A m \in Modules : Starting(call', m) <=> Starting(call, m)
      /\ \A m \in Modules : Opening(call', m) <=> Opening(call, m)
      /\ Counted(call) /\ Counted(call') /\ ~Asking(call) /\ ~Asking(call')
      /\ ~Creating(call) /\ Creating(call')
  BY <1>1, <1>3 DEF Early, Shows
<1>5. UNCHANGED <<connectedModules, clients, valid, object, abandoned,
                  startCompressorModule, equipped, sourceCart, on, owed, served, clean>>
      /\ bus' = TRUE /\ LVWrapperValid' = TRUE
  BY DEF InstallBus, fitted, ledger
<1>6. CallInOrder(c)
  BY DEF CallsInOrder
<1>7. SessionsTypeOK'
  BY <1>3, <1>5 DEF SessionsTypeOK
<1>8. CallsInOrder'
  <2>1. CallInOrder(c)'
    BY <1>1, <1>3, <1>5, <1>6 DEF CallInOrder, Early
  <2> QED BY <1>3, <2>1, OthersInOrder
<1>9. \A m \in Modules : Held(m)' <=> Held(m)
  BY <1>4, <1>5 DEF Held, One
<1>10. ObjectsAreHeld'
  BY <1>4, <1>5, <1>9 DEF ObjectsAreHeld, Up
<1>11. Holding' = Holding /\ Holding >= 1
  BY <1>4, <1>5, <1>9 DEF Holding, Modules, One
<1>12. BusIsHeld'
  BY <1>5, <1>11 DEF BusIsHeld
<1>13. SessionsAreCounted'
  BY <1>4, <1>5 DEF SessionsAreCounted, Up, One
<1>14. CleanIsExact'
  <2>1. Share' = Share
    BY <1>4, <1>5, <1>9 DEF Share, One, Modules
  <2>2. One(Counted(call)' /\ ~Creating(call)') = 0 /\ (clean => connectedModules >= 1)
    BY <1>4, <1>11 DEF One, CleanIsExact, SessionsTypeOK
  <2>3. \A m \in Modules : /\ One(Starting(call, m))' = One(Starting(call, m))
                            /\ One(Opening(call, m))' = One(Opening(call, m))
    BY <1>4 DEF One
  <2> QED BY <1>5, <1>11, <2>1, <2>2, <2>3 DEF CleanIsExact, Modules, SessionsTypeOK
<1>15. FittedIsOn'
  BY <1>5 DEF FittedIsOn, CartAt
<1> QED BY <1>7, <1>8, <1>10, <1>12, <1>13, <1>14, <1>15

(* An initialization that gives up, wherever it is; LoadNothing leaves the  *)
(* front end's monitor thread running behind it.                            *)
LEMMA Fails ==
  ASSUME SessionsInv, OneAtATime, NEW c \in Callers, Fail(c),
         call[c].pc \in {"build", "create", "load"},
         UNCHANGED <<wrapper, clients, valid, abandoned, startCompressorModule, fitted>>,
         \/ UNCHANGED object
         \/ /\ object["FE"] # "none" /\ call[c].pc = "load" /\ ~call[c].nested
            /\ object' = [object EXCEPT !["FE"] = "monitoring"]
  PROVE  SessionsInv'
<1> USE DEF SessionsInv
<1>1. Back(c) /\ call[c].pc # "idle" /\ call[c].pc # "compressor"
  BY DEF Fail, Back
<1>2. CallInOrder(c) /\ (call[c].nested => call[c].module = "Compressor")
      /\ call[c].module \in Modules
  BY <1>1, Alone DEF CallsInOrder, CallInOrder, CallType
<1>3. /\ call' \in [Callers -> CallType] /\ call'[c].module = "FE" /\ ~call'[c].nested
      /\ call'[c].pc = (IF call[c].nested THEN "load" ELSE "idle")
      /\ \A b \in Callers : b # c => call'[b] = call[b] /\ call'[b].pc = "idle"
      /\ Shows(call', IF call[c].nested THEN "load" ELSE "idle", "FE", FALSE)
      /\ Shows(call, call[c].pc, call[c].module, call[c].nested)
  BY <1>1, Returns, Alone
<1>4. /\ \A m \in Modules : ~Starting(call', m)
      /\ \A m \in Modules : Opening(call', m) => Opening(call, m)
      /\ ~Counted(call') /\ ~Asking(call) /\ ~Asking(call')
      /\ ~Creating(call')
  BY <1>1, <1>2, <1>3 DEF Early, Shows
<1>5. /\ UNCHANGED <<connectedModules, LVWrapperValid, bus, clients, valid, abandoned,
                     startCompressorModule, equipped, sourceCart, on, owed, served>>
      /\ clean' = FALSE
  BY DEF Fail, fitted, wrapper
<1>6. /\ \A m \in Modules : object'[m] # "none" <=> object[m] # "none"
      /\ object' \in [Modules -> Objects]
      /\ object'["SigSrc"] = object["SigSrc"]
  BY DEF SessionsTypeOK, Objects, Modules
<1>7. SessionsTypeOK'
  BY <1>3, <1>5, <1>6 DEF SessionsTypeOK
<1>8. CallsInOrder'
  <2>1. CallInOrder(c)'
    BY <1>2, <1>3, <1>5, <1>6 DEF CallInOrder, Early, Keyed, Modules
  <2> QED BY <1>3, <2>1, OthersInOrder
<1>9. \A m \in Modules : Held(m) => Held(m)'
  BY <1>4, <1>5 DEF Held, One, SessionsTypeOK
<1>10. ObjectsAreHeld'
  BY <1>4, <1>5, <1>6, <1>9 DEF ObjectsAreHeld, Up, Modules
<1>11. Holding' <= Holding
  <2>1. CASE call[c].pc = "load"
    <3>1. \A m \in Modules : ~Starting(call, m)
      BY <1>3, <2>1 DEF Shows, Early
    <3>2. \A m \in Modules : Held(m)' <=> Held(m)
      BY <3>1, <1>4, <1>5 DEF Held, One
    <3> QED BY <1>4, <1>5, <3>2 DEF Holding, One, Modules
  <2>2. CASE call[c].pc # "load"
    <3>1. Counted(call)
      BY <1>3, <2>2 DEF Shows
    <3>2. \A m \in Modules : m # call[c].module => (Held(m)' <=> Held(m))
      BY <1>3, <1>4, <1>5 DEF Held, One, Shows
    <3> QED BY <1>2, <1>4, <1>5, <3>1, <3>2 DEF Holding, One, Modules
  <2> QED BY <2>1, <2>2
<1>12. BusIsHeld'
  BY <1>5, <1>6, <1>11 DEF BusIsHeld, Holding, One, SessionsTypeOK
<1>13. SessionsAreCounted'
  BY <1>4, <1>5 DEF SessionsAreCounted, Up, One, SessionsTypeOK
<1>14. CleanIsExact'
  BY <1>5 DEF CleanIsExact
<1>15. FittedIsOn'
  BY <1>5 DEF FittedIsOn, CartAt
<1> QED BY <1>7, <1>8, <1>10, <1>12, <1>13, <1>14, <1>15

(* CreateLORTM and CreateCompressor: the object is there from now on. *)
LEMMA Creates ==
  ASSUME SessionsInv, OneAtATime, NEW c \in Callers, NEW m \in {"LORTM", "Compressor"},
         call[c].pc = "create", call[c].module = m,
         NewObject(m, "monitoring"), valid' = [valid EXCEPT ![m] = TRUE], Succeed(c),
         UNCHANGED <<wrapper, clients, startCompressorModule, fitted>>
  PROVE  SessionsInv'
<1> USE DEF SessionsInv
<1>1. Back(c) /\ call[c].pc # "idle" /\ m \in Modules /\ m \notin Keyed
  BY DEF Succeed, Back, Modules, Keyed
<1>2. CallInOrder(c)
  BY DEF CallsInOrder
<1>3. /\ call' \in [Callers -> CallType] /\ call'[c].module = "FE" /\ ~call'[c].nested
      /\ call'[c].pc = (IF call[c].nested THEN "load" ELSE "idle")
      /\ \A b \in Callers : b # c => call'[b] = call[b] /\ call'[b].pc = "idle"
      /\ Shows(call', IF call[c].nested THEN "load" ELSE "idle", "FE", FALSE)
      /\ Shows(call, call[c].pc, call[c].module, call[c].nested)
  BY <1>1, Returns, Alone
<1>4. /\ \A n \in Modules : ~Starting(call', n)
      /\ \A n \in Modules : Starting(call, n) <=> n = m
      /\ \A n \in Modules : Opening(call', n) <=> call[c].nested /\ n = "FE"
      /\ \A n \in Modules : Opening(call, n) <=> n = (IF call[c].nested THEN "FE" ELSE m)
      /\ Counted(call) /\ Creating(call) /\ ~Asking(call)
      /\ ~Counted(call') /\ ~Asking(call') /\ ~Creating(call')
  BY <1>1, <1>3 DEF Early, Shows
<1>5. UNCHANGED <<connectedModules, LVWrapperValid, bus, clients,
                  startCompressorModule, equipped, sourceCart, on, owed, clean>>
  BY DEF Succeed, fitted, wrapper
<1>6. object[m] = "none" /\ ~valid[m] /\ LVWrapperValid
  BY <1>1, <1>2, <1>4 DEF ObjectsAreHeld, Up, Held, CallInOrder
<1>7. /\ UNCHANGED abandoned
      /\ object' \in [Modules -> Objects] /\ object'[m] = "monitoring"
      /\ \A n \in Modules : n # m => object'[n] = object[n]
      /\ valid' \in [Modules -> BOOLEAN] /\ valid'[m] = TRUE
      /\ \A n \in Modules : n # m => valid'[n] = valid[n]
  BY <1>1, <1>6 DEF NewObject, SessionsTypeOK, Objects
<1>8. /\ served' \in [Modules -> Nat] /\ \A n \in Modules : n # m => served'[n] = served[n]
      /\ served'[m] = (IF call[c].nested THEN served[m] ELSE served[m] + 1)
  BY <1>1 DEF Succeed, SessionsTypeOK
<1>9. \A n \in Modules : served'[n] + One(Opening(call', n)) = served[n] + One(Opening(call, n))
  <2>1. ASSUME NEW n \in Modules
        PROVE  served'[n] + One(Opening(call', n)) = served[n] + One(Opening(call, n))
    <3>1. served[n] \in Nat
      BY DEF SessionsTypeOK
    <3>2. CASE call[c].nested
      BY <1>1, <1>4, <1>8, <3>1, <3>2 DEF One
    <3>3. CASE ~call[c].nested
      BY <1>1, <1>4, <1>8, <3>1, <3>3 DEF One
    <3> QED BY <3>2, <3>3
  <2> QED BY <2>1
<1>10. SessionsTypeOK'
  <2>1. \A n \in Modules : served'[n] <= owed'[n]
    BY <1>5, <1>8, <1>9 DEF SessionsAreCounted, One, SessionsTypeOK
  <2> QED BY <1>3, <1>5, <1>7, <1>8, <2>1 DEF SessionsTypeOK
<1>11. CallsInOrder'
  <2>1. "FE" \in Modules /\ "FE" # m /\ "FE" \in Keyed
    BY DEF Modules, Keyed
  <2>2. CallInOrder(c)'
    BY <1>2, <1>3, <1>5, <1>7, <2>1 DEF CallInOrder, Early
  <2> QED BY <1>3, <2>2, OthersInOrder
<1>12. /\ ~Held(m) /\ Held(m)'
       /\ \A n \in Modules : n # m => (Held(n)' <=> Held(n))
  <2>1. ~Held(m) /\ Held(m)'
    BY <1>1, <1>6, <1>7 DEF Held
  <2>2. ASSUME NEW n \in Modules, n # m PROVE Held(n)' <=> Held(n)
    <3>1. owed'[n] = owed[n] /\ valid'[n] = valid[n] /\ ~Starting(call, n) /\ ~Starting(call', n)
      BY <1>4, <1>5, <1>7, <2>2
    <3> QED BY <3>1 DEF Held, One
  <2> QED BY <2>1, <2>2
<1>13. ObjectsAreHeld'
  <2>1. ASSUME NEW n \in Modules
        PROVE  /\ n # "FE" /\ valid'[n] => object'[n] # "none"
               /\ object'[n] # "none" => Held(n)'
               /\ Starting(call', n) => ~Up(n)'
    BY <1>4, <1>7, <1>12 DEF ObjectsAreHeld, Up
  <2>2. "SigSrc" \in Modules /\ "SigSrc" # m
    BY DEF Modules
  <2> QED BY <1>7, <2>1, <2>2 DEF ObjectsAreHeld
<1>14. Holding' = Holding
  BY <1>4, <1>7, <1>12 DEF Holding, Modules, One
<1>15. BusIsHeld'
  BY <1>5, <1>6, <1>7, <1>14 DEF BusIsHeld
<1>16. SessionsAreCounted'
  <2>1. \A n \in Modules : n # "Compressor" /\ served'[n] > 0 => Up(n)'
    BY <1>6, <1>7, <1>8 DEF SessionsAreCounted, Up
  <2> QED BY <1>5, <1>9, <2>1 DEF SessionsAreCounted
<1>17. CleanIsExact'
  <2> SUFFICES ASSUME clean PROVE CleanIsExact'
    BY <1>5 DEF CleanIsExact
  <2>1. Share' = Share
    BY <1>1, <1>4, <1>5, <1>12 DEF Share, One, Modules, Keyed
  <2>2. call[c].nested => m = "Compressor" /\ Share = 1
    BY <1>2, <1>3, <1>4 DEF Share, One, CallInOrder, ObjectsAreHeld, Modules
  <2>3. clients[m] > 0
    BY <1>1, <1>4, <2>2 DEF CleanIsExact, One, SessionsTypeOK, Share
  <2>4. \A n \in {"LORTM", "Compressor"} : valid'[n] <=> clients'[n] > One(Starting(call', n))
    <3>1. ASSUME NEW n \in {"LORTM", "Compressor"}, n # m
          PROVE  valid'[n] <=> clients'[n] > One(Starting(call', n))
      BY <1>1, <1>4, <1>5, <1>7, <3>1 DEF CleanIsExact, One, Modules
    <3>2. valid'[m] <=> clients'[m] > One(Starting(call', m))
      BY <1>1, <1>4, <1>5, <1>7, <2>3 DEF One
    <3> QED BY <3>1, <3>2
  <2>5. LVWrapperValid' <=> connectedModules' > One(Counted(call)' /\ ~Creating(call)')
    BY <1>4, <1>5, <1>6 DEF CleanIsExact, One
  <2> QED BY <1>5, <1>7, <1>9, <1>14, <2>1, <2>4, <2>5 DEF CleanIsExact
<1>18. FittedIsOn'
  BY <1>5 DEF FittedIsOn, CartAt
<1> QED BY <1>10, <1>11, <1>13, <1>15, <1>16, <1>17, <1>18

(* CreateFrontEnd: the object of a failed initialization is abandoned. *)
LEMMA CreatesFrontEnd ==
  ASSUME SessionsInv, OneAtATime, NEW c \in Callers,
         NEW connected \in BOOLEAN, NEW wanted \in BOOLEAN, CreateFrontEnd(c, connected, wanted)
  PROVE  SessionsInv'
<1> DEFINE pc == IF wanted THEN "compressor" ELSE "load"
<1> DEFINE r == [call[c] EXCEPT !.ret = connected, !.pc = pc]
<1> USE DEF SessionsInv
<1>1. /\ pc \in {"compressor", "load"} /\ pc \in PCs /\ (pc = "compressor" <=> wanted)
      /\ call[c].pc = "create" /\ call[c].module = "FE"
  BY DEF PCs, CreateFrontEnd, At
<1>2. /\ call \in [Callers -> CallType] /\ CallInOrder(c) /\ ~call[c].nested
      /\ \A b \in Callers : b # c => call[b].pc = "idle"
      /\ Shows(call, call[c].pc, call[c].module, call[c].nested)
  BY <1>1, Alone DEF CallsInOrder, CallInOrder
<1>3. /\ call' \in [Callers -> CallType] /\ call'[c].pc = pc
      /\ call'[c].module = "FE" /\ ~call'[c].nested
      /\ \A b \in Callers : b # c => call'[b] = call[b] /\ call'[b].pc = "idle"
      /\ Shows(call', pc, "FE", call[c].nested)
  <2>1. call' = [call EXCEPT ![c] = r]
    BY <1>2 DEF CreateFrontEnd
  <2>2. /\ r \in CallType /\ r.pc = pc /\ r.module = "FE" /\ r.nested = call[c].nested
    BY <1>1, <1>2 DEF CallType
  <2> HIDE DEF r, pc
  <2>3. /\ call' \in [Callers -> CallType] /\ call'[c] = r
        /\ \A b \in Callers : b # c => call'[b] = call[b] /\ call'[b].pc = "idle"
        /\ Shows(call', r.pc, r.module, r.nested)
    BY <1>2, <2>1, <2>2, Changed
  <2> QED BY <1>2, <2>2, <2>3
<1> HIDE DEF pc
<1>4. /\ \A n \in Modules : ~Starting(call', n)
      /\ \A n \in Modules : Starting(call, n) <=> n = "FE"
      /\ \A n \in Modules : Opening(call', n) <=> Opening(call, n)
      /\ Opening(call, "FE") /\ "FE" \in Modules /\ "FE" \in Keyed
      /\ Counted(call) /\ Creating(call) /\ ~Asking(call)
      /\ ~Counted(call') /\ (Asking(call') <=> wanted) /\ ~Creating(call')
  BY <1>1, <1>2, <1>3 DEF Early, Shows, Modules, Keyed
<1>5. UNCHANGED <<connectedModules, LVWrapperValid, bus, clients, valid,
                  equipped, sourceCart, on, owed, served, clean>>
      /\ startCompressorModule' = wanted
  BY DEF CreateFrontEnd, fitted, wrapper, ledger
<1>6. ~Up("FE") /\ LVWrapperValid
  BY <1>1, <1>2, <1>4 DEF ObjectsAreHeld, CallInOrder
<1>7. /\ object' \in [Modules -> Objects] /\ object'["FE"] # "none"
      /\ \A n \in Modules : n # "FE" => object'[n] = object[n]
      /\ abandoned' = abandoned \/ (object["FE"] # "none" /\ abandoned' = {"FE"})
  BY <1>4 DEF CreateFrontEnd, Obtain, NewObject, SessionsTypeOK, Objects, ObjectsAreHeld
<1>8. SessionsTypeOK'
  BY <1>3, <1>4, <1>5, <1>7 DEF SessionsTypeOK
<1>9. CallsInOrder'
  <2>1. CallInOrder(c)'
    BY <1>1, <1>2, <1>3, <1>4, <1>5, <1>7 DEF CallInOrder, Early
  <2> QED BY <1>3, <2>1, OthersInOrder
<1>10. Held("FE")' /\ \A n \in Modules : n # "FE" => (Held(n)' <=> Held(n))
  BY <1>4, <1>5 DEF Held, One, SessionsAreCounted, SessionsTypeOK
<1>11. ObjectsAreHeld'
  <2>1. abandoned' \subseteq {"FE"}
    BY <1>7 DEF ObjectsAreHeld
  <2>2. ASSUME NEW n \in Modules
        PROVE  /\ n # "FE" /\ valid'[n] => object'[n] # "none"
               /\ object'[n] # "none" => Held(n)'
               /\ Starting(call', n) => ~Up(n)'
    BY <1>4, <1>5, <1>6, <1>7, <1>10 DEF ObjectsAreHeld, Up
  <2> QED BY <1>5, <1>7, <2>1, <2>2 DEF ObjectsAreHeld, Modules
<1>12. Holding' <= Holding /\ (~Held("FE") => abandoned' = abandoned /\ Holding' = Holding)
  <2>1. object["FE"] # "none" => Held("FE")
    BY <1>4 DEF ObjectsAreHeld
  <2> QED BY <1>4, <1>7, <1>10, <2>1 DEF Holding, Modules, One
<1>13. BusIsHeld'
  BY <1>5, <1>6, <1>12 DEF BusIsHeld, Holding, One, SessionsTypeOK
<1>14. SessionsAreCounted'
  BY <1>4, <1>5, <1>7 DEF SessionsAreCounted, Up, One
<1>15. CleanIsExact'
  <2> SUFFICES ASSUME clean PROVE CleanIsExact'
    BY <1>5 DEF CleanIsExact
  <2>1. served["FE"] = 0
    BY <1>4, <1>6 DEF SessionsAreCounted, SessionsTypeOK
  <2>2. ~Held("FE")
    BY <1>4, <2>1 DEF Held, CleanIsExact, One, SessionsTypeOK
  <2>3. Share = 0 /\ Share' = 0
    BY <1>4, <1>5, <2>2 DEF Share, One
  <2>4. LVWrapperValid' <=> connectedModules' > One(Counted(call)' /\ ~Creating(call)')
    BY <1>4, <1>5 DEF CleanIsExact, One
  <2>5. \A n \in Modules : /\ One(Opening(call', n)) = One(Opening(call, n))
                           /\ n # "FE" => One(Starting(call', n)) = One(Starting(call, n))
    BY <1>4 DEF One
  <2>6. "LORTM" \in Modules /\ "Compressor" \in Modules
    BY DEF Modules
  <2> QED BY <1>5, <1>12, <2>2, <2>3, <2>4, <2>5, <2>6 DEF CleanIsExact
<1>16. FittedIsOn'
  BY <1>5 DEF FittedIsOn, CartAt
<1> QED BY <1>8, <1>9, <1>11, <1>13, <1>14, <1>15, <1>16

(* FEControlInit calls CompressorControlInit. *)
LEMMA BeginsCompressor ==
  ASSUME SessionsInv, OneAtATime, NEW c \in Callers, BeginCompressor(c)
  PROVE  SessionsInv'
<1> DEFINE up == object["Compressor"] # "none" /\ valid["Compressor"]
<1> DEFINE r == IF up THEN [call[c] EXCEPT !.pc = "load"]
                ELSE [call[c] EXCEPT !.pc = "enter", !.module = "Compressor", !.nested = TRUE]
<1> USE DEF SessionsInv
<1>1. /\ call[c].pc = "compressor" /\ up \in BOOLEAN
      /\ "FE" \in Modules /\ "Compressor" \in Modules /\ "FE" \in Keyed /\ "Compressor" \notin Keyed
      /\ "LORTM" \in Modules /\ "SigSrc" \in Modules
  BY DEF BeginCompressor, At, Modules, Keyed
<1>2. /\ call \in [Callers -> CallType] /\ CallInOrder(c)
      /\ ~call[c].nested /\ call[c].module = "FE"
      /\ \A b \in Callers : b # c => call[b].pc = "idle"
      /\ Shows(call, call[c].pc, call[c].module, call[c].nested)
  BY <1>1, Alone DEF CallsInOrder, CallInOrder, Early
<1>3. /\ call' \in [Callers -> CallType] /\ call'[c].pc = (IF up THEN "load" ELSE "enter")
      /\ call'[c].module = (IF up THEN "FE" ELSE "Compressor") /\ call'[c].nested = ~up
      /\ \A b \in Callers : b # c => call'[b] = call[b] /\ call'[b].pc = "idle"
      /\ Shows(call', IF up THEN "load" ELSE "enter", IF up THEN "FE" ELSE "Compressor", ~up)
  <2>1. call' = [call EXCEPT ![c] = r]
    BY <1>2 DEF BeginCompressor
  <2>2. /\ r \in CallType /\ r.pc = (IF up THEN "load" ELSE "enter")
        /\ r.module = (IF up THEN "FE" ELSE "Compressor") /\ r.nested = ~up
    BY <1>1, <1>2 DEF CallType, PCs
  <2> HIDE DEF r, up
  <2>3. /\ call' \in [Callers -> CallType] /\ call'[c] = r
        /\ \A b \in Callers : b # c => call'[b] = call[b] /\ call'[b].pc = "idle"
        /\ Shows(call', r.pc, r.module, r.nested)
    BY <1>2, <2>1, <2>2, Changed
  <2> QED BY <2>2, <2>3
<1>4. up <=> valid["Compressor"]
  BY <1>1 DEF ObjectsAreHeld
<1> HIDE DEF up
<1>5. /\ \A n \in Modules : ~Starting(call, n)
      /\ \A n \in Modules : Starting(call', n) <=> ~up /\ n = "Compressor"
      /\ \A n \in Modules : Opening(call', n) <=> Opening(call, n)
      /\ ~Counted(call) /\ ~Creating(call) /\ Asking(call)
      /\ ~Counted(call') /\ ~Creating(call') /\ ~Asking(call')
  BY <1>1, <1>2, <1>3 DEF Early, Shows
<1>6. /\ UNCHANGED <<connectedModules, LVWrapperValid, bus, valid, object, abandoned,
                     startCompressorModule, equipped, sourceCart, on, owed, served, clean>>
      /\ clients' = [clients EXCEPT !["Compressor"] = @ + 1]
  BY DEF BeginCompressor, fitted, wrapper, ledger
<1>7. /\ clients' \in [Modules -> Int] /\ clients'["Compressor"] = clients["Compressor"] + 1
      /\ \A n \in Modules : n # "Compressor" => clients'[n] = clients[n]
  BY <1>1, <1>6 DEF SessionsTypeOK
<1>8. SessionsTypeOK'
  BY <1>3, <1>6, <1>7 DEF SessionsTypeOK
<1>9. CallsInOrder'
  <2>1. CallInOrder(c)'
    <3>1. CASE up
      BY <1>1, <1>2, <1>3, <1>6, <3>1 DEF CallInOrder, Early
    <3>2. CASE ~up
      <4>1. call'[c].pc = "enter" /\ call'[c].module = "Compressor" /\ call'[c].nested = TRUE
        BY <1>1, <1>3, <3>2
      <4>2. /\ connectedModules <= MaxConnected /\ startCompressorModule /\ object["FE"] # "none"
        BY <1>1, <1>2 DEF CallInOrder
      <4>3. connectedModules' < MaxConnected + One(call'[c].nested)
        BY <1>6, <4>1, <4>2, SessionsAssumption DEF One, SessionsTypeOK
      <4> QED BY <1>6, <4>1, <4>2, <4>3 DEF CallInOrder, Early
    <3> QED BY <3>1, <3>2
  <2> QED BY <1>3, <2>1, OthersInOrder
<1>10. \A n \in Modules : Held(n)' <=> Held(n)
  BY <1>1, <1>5, <1>6 DEF Held, One
<1>11. ObjectsAreHeld'
  BY <1>4, <1>5, <1>6, <1>10 DEF ObjectsAreHeld, Up
<1>12. Holding' = Holding
  BY <1>1, <1>5, <1>6, <1>10 DEF Holding, One
<1>13. BusIsHeld'
  BY <1>6, <1>12 DEF BusIsHeld
<1>14. SessionsAreCounted'
  <2>1. \A n \in Keyed : clients'[n] = owed'[n]
    BY <1>1, <1>6, <1>7 DEF SessionsAreCounted, Keyed
  <2> QED BY <1>1, <1>5, <1>6, <1>7, <2>1 DEF SessionsAreCounted, Up, One
<1>15. CleanIsExact'
  <2> SUFFICES ASSUME clean PROVE CleanIsExact'
    BY <1>6 DEF CleanIsExact
  <2>1. Share = 0 /\ Share' = 1
    <3>1. Held("FE") /\ startCompressorModule
      BY <1>1, <1>2 DEF ObjectsAreHeld, CallInOrder
    <3> QED BY <1>1, <1>5, <1>6, <1>10, <3>1 DEF Share, One
  <2>2. \A n \in {"LORTM", "Compressor"} : valid'[n] <=> clients'[n] > One(Starting(call', n))
    <3>1. clients["Compressor"] \in Nat
      BY <1>1, <2>1 DEF CleanIsExact, SessionsTypeOK
    <3>2. valid'["LORTM"] <=> clients'["LORTM"] > One(Starting(call', "LORTM"))
      BY <1>1, <1>5, <1>6, <1>7 DEF CleanIsExact, One
    <3>3. valid'["Compressor"] <=> clients'["Compressor"] > One(Starting(call', "Compressor"))
      BY <1>1, <1>4, <1>5, <1>6, <1>7, <3>1 DEF CleanIsExact, One
    <3> QED BY <3>2, <3>3
  <2>3. LVWrapperValid' <=> connectedModules' > One(Counted(call)' /\ ~Creating(call)')
    BY <1>5, <1>6 DEF CleanIsExact, One
  <2>4. \A n \in Modules : One(Opening(call', n)) = One(Opening(call, n))
    BY <1>5 DEF One
  <2> QED BY <1>1, <1>6, <1>7, <1>12, <2>1, <2>2, <2>3, <2>4 DEF CleanIsExact, SessionsTypeOK
<1>16. FittedIsOn'
  BY <1>6 DEF FittedIsOn, CartAt
<1> QED BY <1>8, <1>9, <1>11, <1>13, <1>14, <1>15, <1>16

(* LoadFrontEnd and LoadSource: the module is valid from now on. *)
LEMMA Loads ==
  ASSUME SessionsInv, OneAtATime, NEW c \in Callers, NEW m \in Keyed,
         call[c].pc = "load", call[c].module = m, Succeed(c),
         valid' = [valid EXCEPT ![m] = TRUE],
         \/ UNCHANGED object
         \/ m = "FE" /\ object' = [object EXCEPT !["FE"] = "monitoring"],
         UNCHANGED <<wrapper, clients, abandoned, startCompressorModule>>,
         equipped' \in BOOLEAN, sourceCart' \in BOOLEAN,
         on' \subseteq (IF equipped' THEN Ports ELSE {}) \cup (IF sourceCart' THEN {Source} ELSE {}),
         FittedIsOn'
  PROVE  SessionsInv'
<1> USE DEF SessionsInv
<1>1. /\ Back(c) /\ call[c].pc # "idle" /\ m \in Modules
      /\ "FE" \in Modules /\ "Compressor" \in Modules /\ "FE" \in Keyed /\ "Compressor" \notin Keyed
      /\ "LORTM" \in Modules /\ "LORTM" \notin Keyed /\ "SigSrc" \in Modules
  BY DEF Succeed, Back, Modules, Keyed
<1>2. CallInOrder(c) /\ ~call[c].nested
  BY DEF CallsInOrder, CallInOrder, Early
<1>3. /\ call' \in [Callers -> CallType] /\ call'[c].module = "FE" /\ ~call'[c].nested
      /\ call'[c].pc = "idle"
      /\ \A b \in Callers : b # c => call'[b] = call[b] /\ call'[b].pc = "idle"
      /\ Shows(call', "idle", "FE", FALSE)
      /\ Shows(call, "load", m, FALSE)
  <2>1. call[c].nested = FALSE
    BY <1>1, <1>2, Alone DEF CallType
  <2> QED BY <1>1, <2>1, Returns, Alone
<1>4. /\ \A n \in Modules : ~Starting(call', n) /\ ~Starting(call, n)
      /\ \A n \in Modules : ~Opening(call', n)
      /\ \A n \in Modules : Opening(call, n) <=> n = m
      /\ ~Counted(call) /\ ~Creating(call) /\ ~Asking(call)
      /\ ~Counted(call') /\ ~Asking(call') /\ ~Creating(call')
  BY <1>1, <1>3 DEF Early, Shows
<1>5. UNCHANGED <<connectedModules, LVWrapperValid, bus, clients, abandoned,
                  startCompressorModule, owed, clean>>
  BY DEF Succeed, wrapper
<1>6. object[m] # "none"
  BY <1>2 DEF CallInOrder
<1>7. /\ object' \in [Modules -> Objects]
      /\ \A n \in Modules : object'[n] # "none" <=> object[n] # "none"
      /\ object'["SigSrc"] = object["SigSrc"]
      /\ valid' \in [Modules -> BOOLEAN] /\ valid'[m] = TRUE
      /\ \A n \in Modules : n # m => valid'[n] = valid[n]
  BY <1>1, <1>6 DEF SessionsTypeOK, Objects
<1>8. /\ served' \in [Modules -> Nat] /\ \A n \in Modules : n # m => served'[n] = served[n]
      /\ served'[m] = served[m] + 1
  BY <1>1, <1>2 DEF Succeed, SessionsTypeOK
<1>9. \A n \in Modules : served'[n] + One(Opening(call', n)) = served[n] + One(Opening(call, n))
  <2>1. ASSUME NEW n \in Modules
        PROVE  served'[n] + One(Opening(call', n)) = served[n] + One(Opening(call, n))
    <3>1. served[n] \in Nat
      BY DEF SessionsTypeOK
    <3> QED BY <1>1, <1>4, <1>8, <3>1 DEF One
  <2> QED BY <2>1
<1>10. SessionsTypeOK'
  <2>1. \A n \in Modules : served'[n] <= owed'[n]
    BY <1>5, <1>8, <1>9 DEF SessionsAreCounted, One, SessionsTypeOK
  <2> QED BY <1>3, <1>5, <1>7, <1>8, <2>1 DEF SessionsTypeOK
<1>11. CallsInOrder'
  <2>1. CallInOrder(c)'
    BY <1>3 DEF CallInOrder, Early
  <2> QED BY <1>3, <2>1, OthersInOrder
<1>12. \A n \in Modules : Held(n)' <=> Held(n)
  <2>1. ASSUME NEW n \in Modules PROVE Held(n)' <=> Held(n)
    <3>1. owed'[n] = owed[n] /\ (n \notin Keyed => valid'[n] = valid[n])
          /\ ~Starting(call, n) /\ ~Starting(call', n)
      BY <1>4, <1>5, <1>7
    <3> QED BY <3>1 DEF Held, One
  <2> QED BY <2>1
<1>13. ObjectsAreHeld'
  <2>1. ASSUME NEW n \in Modules
        PROVE  /\ n # "FE" /\ valid'[n] => object'[n] # "none"
               /\ object'[n] # "none" => Held(n)'
               /\ Starting(call', n) => ~Up(n)'
    BY <1>4, <1>6, <1>7, <1>12 DEF ObjectsAreHeld, Up
  <2>2. abandoned' \subseteq {"FE"} /\ (~valid'["SigSrc"] => object'["SigSrc"] # "monitoring")
    BY <1>1, <1>5, <1>7 DEF ObjectsAreHeld
  <2> QED BY <2>1, <2>2 DEF ObjectsAreHeld
<1>14. Holding' = Holding
  BY <1>1, <1>4, <1>5, <1>12 DEF Holding, One
<1>15. BusIsHeld'
  BY <1>5, <1>7, <1>14 DEF BusIsHeld
<1>16. SessionsAreCounted'
  <2>1. \A n \in Modules : n # "Compressor" /\ served'[n] > 0 => Up(n)'
    BY <1>6, <1>7, <1>8 DEF SessionsAreCounted, Up
  <2> QED BY <1>5, <1>9, <2>1 DEF SessionsAreCounted
<1>17. CleanIsExact'
  <2> SUFFICES ASSUME clean PROVE CleanIsExact'
    BY <1>5 DEF CleanIsExact
  <2>1. Share' = Share
    BY <1>1, <1>4, <1>5, <1>12 DEF Share, One
  <2>2. \A n \in {"LORTM", "Compressor"} : valid'[n] <=> clients'[n] > One(Starting(call', n))
    BY <1>1, <1>4, <1>5, <1>7 DEF CleanIsExact, One
  <2>3. LVWrapperValid' <=> connectedModules' > One(Counted(call)' /\ ~Creating(call)')
    BY <1>4, <1>5 DEF CleanIsExact, One
  <2> QED BY <1>5, <1>9, <1>14, <2>1, <2>2, <2>3 DEF CleanIsExact
<1> QED BY <1>10, <1>11, <1>13, <1>15, <1>16, <1>17

(* CreateSource: an object that was there was never monitoring. *)
LEMMA CreatesSource ==
  ASSUME SessionsInv, OneAtATime, NEW c \in Callers,
         NEW connected \in BOOLEAN, CreateSource(c, connected)
  PROVE  SessionsInv'
<1> DEFINE pc == IF connected THEN "load" ELSE "idle"
<1> USE DEF SessionsInv
<1>1. /\ call[c].pc = "create" /\ call[c].module = "SigSrc"
      /\ "FE" \in Modules /\ "Compressor" \in Modules /\ "FE" \in Keyed /\ "Compressor" \notin Keyed
      /\ "LORTM" \in Modules /\ "LORTM" \notin Keyed
      /\ "SigSrc" \in Modules /\ "SigSrc" \in Keyed
  BY DEF CreateSource, At, Modules, Keyed
<1>2. /\ CallInOrder(c) /\ call[c].nested = FALSE
      /\ Shows(call, "create", "SigSrc", FALSE)
  BY <1>1, Alone DEF CallsInOrder, CallInOrder, CallType
<1>3. /\ call' \in [Callers -> CallType] /\ call'[c].pc = pc
      /\ (call'[c].module \in Keyed /\ ~call'[c].nested)
      /\ (connected => call'[c].module = "SigSrc")
      /\ \A b \in Callers : b # c => call'[b] = call[b] /\ call'[b].pc = "idle"
      /\ Shows(call', pc, call'[c].module, FALSE)
  <2>1. CASE connected
    <3>1. Goto(c, "load") /\ "load" \in PCs
      BY <2>1 DEF CreateSource, PCs
    <3> QED BY <1>1, <1>2, <2>1, <3>1, Goes
  <2>2. CASE ~connected
    <3>1. Back(c)
      BY <2>2 DEF CreateSource, Fail, Back
    <3> QED BY <1>1, <1>2, <2>2, <3>1, Returns
  <2> QED BY <2>1, <2>2
<1>4. /\ \A n \in Modules : ~Starting(call', n)
      /\ \A n \in Modules : Starting(call, n) <=> n = "SigSrc"
      /\ \A n \in Modules : Opening(call, n) <=> n = "SigSrc"
      /\ \A n \in Modules : Opening(call', n) <=> connected /\ n = "SigSrc"
      /\ Counted(call) /\ Creating(call) /\ ~Asking(call)
      /\ ~Counted(call') /\ ~Asking(call') /\ ~Creating(call')
  BY <1>1, <1>2, <1>3 DEF Early, Shows
<1>5. /\ UNCHANGED <<connectedModules, LVWrapperValid, bus, clients, valid,
                     startCompressorModule, equipped, sourceCart, on, owed, served>>
      /\ clean' \in BOOLEAN /\ (clean' => clean /\ connected)
  BY DEF CreateSource, fitted, wrapper, ledger, Fail, SessionsTypeOK
<1>6. ~valid["SigSrc"] /\ LVWrapperValid
  BY <1>1, <1>2, <1>4, Alone DEF ObjectsAreHeld, Up, CallInOrder
<1>7. /\ object' \in [Modules -> Objects] /\ object'["SigSrc"] = "idle"
      /\ \A n \in Modules : n # "SigSrc" => object'[n] = object[n]
      /\ abandoned' = abandoned
  BY <1>1, <1>6 DEF CreateSource, Obtain, NewObject, SessionsTypeOK, Objects, ObjectsAreHeld
<1> HIDE DEF pc
<1>8. SessionsTypeOK'
  BY <1>3, <1>5, <1>7 DEF SessionsTypeOK
<1>9. CallsInOrder'
  <2>1. CallInOrder(c)'
    BY <1>3, <1>7 DEF CallInOrder, Early, pc
  <2> QED BY <1>3, <2>1, OthersInOrder
<1>10. Held("SigSrc")' /\ \A n \in Modules : n # "SigSrc" => (Held(n)' <=> Held(n))
  BY <1>1, <1>4, <1>5 DEF Held, One, SessionsAreCounted, SessionsTypeOK
<1>11. ObjectsAreHeld'
  <2>1. ASSUME NEW n \in Modules
        PROVE  /\ n # "FE" /\ valid'[n] => object'[n] # "none"
               /\ object'[n] # "none" => Held(n)'
               /\ Starting(call', n) => ~Up(n)'
    BY <1>4, <1>5, <1>6, <1>7, <1>10 DEF ObjectsAreHeld, Up
  <2>2. abandoned' \subseteq {"FE"} /\ object'["SigSrc"] # "monitoring"
    BY <1>7 DEF ObjectsAreHeld
  <2> QED BY <2>1, <2>2 DEF ObjectsAreHeld
<1>12. Holding' <= Holding /\ (~Held("SigSrc") => Holding' = Holding)
  BY <1>1, <1>4, <1>7, <1>10 DEF Holding, One
<1>13. BusIsHeld'
  BY <1>5, <1>6, <1>12 DEF BusIsHeld, Holding, One, SessionsTypeOK
<1>14. SessionsAreCounted'
  BY <1>4, <1>5, <1>7 DEF SessionsAreCounted, Up, One, SessionsTypeOK
<1>15. CleanIsExact'
  <2> SUFFICES ASSUME clean, connected PROVE CleanIsExact'
    BY <1>5 DEF CleanIsExact
  <2>1. served["SigSrc"] = 0
    BY <1>1, <1>6 DEF SessionsAreCounted, Up, SessionsTypeOK
  <2>2. ~Held("SigSrc")
    BY <1>1, <1>4, <2>1 DEF Held, CleanIsExact, One, SessionsTypeOK
  <2>3. Share' = Share
    BY <1>1, <1>4, <1>5, <1>10 DEF Share, One
  <2>4. LVWrapperValid' <=> connectedModules' > One(Counted(call)' /\ ~Creating(call)')
    BY <1>4, <1>5 DEF CleanIsExact, One
  <2>5. \A n \in Modules : /\ One(Opening(call', n)) = One(Opening(call, n))
                           /\ n # "SigSrc" => One(Starting(call', n)) = One(Starting(call, n))
    BY <1>4 DEF One
  <2> QED BY <1>1, <1>5, <1>7, <1>12, <2>2, <2>3, <2>4, <2>5 DEF CleanIsExact
<1>16. FittedIsOn'
  BY <1>5 DEF FittedIsOn, CartAt
<1> QED BY <1>8, <1>9, <1>11, <1>13, <1>14, <1>15, <1>16

-----------------------------------------------------------------------------
(* A client of a module that is up only adds to the counts. *)
LEMMA Shares ==
  ASSUME SessionsInv, NEW c \in Callers, NEW m \in Modules, BeginInit(c, m),
         object[m] # "none" /\ valid[m]
  PROVE  SessionsInv'
<1> USE DEF SessionsInv
<1>1. /\ "FE" \in Modules /\ "Compressor" \in Modules /\ "FE" \in Keyed /\ "Compressor" \notin Keyed
      /\ "LORTM" \in Modules /\ "LORTM" \notin Keyed
      /\ "SigSrc" \in Modules /\ "SigSrc" \in Keyed /\ Keyed \subseteq Modules
  BY DEF Modules, Keyed
<1>2. /\ UNCHANGED <<connectedModules, LVWrapperValid, bus, valid, object, abandoned, call,
                     startCompressorModule, equipped, sourceCart, on, clean>>
  BY DEF BeginInit, wrapper, fitted
<1>3. /\ owed' \in [Modules -> Nat] /\ served' \in [Modules -> Nat] /\ clients' \in [Modules -> Int]
      /\ owed'[m] = owed[m] + 1 /\ served'[m] = served[m] + 1 /\ clients'[m] = clients[m] + 1
      /\ \A n \in Modules : n # m => owed'[n] = owed[n] /\ served'[n] = served[n]
                                     /\ clients'[n] = clients[n]
  BY DEF BeginInit, SessionsTypeOK
<1>4. Held(m) /\ ~Starting(call, m)
  BY DEF ObjectsAreHeld, Up
<1>5. SessionsTypeOK'
  <2>1. \A n \in Modules : served'[n] <= owed'[n]
    BY <1>3 DEF SessionsTypeOK
  <2> QED BY <1>2, <1>3, <2>1 DEF SessionsTypeOK
<1>6. CallsInOrder'
  BY <1>2 DEF CallsInOrder, CallInOrder
<1>7. \A n \in Modules : Held(n)' <=> Held(n)
  <2>1. ASSUME NEW n \in Modules, n # m PROVE Held(n)' <=> Held(n)
    <3>1. owed'[n] = owed[n] /\ valid' = valid /\ call' = call
      BY <1>2, <1>3, <2>1
    <3> QED BY <3>1 DEF Held
  <2>2. Held(m)'
    BY <1>2, <1>3, <1>4 DEF Held, One, SessionsTypeOK
  <2> QED BY <1>4, <2>1, <2>2
<1>8. ObjectsAreHeld'
  BY <1>2, <1>7 DEF ObjectsAreHeld, Up
<1>9. Holding' = Holding /\ Share' = Share
  BY <1>1, <1>2, <1>7 DEF Holding, Share, One
<1>10. BusIsHeld'
  BY <1>2, <1>9 DEF BusIsHeld
<1>11. \A n \in Modules : /\ One(Opening(call, n)) \in {0, 1}
                          /\ served[n] \in Nat /\ owed[n] \in Nat
  BY DEF One, SessionsTypeOK
<1>12. SessionsAreCounted'
  <2>1. ASSUME NEW n \in Modules
        PROVE /\ served'[n] + One(Opening(call', n)) <= owed'[n]
              /\ n # "Compressor" /\ served'[n] > 0 => Up(n)'
    BY <1>2, <1>3, <1>11 DEF SessionsAreCounted, Up
  <2>2. \A n \in Keyed : clients'[n] = owed'[n]
    BY <1>1, <1>3 DEF SessionsAreCounted
  <2>3. clients'["LORTM"] >= owed'["LORTM"]
    BY <1>1, <1>3 DEF SessionsAreCounted, SessionsTypeOK
  <2> QED BY <2>1, <2>2, <2>3 DEF SessionsAreCounted
<1>13. CleanIsExact'
  <2> SUFFICES ASSUME clean PROVE CleanIsExact'
    BY <1>2 DEF CleanIsExact
  <2>1. \A n \in Modules : served'[n] + One(Opening(call', n)) = owed'[n]
    BY <1>2, <1>3, <1>11 DEF CleanIsExact
  <2>2. /\ clients'["LORTM"] = owed'["LORTM"]
        /\ clients'["Compressor"] = owed'["Compressor"] + Share'
    <3>1. Share \in Nat
      BY DEF Share, One
    <3> QED BY <1>1, <1>3, <1>9, <3>1 DEF CleanIsExact, SessionsTypeOK
  <2>3. \A n \in {"LORTM", "Compressor"} : valid'[n] <=> clients'[n] > One(Starting(call', n))
    <3>1. ASSUME NEW n \in {"LORTM", "Compressor"}
          PROVE  valid'[n] <=> clients'[n] > One(Starting(call', n))
      <4>1. clients[n] \in Int /\ One(Starting(call, n)) \in {0, 1} /\ n \in Modules
        BY <1>1 DEF SessionsTypeOK, One
      <4> QED BY <1>2, <1>3, <4>1 DEF CleanIsExact
    <3> QED BY <3>1
  <2> QED BY <1>2, <1>9, <2>1, <2>2, <2>3 DEF CleanIsExact
<1>14. FittedIsOn'
  BY <1>2 DEF FittedIsOn, CartAt
<1> QED BY <1>5, <1>6, <1>8, <1>10, <1>12, <1>13, <1>14

(* A client of a module that is down goes on to LVWrapperInit. *)
LEMMA Begins ==
  ASSUME SessionsInv, OneAtATime', NEW c \in Callers, NEW m \in Modules, BeginInit(c, m),
         ~(object[m] # "none" /\ valid[m])
  PROVE  SessionsInv'
<1> DEFINE r == [Idle EXCEPT !.pc = "enter", !.module = m]
<1> USE DEF SessionsInv
<1>1. /\ "FE" \in Modules /\ "Compressor" \in Modules /\ "FE" \in Keyed /\ "Compressor" \notin Keyed
      /\ "LORTM" \in Modules /\ "LORTM" \notin Keyed
      /\ "SigSrc" \in Modules /\ "SigSrc" \in Keyed /\ Keyed \subseteq Modules
  BY DEF Modules, Keyed
<1>2. /\ UNCHANGED <<connectedModules, LVWrapperValid, bus, valid, object, abandoned, served,
                     startCompressorModule, equipped, sourceCart, on, clean>>
      /\ call[c].pc = "idle" /\ connectedModules < MaxConnected
      /\ call' = [call EXCEPT ![c] = r]
  BY DEF BeginInit, wrapper, fitted, At
<1>3. r \in CallType /\ r.pc = "enter" /\ r.module = m /\ r.nested = FALSE
  BY DEF CallType, Idle, PCs
<1> HIDE DEF r
<1>4. call \in [Callers -> CallType] /\ call'[c] = r
  BY <1>2 DEF SessionsTypeOK
<1>5. \A b \in Callers : b # c => call[b].pc = "idle"
  <2>1. ASSUME NEW b \in Callers, b # c PROVE call[b].pc = "idle"
    <3>1. call'[b] = call[b] /\ call'[c].pc = "enter"
      BY <1>2, <1>3, <1>4, <2>1
    <3>2. ~(call'[b].pc # "idle" /\ call'[c].pc # "idle")
      BY <2>1 DEF OneAtATime
    <3> QED BY <3>1, <3>2
  <2> QED BY <2>1
<1>6. /\ call' \in [Callers -> CallType]
      /\ \A b \in Callers : b # c => call'[b] = call[b] /\ call'[b].pc = "idle"
      /\ Shows(call', "enter", m, FALSE)
  <2>1. /\ call' \in [Callers -> CallType]
        /\ \A b \in Callers : b # c => call'[b] = call[b] /\ call'[b].pc = "idle"
        /\ Shows(call', r.pc, r.module, r.nested)
    BY <1>2, <1>3, <1>4, <1>5, Changed
  <2> QED BY <1>3, <2>1
<1>7. Quiet(call)
  BY <1>2, <1>5, NoCall
<1>8. /\ \A n \in Modules : Starting(call', n) <=> n = m
      /\ \A n \in Modules : Opening(call', n) <=> n = m
      /\ \A n \in Modules : ~Starting(call, n) /\ ~Opening(call, n)
      /\ ~Counted(call) /\ ~Creating(call) /\ ~Asking(call)
      /\ ~Counted(call') /\ ~Creating(call') /\ ~Asking(call')
  BY <1>6, <1>7 DEF Early, Shows, Quiet
<1>9. /\ owed' \in [Modules -> Nat] /\ clients' \in [Modules -> Int]
      /\ owed'[m] = owed[m] + 1 /\ clients'[m] = clients[m] + 1
      /\ \A n \in Modules : n # m => owed'[n] = owed[n] /\ clients'[n] = clients[n]
  BY DEF BeginInit, SessionsTypeOK
<1>10. ~Up(m) /\ (m # "FE" => ~valid[m])
  BY DEF ObjectsAreHeld, Up
<1>11. SessionsTypeOK'
  <2>1. \A n \in Modules : served'[n] <= owed'[n]
    BY <1>2, <1>9 DEF SessionsTypeOK
  <2> QED BY <1>2, <1>6, <1>9, <2>1 DEF SessionsTypeOK
<1>12. CallsInOrder'
  <2>1. CallInOrder(c)'
    <3>1. connectedModules' < MaxConnected + One(call'[c].nested)
      BY <1>2, <1>3, <1>4, SessionsAssumption DEF One, SessionsTypeOK
    <3> QED BY <1>3, <1>4, <3>1 DEF CallInOrder, Early
  <2> QED BY <1>6, <2>1, OthersInOrder
<1>13. \A n \in Modules : Held(n)' <=> Held(n)
  <2>1. ASSUME NEW n \in Modules PROVE Held(n)' <=> Held(n)
    <3>1. owed[n] \in Nat /\ valid'[n] = valid[n] /\ ~Starting(call, n)
      BY <1>2, <1>8 DEF SessionsTypeOK
    <3>2. CASE n = m
      BY <1>8, <1>9, <3>1, <3>2 DEF Held, One
    <3>3. CASE n # m
      <4>1. owed'[n] = owed[n] /\ ~Starting(call', n)
        BY <1>8, <1>9, <3>3
      <4> QED BY <3>1, <4>1 DEF Held, One
    <3> QED BY <3>2, <3>3
  <2> QED BY <2>1
<1>14. ObjectsAreHeld'
  BY <1>2, <1>8, <1>10, <1>13 DEF ObjectsAreHeld, Up
<1>15. Holding' = Holding /\ Share' = Share
  BY <1>1, <1>2, <1>8, <1>13 DEF Holding, Share, One
<1>16. BusIsHeld'
  BY <1>2, <1>15 DEF BusIsHeld
<1>17. ASSUME NEW n \in Modules
       PROVE  /\ One(Opening(call, n)) = 0 /\ One(Starting(call, n)) = 0
              /\ One(Opening(call', n)) \in {0, 1} /\ One(Starting(call', n)) \in {0, 1}
              /\ owed'[n] = owed[n] + One(Opening(call', n))
              /\ clients'[n] = clients[n] + One(Starting(call', n))
              /\ served[n] \in Nat /\ owed[n] \in Nat /\ clients[n] \in Int
              /\ n # "FE" /\ valid[n] => One(Starting(call', n)) = 0
  <2>1. served[n] \in Nat /\ owed[n] \in Nat /\ clients[n] \in Int
    BY DEF SessionsTypeOK
  <2>2. CASE n = m
    BY <1>8, <1>9, <1>10, <2>1, <2>2 DEF One
  <2>3. CASE n # m
    <3>1. owed'[n] = owed[n] /\ clients'[n] = clients[n]
          /\ ~Opening(call', n) /\ ~Starting(call', n)
      BY <1>8, <1>9, <2>3
    <3> QED BY <1>8, <2>1, <3>1 DEF One
  <2> QED BY <2>2, <2>3
<1>18. SessionsAreCounted'
  <2>1. ASSUME NEW n \in Modules
        PROVE /\ served'[n] + One(Opening(call', n)) <= owed'[n]
              /\ n # "Compressor" /\ served'[n] > 0 => Up(n)'
    <3>1. /\ served'[n] = served[n] /\ valid'[n] = valid[n] /\ served[n] \in Nat /\ owed[n] \in Nat
          /\ owed'[n] = owed[n] + One(Opening(call', n)) /\ One(Opening(call', n)) \in {0, 1}
      BY <1>2, <1>17
    <3>2. served[n] <= owed[n] /\ (n # "Compressor" /\ served[n] > 0 => Up(n))
      BY <1>17 DEF SessionsAreCounted
    <3>3. Up(n)' <=> Up(n)
      BY <1>2 DEF Up
    <3> QED BY <3>1, <3>2, <3>3
  <2>2. \A n \in Keyed : clients'[n] = owed'[n]
    BY <1>1, <1>9 DEF SessionsAreCounted
  <2>3. clients'["LORTM"] >= owed'["LORTM"]
    BY <1>1, <1>9, <1>17 DEF SessionsAreCounted
  <2> QED BY <2>1, <2>2, <2>3 DEF SessionsAreCounted
<1>19. CleanIsExact'
  <2> SUFFICES ASSUME clean PROVE CleanIsExact'
    BY <1>2 DEF CleanIsExact
  <2>1. \A n \in Modules : served'[n] + One(Opening(call', n)) = owed'[n]
    <3>1. ASSUME NEW n \in Modules PROVE served'[n] + One(Opening(call', n)) = owed'[n]
      <4>1. served[n] = owed[n]
        BY <1>17 DEF CleanIsExact
      <4>2. served' = served
        BY <1>2
      <4> QED BY <1>17, <4>1, <4>2
    <3> QED BY <3>1
  <2>2. /\ clients'["LORTM"] = owed'["LORTM"]
        /\ clients'["Compressor"] = owed'["Compressor"] + Share'
    <3>1. Share \in Nat
      BY DEF Share, One
    <3> QED BY <1>1, <1>9, <1>15, <1>17, <3>1 DEF CleanIsExact
  <2>3. \A n \in {"LORTM", "Compressor"} : valid'[n] <=> clients'[n] > One(Starting(call', n))
    <3>1. ASSUME NEW n \in {"LORTM", "Compressor"}
          PROVE  valid'[n] <=> clients'[n] > One(Starting(call', n))
      <4>1. n \in Modules /\ (valid[n] <=> clients[n] > 0)
        BY <1>1, <1>17 DEF CleanIsExact
      <4>2. /\ clients'[n] = clients[n] + One(Starting(call', n)) /\ clients[n] \in Int
            /\ One(Starting(call', n)) \in {0, 1} /\ valid'[n] = valid[n]
        BY <1>2, <1>17, <4>1
      <4> QED BY <4>1, <4>2
    <3> QED BY <3>1
  <2>4. LVWrapperValid' <=> connectedModules' > One(Counted(call)' /\ ~Creating(call)')
    BY <1>2, <1>8 DEF CleanIsExact, One
  <2> QED BY <1>2, <1>8, <1>15, <2>1, <2>2, <2>3, <2>4 DEF CleanIsExact, One
<1>20. FittedIsOn'
  BY <1>2 DEF FittedIsOn, CartAt
<1> QED BY <1>11, <1>12, <1>14, <1>16, <1>18, <1>19, <1>20

-----------------------------------------------------------------------------
(* The exports that change a module between its sessions: no count moves,   *)
(* and a module that becomes valid has an object and is not being started.  *)
LEMMA Exports ==
  ASSUME SessionsInv,
         UNCHANGED <<wrapper, clients, abandoned, startCompressorModule, call, ledger>>,
         valid' \in [Modules -> BOOLEAN], object' \in [Modules -> Objects],
         \A n \in Modules :
            /\ valid[n] => valid'[n]
            /\ n \notin Keyed => valid'[n] = valid[n]
            /\ n # "FE" /\ valid'[n] => object[n] # "none"
            /\ object[n] # "none" /\ valid'[n] => ~Starting(call, n)
            /\ object'[n] # "none" <=> object[n] # "none",
         ~valid'["SigSrc"] => object'["SigSrc"] # "monitoring",
         equipped' \in BOOLEAN, sourceCart' \in BOOLEAN,
         on' \subseteq (IF equipped' THEN Ports ELSE {}) \cup (IF sourceCart' THEN {Source} ELSE {}),
         FittedIsOn'
  PROVE  SessionsInv'
<1> USE DEF SessionsInv
<1>1. /\ "FE" \in Modules /\ "Compressor" \in Modules /\ "FE" \in Keyed /\ "Compressor" \notin Keyed
      /\ "LORTM" \in Modules /\ "LORTM" \notin Keyed /\ "SigSrc" \in Modules
      /\ Keyed \subseteq Modules
  BY DEF Modules, Keyed
<1>2. UNCHANGED <<connectedModules, LVWrapperValid, bus, clients, abandoned, call,
                  startCompressorModule, owed, served, clean>>
  BY DEF wrapper, ledger
<1>3. SessionsTypeOK'
  BY <1>2 DEF SessionsTypeOK
<1>4. CallsInOrder'
  <2>1. ASSUME NEW c \in Callers PROVE CallInOrder(c)'
    <3>1. call[c].module \in Modules
      BY DEF SessionsTypeOK, CallType
    <3> QED BY <1>1, <1>2, <3>1 DEF CallsInOrder, CallInOrder
  <2> QED BY <2>1 DEF CallsInOrder
<1>5. \A n \in Modules : Held(n)' <=> Held(n)
  BY <1>2 DEF Held
<1>6. ObjectsAreHeld'
  <2>1. ASSUME NEW n \in Modules
        PROVE  /\ n # "FE" /\ valid'[n] => object'[n] # "none"
               /\ object'[n] # "none" => Held(n)'
               /\ Starting(call', n) => ~Up(n)'
    BY <1>2, <1>5 DEF ObjectsAreHeld, Up
  <2>2. abandoned' \subseteq {"FE"}
    BY <1>2 DEF ObjectsAreHeld
  <2> QED BY <2>1, <2>2 DEF ObjectsAreHeld
<1>7. Holding' = Holding /\ Share' = Share
  BY <1>1, <1>2, <1>5 DEF Holding, Share, One
<1>8. BusIsHeld'
  BY <1>2, <1>7 DEF BusIsHeld
<1>9. SessionsAreCounted'
  BY <1>2 DEF SessionsAreCounted, Up
<1>10. CleanIsExact'
  BY <1>1, <1>2, <1>7 DEF CleanIsExact
<1> QED BY <1>3, <1>4, <1>6, <1>8, <1>9, <1>10

(* What sigSrcLoadConfiguration leaves fitted. *)
LEMMA Fits ==
  ASSUME SessionsTypeOK, FittedIsOn, NEW powered \in BOOLEAN, FitSource(powered)
  PROVE  /\ equipped' \in BOOLEAN /\ sourceCart' \in BOOLEAN
         /\ on' \subseteq (IF equipped' THEN Ports ELSE {}) \cup (IF sourceCart' THEN {Source} ELSE {})
         /\ FittedIsOn'
<1>1. equipped' = equipped /\ sourceCart' \in BOOLEAN /\ (sourceCart => sourceCart')
  BY DEF FitSource, SessionsTypeOK
<1>2. on' \subseteq on \cup {Source} /\ (Source \in on' => sourceCart')
  BY DEF FitSource, FittedIsOn, CartAt
<1>3. ASSUME NEW p \in on' PROVE CartAt(p)' # {}
  <2>1. CASE p = Source
    BY <1>2, <2>1 DEF CartAt
  <2>2. CASE p # Source
    BY <1>1, <1>2, <2>2 DEF FittedIsOn, CartAt
  <2> QED BY <2>1, <2>2
<1>4. on' \subseteq (IF equipped' THEN Ports ELSE {}) \cup (IF sourceCart' THEN {Source} ELSE {})
  BY <1>1, <1>2 DEF SessionsTypeOK
<1> QED BY <1>1, <1>3, <1>4 DEF SessionsTypeOK, FittedIsOn

(* The library that is loaded after the process has ended is a new one. *)
LEMMA StartsAnew == SessionsInv /\ ProcessEnds => SessionsInv'
<1>1. ProcessEnds => SessionsInit'
  BY DEF ProcessEnds, SessionsInit
<1> QED BY <1>1, InitHolds, PTL

(* FELoadConfiguration keeps SessionsInv: it marks the front end valid      *)
(* while nobody initializes it.                                             *)
LEMMA ReloadsFrontEnd == SessionsInv /\ ReloadFrontEnd => SessionsInv'
<1> SUFFICES ASSUME SessionsInv, ReloadFrontEnd, ~ProcessEnds PROVE SessionsInv'
  BY StartsAnew
<1> USE DEF SessionsInv
<1>1. "FE" \in Modules /\ "FE" \in Keyed /\ "SigSrc" \in Modules /\ "SigSrc" # "FE"
  BY DEF Modules, Keyed
<1>2. Quiet(call)
  BY NoCall DEF ReloadFrontEnd, At
<1>3. /\ UNCHANGED <<wrapper, clients, abandoned, startCompressorModule, call, ledger,
                     object, equipped, sourceCart, on>>
      /\ valid' = [valid EXCEPT !["FE"] = TRUE]
  BY DEF ReloadFrontEnd, fitted
<1>4. /\ valid' \in [Modules -> BOOLEAN] /\ valid'["FE"] = TRUE
      /\ \A n \in Modules : n # "FE" => valid'[n] = valid[n]
  BY <1>1, <1>3 DEF SessionsTypeOK
<1>5. \A n \in Modules :
         /\ valid[n] => valid'[n]
         /\ n \notin Keyed => valid'[n] = valid[n]
         /\ n # "FE" /\ valid'[n] => object[n] # "none"
         /\ object[n] # "none" /\ valid'[n] => ~Starting(call, n)
         /\ object'[n] # "none" <=> object[n] # "none"
  BY <1>1, <1>2, <1>3, <1>4 DEF ObjectsAreHeld, Quiet
<1>6. FittedIsOn'
  BY <1>3 DEF FittedIsOn, CartAt
<1>7. ~valid'["SigSrc"] => object'["SigSrc"] # "monitoring"
  BY <1>1, <1>3, <1>4 DEF ObjectsAreHeld
<1>8. /\ equipped' \in BOOLEAN /\ sourceCart' \in BOOLEAN /\ object' \in [Modules -> Objects]
      /\ on' \subseteq (IF equipped' THEN Ports ELSE {}) \cup (IF sourceCart' THEN {Source} ELSE {})
  BY <1>3 DEF SessionsTypeOK
<1> QED BY <1>3, <1>4, <1>5, <1>6, <1>7, <1>8, Exports

(* sigSrcLoadConfiguration keeps SessionsInv: what it enables is there. *)
LEMMA ReloadsSource ==
  ASSUME SessionsInv, NEW powered \in BOOLEAN, ReloadSource(powered)
  PROVE  SessionsInv'
<1> SUFFICES ASSUME object["SigSrc"] # "none" PROVE SessionsInv'
  BY StartsAnew DEF ReloadSource
<1> USE DEF SessionsInv
<1>1. "SigSrc" \in Modules /\ "SigSrc" \in Keyed
  BY DEF Modules, Keyed
<1>2. Quiet(call)
  BY NoCall DEF ReloadSource, At
<1>3. /\ UNCHANGED <<wrapper, clients, abandoned, startCompressorModule, call, ledger, object>>
      /\ FitSource(powered) /\ object["SigSrc"] # "none"
      /\ valid' = [valid EXCEPT !["SigSrc"] = TRUE]
  BY DEF ReloadSource, FitSource
<1>4. /\ valid' \in [Modules -> BOOLEAN] /\ valid'["SigSrc"] = TRUE
      /\ \A n \in Modules : n # "SigSrc" => valid'[n] = valid[n]
  BY <1>1, <1>3 DEF SessionsTypeOK
<1>5. \A n \in Modules :
         /\ valid[n] => valid'[n]
         /\ n \notin Keyed => valid'[n] = valid[n]
         /\ n # "FE" /\ valid'[n] => object[n] # "none"
         /\ object[n] # "none" /\ valid'[n] => ~Starting(call, n)
         /\ object'[n] # "none" <=> object[n] # "none"
  BY <1>1, <1>2, <1>3, <1>4 DEF ObjectsAreHeld, Quiet
<1>6. object' \in [Modules -> Objects]
  BY <1>3 DEF SessionsTypeOK
<1>7. /\ equipped' \in BOOLEAN /\ sourceCart' \in BOOLEAN /\ FittedIsOn'
      /\ on' \subseteq (IF equipped' THEN Ports ELSE {}) \cup (IF sourceCart' THEN {Source} ELSE {})
  BY <1>3, Fits
<1> QED BY <1>3, <1>4, <1>5, <1>6, <1>7, Exports

(* sigSrcEnableMonitoring keeps SessionsInv. *)
LEMMA MonitorsSource ==
  ASSUME SessionsInv, NEW powered \in BOOLEAN, MonitorSource(powered)
  PROVE  SessionsInv'
<1> USE DEF SessionsInv
<1>1. "SigSrc" \in Modules
  BY DEF Modules
<1>3. /\ UNCHANGED <<wrapper, clients, abandoned, startCompressorModule, call, ledger,
                     valid, equipped, sourceCart>>
      /\ valid["SigSrc"] /\ object' = [object EXCEPT !["SigSrc"] = "monitoring"]
      /\ on' \subseteq on \cup {Source} /\ (Source \in on' => sourceCart)
  BY DEF MonitorSource, FittedIsOn, CartAt
<1>4. /\ object' \in [Modules -> Objects] /\ object'["SigSrc"] = "monitoring"
      /\ \A n \in Modules : n # "SigSrc" => object'[n] = object[n]
  BY <1>1, <1>3 DEF SessionsTypeOK, Objects
<1>5. \A n \in Modules :
         /\ valid[n] => valid'[n]
         /\ n \notin Keyed => valid'[n] = valid[n]
         /\ n # "FE" /\ valid'[n] => object[n] # "none"
         /\ object[n] # "none" /\ valid'[n] => ~Starting(call, n)
         /\ object'[n] # "none" <=> object[n] # "none"
  BY <1>1, <1>3, <1>4 DEF ObjectsAreHeld, Up
<1>6. FittedIsOn'
  <2>1. ASSUME NEW p \in on' PROVE CartAt(p)' # {}
    <3>1. CASE p = Source
      BY <1>3, <3>1 DEF CartAt
    <3>2. CASE p # Source
      BY <1>3, <3>2 DEF FittedIsOn, CartAt
    <3> QED BY <3>1, <3>2
  <2> QED BY <2>1 DEF FittedIsOn
<1>7. /\ equipped' \in BOOLEAN /\ sourceCart' \in BOOLEAN /\ valid' \in [Modules -> BOOLEAN]
      /\ on' \subseteq (IF equipped' THEN Ports ELSE {}) \cup (IF sourceCart' THEN {Source} ELSE {})
  BY <1>3 DEF SessionsTypeOK
<1> QED BY <1>3, <1>4, <1>5, <1>6, <1>7, Exports

(* Switching a cartridge on or off keeps SessionsInv. *)
LEMMA SetsCartridge ==
  ASSUME SessionsInv, NEW p \in Ports \cup {Source}, NEW enable \in BOOLEAN, SetCartridge(p, enable)
  PROVE  SessionsInv'
<1> USE DEF SessionsInv
<1>1. "SigSrc" \in Modules
  BY DEF Modules
<1>3. /\ UNCHANGED <<wrapper, clients, abandoned, startCompressorModule, call, ledger,
                     valid, object, equipped, sourceCart>>
      /\ on' \subseteq on \cup {p} /\ CartAt(p) # {}
  BY DEF SetCartridge
<1>5. \A n \in Modules :
         /\ valid[n] => valid'[n]
         /\ n \notin Keyed => valid'[n] = valid[n]
         /\ n # "FE" /\ valid'[n] => object[n] # "none"
         /\ object[n] # "none" /\ valid'[n] => ~Starting(call, n)
         /\ object'[n] # "none" <=> object[n] # "none"
  BY <1>3 DEF ObjectsAreHeld, Up
<1>6. FittedIsOn'
  BY <1>3 DEF FittedIsOn, CartAt
<1>7. /\ equipped' \in BOOLEAN /\ sourceCart' \in BOOLEAN /\ valid' \in [Modules -> BOOLEAN]
      /\ object' \in [Modules -> Objects]
      /\ ~valid'["SigSrc"] => object'["SigSrc"] # "monitoring"
  BY <1>1, <1>3 DEF SessionsTypeOK, ObjectsAreHeld
<1>8. on' \subseteq (IF equipped' THEN Ports ELSE {}) \cup (IF sourceCart' THEN {Source} ELSE {})
  <2>1. p \in (IF equipped THEN Ports ELSE {}) \cup (IF sourceCart THEN {Source} ELSE {})
    BY <1>3 DEF CartAt
  <2> QED BY <1>3, <2>1 DEF SessionsTypeOK
<1> QED BY <1>3, <1>5, <1>6, <1>7, <1>8, Exports

-----------------------------------------------------------------------------
(* Shutting down.                                                           *)

LEMMA Names ==
  /\ "FE" \in Modules /\ "Compressor" \in Modules /\ "LORTM" \in Modules /\ "SigSrc" \in Modules
  /\ "FE" \in Keyed /\ "SigSrc" \in Keyed /\ "Compressor" \notin Keyed /\ "LORTM" \notin Keyed
  /\ Keyed \subseteq Modules
  BY DEF Modules, Keyed

(* A session ends when no caller is inside; it is one of those that were    *)
(* served unless there are others.                                          *)
LEMMA Ends ==
  ASSUME SessionsInv, NEW m \in Modules, EndSession(m)
  PROVE  /\ Quiet(call) /\ UNCHANGED <<clean, call, abandoned, startCompressorModule>>
         /\ owed[m] > 0 /\ owed' \in [Modules -> Nat] /\ served' \in [Modules -> Nat]
         /\ owed'[m] = owed[m] - 1 /\ served'[m] <= served[m] /\ served'[m] <= owed'[m]
         /\ \A n \in Modules : n # m => owed'[n] = owed[n] /\ served'[n] = served[n]
         /\ \A n \in Modules : One(Opening(call, n)) = 0 /\ One(Starting(call, n)) = 0
         /\ clean => \A n \in Modules : served[n] = owed[n] /\ served'[n] = owed'[n]
<1> USE DEF SessionsInv
<1>1. Quiet(call) /\ UNCHANGED <<clean, call, abandoned, startCompressorModule>>
  BY NoCall DEF EndSession, At
<1>2. \A n \in Modules : One(Opening(call, n)) = 0 /\ One(Starting(call, n)) = 0
  BY <1>1 DEF Quiet, One
<1>3. owed[m] \in Nat /\ served[m] \in Nat /\ owed[m] > 0
  BY DEF EndSession, SessionsTypeOK
<1>4. /\ owed' \in [Modules -> Nat] /\ owed'[m] = owed[m] - 1
      /\ \A n \in Modules : n # m => owed'[n] = owed[n]
  BY <1>3 DEF EndSession, SessionsTypeOK
<1>5. PICK s \in {served[m], served[m] - 1} :
         s \in 0..owed'[m] /\ served' = [served EXCEPT ![m] = s]
  BY DEF EndSession
<1>6. /\ served' \in [Modules -> Nat] /\ served'[m] = s
      /\ \A n \in Modules : n # m => served'[n] = served[n]
      /\ s \in Nat /\ s <= owed'[m] /\ s <= served[m]
  BY <1>3, <1>4, <1>5 DEF SessionsTypeOK
<1>7. ASSUME clean, NEW n \in Modules PROVE served[n] = owed[n] /\ served'[n] = owed'[n]
  <2>1. served[n] \in Nat /\ owed[n] \in Nat
    BY DEF SessionsTypeOK
  <2>2. served[n] = owed[n]
    BY <1>2, <1>7, <2>1 DEF CleanIsExact
  <2>3. CASE n = m
    BY <1>3, <1>4, <1>5, <1>6, <2>2, <2>3
  <2> QED BY <1>4, <1>6, <2>2, <2>3
<1> QED BY <1>1, <1>2, <1>3, <1>4, <1>6, <1>7

(* A session that leaves the module as it is: there are others, or it was   *)
(* not valid.                                                               *)
LEMMA Stays ==
  ASSUME SessionsInv, NEW m \in Modules, EndSession(m), UNCHANGED <<wrapper, valid, object, fitted>>,
         \/ m \notin Keyed /\ ~valid[m] /\ UNCHANGED clients
         \/ clients[m] > 1 /\ (m \in Keyed \/ valid[m])
            /\ clients' = [clients EXCEPT ![m] = @ - 1]
  PROVE  SessionsInv'
<1> USE DEF SessionsInv
<1>1. /\ Quiet(call) /\ UNCHANGED <<clean, call, abandoned, startCompressorModule>>
      /\ owed[m] > 0 /\ owed' \in [Modules -> Nat] /\ served' \in [Modules -> Nat]
      /\ owed'[m] = owed[m] - 1 /\ served'[m] <= served[m] /\ served'[m] <= owed'[m]
      /\ \A n \in Modules : n # m => owed'[n] = owed[n] /\ served'[n] = served[n]
      /\ \A n \in Modules : One(Opening(call, n)) = 0 /\ One(Starting(call, n)) = 0
      /\ clean => \A n \in Modules : served[n] = owed[n] /\ served'[n] = owed'[n]
  BY Ends
<1>2. UNCHANGED <<connectedModules, LVWrapperValid, bus, valid, object, abandoned, clean, call,
                  startCompressorModule, equipped, sourceCart, on>>
  BY <1>1 DEF wrapper, fitted
<1>3. /\ clients' \in [Modules -> Int] /\ \A n \in Modules : n # m => clients'[n] = clients[n]
      /\ clients[m] \in Int /\ clients'[m] \in {clients[m], clients[m] - 1}
      /\ (m \in Keyed \/ valid[m]) => clients'[m] = clients[m] - 1 /\ clients[m] > 1
      /\ ~(m \in Keyed \/ valid[m]) => clients'[m] = clients[m]
  BY DEF SessionsTypeOK
<1>4. SessionsTypeOK'
  <2>1. \A n \in Modules : served'[n] <= owed'[n]
    BY <1>1 DEF SessionsTypeOK
  <2> QED BY <1>1, <1>2, <1>3, <2>1 DEF SessionsTypeOK
<1>5. CallsInOrder'
  BY <1>2 DEF CallsInOrder, CallInOrder
<1>6. \A n \in Modules : Held(n)' <=> Held(n)
  <2>1. ASSUME NEW n \in Modules, n # m PROVE Held(n)' <=> Held(n)
    <3>1. owed'[n] = owed[n] /\ valid' = valid /\ call' = call
      BY <1>1, <1>2, <2>1
    <3> QED BY <3>1 DEF Held
  <2>2. Held(m)' <=> Held(m)
    <3>1. CASE m \in Keyed
      <4>1. owed[m] > 1
        BY <1>3, <3>1 DEF SessionsAreCounted
      <4> QED BY <1>1, <1>2, <3>1, <4>1 DEF Held, SessionsTypeOK
    <3>2. CASE m \notin Keyed
      BY <1>2, <3>2 DEF Held
    <3> QED BY <3>1, <3>2
  <2> QED BY <2>1, <2>2
<1>7. ObjectsAreHeld'
  BY <1>2, <1>6 DEF ObjectsAreHeld, Up
<1>8. Holding' = Holding /\ Share' = Share
  BY <1>2, <1>6, Names DEF Holding, Share, One
<1>9. BusIsHeld'
  BY <1>2, <1>8 DEF BusIsHeld
<1>10. SessionsAreCounted'
  <2>1. ASSUME NEW n \in Modules
        PROVE  /\ served'[n] + One(Opening(call', n)) <= owed'[n]
               /\ n # "Compressor" /\ served'[n] > 0 => Up(n)'
    <3>1. served'[n] \in Nat /\ served[n] \in Nat /\ served'[n] <= served[n]
          /\ served'[n] <= owed'[n] /\ One(Opening(call', n)) = 0
      BY <1>1, <1>2, <1>4 DEF SessionsTypeOK
    <3> QED BY <1>2, <3>1 DEF SessionsAreCounted, Up
  <2>2. ASSUME NEW n \in Keyed PROVE clients'[n] = owed'[n]
    BY <1>1, <1>3, <2>2, Names DEF SessionsAreCounted
  <2>3. clients'["LORTM"] >= owed'["LORTM"]
    <3>1. clients["LORTM"] >= owed["LORTM"] /\ owed["LORTM"] \in Nat
      BY Names DEF SessionsAreCounted, SessionsTypeOK
    <3> QED BY <1>1, <1>3, <3>1, Names
  <2> QED BY <2>1, <2>2, <2>3 DEF SessionsAreCounted
<1>11. CleanIsExact'
  <2> SUFFICES ASSUME clean PROVE CleanIsExact'
    BY <1>2 DEF CleanIsExact
  <2>0. Share \in Nat
    BY DEF Share, One
  <2>1. m \in Keyed \/ valid[m]
    <3> SUFFICES ASSUME m \notin Keyed, ~valid[m] PROVE FALSE
      OBVIOUS
    <3>1. m \in {"LORTM", "Compressor"}
      BY DEF Modules, Keyed
    <3>2. ~(clients[m] > 0) /\ clients[m] >= owed[m]
      BY <1>1, <2>0, <3>1 DEF CleanIsExact, SessionsTypeOK
    <3> QED BY <1>1, <1>3, <3>2 DEF SessionsTypeOK
  <2>2. \A n \in Modules : served'[n] + One(Opening(call', n)) = owed'[n]
    BY <1>1, <1>2
  <2>3. /\ clients'["LORTM"] = owed'["LORTM"]
        /\ clients'["Compressor"] = owed'["Compressor"] + Share'
    <3>1. \A n \in Modules : clients'[n] - owed'[n] = clients[n] - owed[n]
      BY <1>1, <1>3, <2>1 DEF SessionsTypeOK
    <3>2. /\ clients["LORTM"] = owed["LORTM"] /\ clients["Compressor"] = owed["Compressor"] + Share
          /\ \A n \in Modules : clients[n] \in Int /\ owed[n] \in Int
                                /\ clients'[n] \in Int /\ owed'[n] \in Int
      BY <1>1, <1>3 DEF CleanIsExact, SessionsTypeOK
    <3>3. /\ clients'["LORTM"] - owed'["LORTM"] = clients["LORTM"] - owed["LORTM"]
          /\ clients'["Compressor"] - owed'["Compressor"] = clients["Compressor"] - owed["Compressor"]
      BY <3>1, Names
    <3>4. /\ clients'["LORTM"] \in Int /\ owed'["LORTM"] \in Int
          /\ clients'["Compressor"] \in Int /\ owed'["Compressor"] \in Int
          /\ owed["LORTM"] \in Int /\ owed["Compressor"] \in Int
      BY <3>2, Names
    <3> QED BY <1>8, <2>0, <3>2, <3>3, <3>4
  <2>4. \A n \in {"LORTM", "Compressor"} : valid'[n] <=> clients'[n] > One(Starting(call', n))
    <3>1. ASSUME NEW n \in {"LORTM", "Compressor"}
          PROVE  valid'[n] <=> clients'[n] > One(Starting(call', n))
      <4>1. n \in Modules /\ (valid[n] <=> clients[n] > 0) /\ clients[n] \in Int
        BY <1>1, Names DEF CleanIsExact, SessionsTypeOK
      <4>2. clients'[n] = clients[n] \/ (clients'[n] = clients[n] - 1 /\ clients[n] > 1)
        BY <1>3, <2>1, <4>1
      <4>3. valid'[n] = valid[n] /\ One(Starting(call', n)) = 0
        BY <1>1, <1>2, <4>1
      <4> QED BY <4>1, <4>2, <4>3
    <3> QED BY <3>1
  <2>5. LVWrapperValid' <=> connectedModules' > One(Counted(call)' /\ ~Creating(call)')
    BY <1>2 DEF CleanIsExact
  <2> QED BY <1>2, <1>8, <2>2, <2>3, <2>4, <2>5 DEF CleanIsExact
<1>12. FittedIsOn'
  BY <1>2 DEF FittedIsOn, CartAt
<1> QED BY <1>4, <1>5, <1>7, <1>9, <1>10, <1>11, <1>12

(* LVWrapperShutdown on a record w of the shared objects that h things      *)
(* hold: what is left is enough for all but one of them.                    *)
Enough(w, h) ==
  /\ w.connected \in Nat /\ w.connected <= connectedModules /\ h <= w.connected
  /\ w.valid \in BOOLEAN /\ w.bus = w.valid
  /\ LVWrapperValid /\ h > 0 => w.valid
  /\ clean => w.connected = h /\ (w.valid <=> h > 0)

(* One LVWrapperShutdown for one object less leaves enough for the rest. *)
LEMMA Releases ==
  ASSUME NEW w, NEW h \in Nat \ {0}, Enough(w, h), connectedModules \in Nat
  PROVE  Enough(Released(w), h - 1)
<1>1. CASE ~w.valid
  <2>1. Released(w) = w
    BY <1>1 DEF Released
  <2> QED BY <1>1, <2>1 DEF Enough
<1>2. CASE w.valid
  <2>1. /\ w.bus = TRUE /\ w.valid = TRUE /\ w.connected \in Nat /\ w.connected > 0
        /\ h <= w.connected /\ w.connected <= connectedModules
        /\ clean => w.connected = h
    BY <1>2 DEF Enough
  <2>2. CASE w.connected > 1
    <3>1. Released(w) = [connected |-> w.connected - 1, valid |-> TRUE, bus |-> TRUE]
      BY <2>1, <2>2 DEF Released
    <3> QED BY <2>1, <2>2, <3>1 DEF Enough
  <2>3. CASE w.connected = 1
    <3>1. w.connected - 1 = 0 /\ (w.connected > 1) = FALSE
          /\ (w.connected > 1 /\ w.bus) = FALSE
      BY <2>3
    <3>2. Released(w) = [connected |-> 0, valid |-> FALSE, bus |-> FALSE]
      BY <2>1, <3>1 DEF Released
    <3> QED BY <2>1, <2>3, <3>2 DEF Enough
  <2> QED BY <2>1, <2>2, <2>3
<1> QED BY <1>1, <1>2

(* What a session of m gives back when it takes the objects of down with    *)
(* it: the counts and the options that CleanIsExact speaks of.              *)
Settled ==
  /\ \A n \in Keyed : clients[n] = owed[n]
  /\ clients["LORTM"] >= owed["LORTM"]
  /\ clean =>
       /\ clients["LORTM"] = owed["LORTM"]
       /\ clients["Compressor"] = owed["Compressor"] + Share
       /\ \A n \in {"LORTM", "Compressor"} : valid[n] <=> clients[n] > 0

(* The last session of a module removes its object, and that of the         *)
(* compressor if the front end takes it along; the rest keeps the bus.      *)
LEMMA Removes ==
  ASSUME SessionsInv, NEW m \in Modules, EndSession(m), NEW down \in SUBSET Modules,
         m \in down, m # "Compressor" => owed'[m] = 0,
         \A n \in down : n # m => n = "Compressor",
         \A n \in Modules : /\ valid'[n] <=> n \notin down /\ valid[n]
                            /\ n \in down => object'[n] = "none"
                            /\ n \notin down => object'[n] = object[n],
         valid' \in [Modules -> BOOLEAN], object' \in [Modules -> Objects],
         clients' \in [Modules -> Int], Settled',
         NEW w, SetWrapper(w), Enough(w, Holding'), Holding' \in Nat,
         equipped' \in BOOLEAN, sourceCart' \in BOOLEAN,
         on' \subseteq (IF equipped' THEN Ports ELSE {}) \cup (IF sourceCart' THEN {Source} ELSE {}),
         FittedIsOn'
  PROVE  SessionsInv'
<1> USE DEF SessionsInv
<1>1. /\ Quiet(call) /\ UNCHANGED <<clean, call, abandoned, startCompressorModule>>
      /\ owed[m] > 0 /\ owed' \in [Modules -> Nat] /\ served' \in [Modules -> Nat]
      /\ owed'[m] = owed[m] - 1 /\ served'[m] <= served[m] /\ served'[m] <= owed'[m]
      /\ \A n \in Modules : n # m => owed'[n] = owed[n] /\ served'[n] = served[n]
      /\ \A n \in Modules : One(Opening(call, n)) = 0 /\ One(Starting(call, n)) = 0
      /\ clean => \A n \in Modules : served[n] = owed[n] /\ served'[n] = owed'[n]
  BY Ends
<1>2. /\ connectedModules' = w.connected /\ LVWrapperValid' = w.valid /\ bus' = w.bus
      /\ w.connected \in 0..MaxConnected + 1 /\ w.valid \in BOOLEAN /\ w.bus = w.valid
      /\ Holding' <= w.connected
  BY SessionsAssumption DEF SetWrapper, Enough, SessionsTypeOK
<1>3. SessionsTypeOK'
  <2>1. \A n \in Modules : served'[n] <= owed'[n]
    BY <1>1 DEF SessionsTypeOK
  <2> QED BY <1>1, <1>2, <2>1 DEF SessionsTypeOK
<1>4. CallsInOrder'
  BY <1>1 DEF CallsInOrder, CallInOrder, Early, EndSession, At
<1>5. ASSUME NEW n \in Modules PROVE object'[n] # "none" => Held(n)' /\ object[n] # "none"
  <2> SUFFICES ASSUME object'[n] # "none" PROVE Held(n)' /\ object[n] # "none"
    OBVIOUS
  <2>1. n \notin down /\ object[n] # "none" /\ Held(n) /\ (valid'[n] <=> valid[n])
    BY DEF ObjectsAreHeld
  <2>2. owed'[n] = owed[n] /\ call' = call
    BY <1>1, <2>1
  <2> QED BY <2>1, <2>2 DEF Held
<1>6. ObjectsAreHeld'
  <2>1. ASSUME NEW n \in Modules
        PROVE  /\ n # "FE" /\ valid'[n] => object'[n] # "none"
               /\ object'[n] # "none" => Held(n)'
               /\ Starting(call', n) => ~Up(n)'
    BY <1>1, <1>5 DEF ObjectsAreHeld, Up, Quiet
  <2>2. abandoned' \subseteq {"FE"}
    BY <1>1 DEF ObjectsAreHeld
  <2>3. ~valid'["SigSrc"] => object'["SigSrc"] # "monitoring"
    BY Names DEF ObjectsAreHeld
  <2> QED BY <2>1, <2>2, <2>3 DEF ObjectsAreHeld
<1>7. BusIsHeld'
  <2>1. ASSUME NEW n \in Modules, object'[n] # "none" \/ n \in abandoned'
        PROVE  w.valid
    <3>1. LVWrapperValid
      BY <1>1, <1>5, <2>1 DEF BusIsHeld
    <3>2. Holding' > 0
      <4>1. CASE object'[n] # "none"
        <5>1. Held(n)' /\ n \in {"FE", "LORTM", "SigSrc", "Compressor"}
          BY <1>5, <4>1 DEF Modules
        <5> QED BY <5>1 DEF Holding, One
      <4>2. CASE n \in abandoned'
        <5>1. "FE" \in abandoned'
          BY <1>6, <4>2 DEF ObjectsAreHeld
        <5> QED BY <5>1 DEF Holding, One
      <4> QED BY <2>1, <4>1, <4>2
    <3> QED BY <3>1, <3>2 DEF Enough
  <2> QED BY <1>2, <2>1 DEF BusIsHeld
<1>8. SessionsAreCounted'
  <2>1. ASSUME NEW n \in Modules
        PROVE  /\ served'[n] + One(Opening(call', n)) <= owed'[n]
               /\ n # "Compressor" /\ served'[n] > 0 => Up(n)'
    <3>1. served'[n] \in Nat /\ served[n] \in Nat /\ served'[n] <= owed'[n]
          /\ One(Opening(call', n)) = 0
      BY <1>1, <1>3 DEF SessionsTypeOK
    <3>2. ASSUME n # "Compressor", served'[n] > 0 PROVE Up(n)'
      <4>1. n # m
        BY <1>1, <3>1, <3>2
      <4>2. n \notin down /\ served'[n] = served[n]
        BY <1>1, <3>2, <4>1
      <4> QED BY <3>2, <4>2 DEF SessionsAreCounted, Up
    <3> QED BY <3>1, <3>2
  <2> QED BY <2>1 DEF SessionsAreCounted, Settled
<1>9. CleanIsExact'
  <2> SUFFICES ASSUME clean PROVE CleanIsExact'
    BY <1>1 DEF CleanIsExact
  <2>1. \A n \in Modules : served'[n] + One(Opening(call', n)) = owed'[n]
    BY <1>1
  <2>2. \A n \in {"LORTM", "Compressor"} : valid'[n] <=> clients'[n] > One(Starting(call', n))
    BY <1>1, Names DEF Settled
  <2>3. /\ Holding' = connectedModules' /\ (LVWrapperValid' <=> connectedModules' > 0)
        /\ abandoned' = {}
    BY <1>1, <1>2 DEF Enough, CleanIsExact
  <2>4. One(Counted(call)' /\ ~Creating(call)') = 0
    BY <1>1 DEF Quiet, One
  <2> QED BY <1>1, <2>1, <2>2, <2>3, <2>4 DEF CleanIsExact, Settled
<1> QED BY <1>3, <1>4, <1>6, <1>7, <1>8, <1>9

(* With nobody inside, the bus and its count are enough for what is held. *)
LEMMA WrapperIsEnough ==
  ASSUME SessionsInv, Quiet(call)
  PROVE  Enough(Wrapper, Holding) /\ Holding \in Nat
<1> USE DEF SessionsInv
<1>1. connectedModules \in Nat /\ Holding \in Nat
  BY SessionsAssumption DEF SessionsTypeOK, Holding, One
<1>2. clean => Holding = connectedModules /\ (LVWrapperValid <=> connectedModules > 0)
  <2>1. One(Counted(call) /\ ~Creating(call)) = 0
    BY DEF Quiet, One
  <2> QED BY <2>1 DEF CleanIsExact
<1>3. Holding <= connectedModules /\ bus = LVWrapperValid /\ LVWrapperValid \in BOOLEAN
  BY DEF BusIsHeld, SessionsTypeOK
<1> QED BY <1>1, <1>2, <1>3 DEF Enough, Wrapper

(* LORTMControlShutdown and CompressorControlShutdown keep SessionsInv,     *)
(* whether or not there is anything to shut down.                           *)
LEMMA StopsPlain ==
  ASSUME SessionsInv, NEW m \in Modules, ShutdownPlain(m)
  PROVE  SessionsInv'
<1> USE DEF SessionsInv
<1>1. EndSession(m) /\ m \in {"LORTM", "Compressor"} /\ m \notin Keyed /\ UNCHANGED fitted
  BY DEF ShutdownPlain, Keyed
<1>2. CASE ~valid[m] \/ clients[m] > 1
  BY <1>1, <1>2, Stays DEF ShutdownPlain
<1>3. CASE valid[m] /\ ~(clients[m] > 1)
  <2>1. /\ clients' = [clients EXCEPT ![m] = @ - 1] /\ valid' = [valid EXCEPT ![m] = FALSE]
        /\ object' = [object EXCEPT ![m] = "none"] /\ SetWrapper(Released(Wrapper))
    BY <1>3 DEF ShutdownPlain
  <2>2. /\ Quiet(call) /\ UNCHANGED <<clean, call, abandoned, startCompressorModule>>
        /\ owed[m] > 0 /\ owed' \in [Modules -> Nat] /\ owed'[m] = owed[m] - 1
        /\ \A n \in Modules : n # m => owed'[n] = owed[n]
    BY <1>1, Ends
  <2>3. /\ valid' \in [Modules -> BOOLEAN] /\ ~valid'[m]
        /\ \A n \in Modules : n # m => valid'[n] = valid[n]
        /\ object' \in [Modules -> Objects] /\ object'[m] = "none"
        /\ \A n \in Modules : n # m => object'[n] = object[n]
        /\ clients' \in [Modules -> Int] /\ clients'[m] = clients[m] - 1
        /\ \A n \in Modules : n # m => clients'[n] = clients[n]
        /\ clients[m] \in Int /\ owed[m] \in Nat
    BY <2>1 DEF SessionsTypeOK, Objects
  <2>4. Held(m) /\ ~Held(m)' /\ \A n \in Modules : n # m => (Held(n)' <=> Held(n))
    <3>1. ASSUME NEW n \in Modules, n # m PROVE Held(n)' <=> Held(n)
      <4>1. owed'[n] = owed[n] /\ valid'[n] = valid[n] /\ call' = call
        BY <2>2, <2>3, <3>1
      <4> QED BY <4>1 DEF Held
    <3> QED BY <1>1, <1>3, <2>3, <3>1 DEF Held
  <2>5. Holding' = Holding - 1 /\ Holding \in Nat \ {0} /\ Share' = Share /\ Share \in Nat
    BY <1>1, <2>2, <2>4, Names DEF Holding, Share, One
  <2>6. Enough(Released(Wrapper), Holding') /\ Holding' \in Nat
    <3>1. connectedModules \in Nat
      BY SessionsAssumption DEF SessionsTypeOK
    <3> QED BY <2>2, <2>5, <3>1, WrapperIsEnough, Releases
  <2>7. Settled'
    <3>1. \A n \in Keyed : clients'[n] = owed'[n]
      BY <1>1, <2>2, <2>3, Names DEF SessionsAreCounted
    <3>2. m = "LORTM" => clients[m] = 1 /\ owed[m] = 1
      BY <1>3, <2>2, <2>3 DEF SessionsAreCounted
    <3>3. clients'["LORTM"] >= owed'["LORTM"]
      BY <2>2, <2>3, <3>2, Names DEF SessionsAreCounted
    <3>4. ASSUME clean
          PROVE  /\ clients'["LORTM"] = owed'["LORTM"]
                 /\ clients'["Compressor"] = owed'["Compressor"] + Share'
                 /\ \A n \in {"LORTM", "Compressor"} : valid'[n] <=> clients'[n] > 0
      <4>1. /\ clients["LORTM"] = owed["LORTM"]
            /\ clients["Compressor"] = owed["Compressor"] + Share
            /\ \A n \in {"LORTM", "Compressor"} : valid[n] <=> clients[n] > One(Starting(call, n))
        BY <3>4 DEF CleanIsExact
      <4>2. \A n \in {"LORTM", "Compressor"} : One(Starting(call, n)) = 0
        BY <2>2, Names DEF Quiet, One
      <4>3. clients[m] = 1
        BY <1>1, <1>3, <2>3, <4>1, <4>2
      <4>4. m = "Compressor" => owed[m] = 1 /\ Share = 0
        BY <2>2, <2>3, <2>5, <4>1, <4>3
      <4>5. \A n \in {"LORTM", "Compressor"} : valid'[n] <=> clients'[n] > 0
        BY <2>3, <4>1, <4>2, <4>3, Names
      <4> QED BY <1>1, <2>2, <2>3, <2>5, <3>2, <4>1, <4>3, <4>4, <4>5, Names
    <3> QED BY <2>2, <3>1, <3>3, <3>4 DEF Settled
  <2>8. m # "Compressor" => owed'[m] = 0
    BY <1>1, <1>3, <2>2, <2>3 DEF SessionsAreCounted
  <2>9. /\ equipped' \in BOOLEAN /\ sourceCart' \in BOOLEAN /\ FittedIsOn'
        /\ on' \subseteq (IF equipped' THEN Ports ELSE {}) \cup (IF sourceCart' THEN {Source} ELSE {})
    BY <1>1 DEF fitted, SessionsTypeOK, FittedIsOn, CartAt
  <2> DEFINE down == {m}
  <2> DEFINE w == Released(Wrapper)
  <2>10. \A n \in Modules : /\ valid'[n] <=> n \notin down /\ valid[n]
                            /\ n \in down => object'[n] = "none"
                            /\ n \notin down => object'[n] = object[n]
    BY <2>3
  <2>11. /\ down \in SUBSET Modules /\ m \in down /\ \A n \in down : n # m => n = "Compressor"
         /\ SetWrapper(w) /\ Enough(w, Holding') /\ Holding' \in Nat
    BY <1>1, <2>1, <2>6
  <2> HIDE DEF down, w
  <2> QED BY <1>1, <2>3, <2>7, <2>8, <2>9, <2>10, <2>11, Removes
<1> QED BY <1>2, <1>3

(* sigSrcControlShutdown keeps SessionsInv. *)
LEMMA StopsSource ==
  ASSUME SessionsInv, ShutdownSource
  PROVE  SessionsInv'
<1> DEFINE m == "SigSrc"
<1> USE DEF SessionsInv
<1>1. EndSession(m) /\ m \in Keyed /\ m \in Modules
  BY Names DEF ShutdownSource
<1>2. CASE clients[m] > 1
  BY <1>1, <1>2, Stays DEF ShutdownSource
<1>3. CASE ~(clients[m] > 1)
  <2>1. /\ clients' = [clients EXCEPT ![m] = @ - 1] /\ valid' = [valid EXCEPT ![m] = FALSE]
        /\ object' = [object EXCEPT ![m] = "none"] /\ SetWrapper(Released(Wrapper))
        /\ sourceCart' = FALSE /\ on' = on \ {Source} /\ UNCHANGED equipped
    BY <1>3 DEF ShutdownSource
  <2>2. /\ Quiet(call) /\ UNCHANGED <<clean, call, abandoned, startCompressorModule>>
        /\ owed[m] > 0 /\ owed' \in [Modules -> Nat] /\ owed'[m] = owed[m] - 1
        /\ \A n \in Modules : n # m => owed'[n] = owed[n]
    BY <1>1, Ends
  <2>3. /\ valid' \in [Modules -> BOOLEAN] /\ ~valid'[m]
        /\ \A n \in Modules : n # m => valid'[n] = valid[n]
        /\ object' \in [Modules -> Objects] /\ object'[m] = "none"
        /\ \A n \in Modules : n # m => object'[n] = object[n]
        /\ clients' \in [Modules -> Int] /\ clients'[m] = clients[m] - 1
        /\ \A n \in Modules : n # m => clients'[n] = clients[n]
        /\ owed[m] \in Nat /\ clients[m] = owed[m]
    BY <1>1, <2>1 DEF SessionsTypeOK, Objects, SessionsAreCounted
  <2>4. owed[m] = 1 /\ owed'[m] = 0
    BY <1>3, <2>2, <2>3
  <2> HIDE DEF m
  <2>5. Held(m) /\ ~Held(m)' /\ \A n \in Modules : n # m => (Held(n)' <=> Held(n))
    <3>1. ASSUME NEW n \in Modules, n # m PROVE Held(n)' <=> Held(n)
      <4>1. owed'[n] = owed[n] /\ valid'[n] = valid[n] /\ call' = call
        BY <2>2, <2>3, <3>1
      <4> QED BY <4>1 DEF Held
    <3>2. ~Starting(call, m) /\ ~Starting(call', m)
      BY <1>1, <2>2 DEF Quiet
    <3> QED BY <1>1, <2>4, <3>1, <3>2 DEF Held, One
  <2>6. Holding' = Holding - 1 /\ Holding \in Nat \ {0} /\ Share' = Share
    BY <2>2, <2>5, Names DEF Holding, Share, One, m
  <2>7. Enough(Released(Wrapper), Holding') /\ Holding' \in Nat
    <3>1. connectedModules \in Nat
      BY SessionsAssumption DEF SessionsTypeOK
    <3> QED BY <2>2, <2>6, <3>1, WrapperIsEnough, Releases
  <2>8. Settled'
    <3>1. \A n \in Keyed : clients'[n] = owed'[n]
      BY <2>2, <2>3, Names DEF SessionsAreCounted
    <3>2. \A n \in {"LORTM", "Compressor"} :
             /\ clients'[n] = clients[n] /\ owed'[n] = owed[n] /\ valid'[n] = valid[n]
             /\ One(Starting(call, n)) = 0
      BY <2>2, <2>3, Names DEF m, Quiet, One
    <3> QED BY <2>2, <2>6, <3>1, <3>2 DEF Settled, SessionsAreCounted, CleanIsExact
  <2>9. /\ equipped' \in BOOLEAN /\ sourceCart' \in BOOLEAN /\ FittedIsOn'
        /\ on' \subseteq (IF equipped' THEN Ports ELSE {}) \cup (IF sourceCart' THEN {Source} ELSE {})
    BY <2>1 DEF SessionsTypeOK, FittedIsOn, CartAt
  <2> DEFINE down == {m}
  <2> DEFINE w == Released(Wrapper)
  <2>10. \A n \in Modules : /\ valid'[n] <=> n \notin down /\ valid[n]
                            /\ n \in down => object'[n] = "none"
                            /\ n \notin down => object'[n] = object[n]
    BY <2>3
  <2>11. /\ down \in SUBSET Modules /\ m \in down /\ \A n \in down : n # m => n = "Compressor"
         /\ SetWrapper(w) /\ Enough(w, Holding') /\ Holding' \in Nat
    BY <1>1, <2>1, <2>7
  <2> HIDE DEF down, w
  <2>12. m # "Compressor" => owed'[m] = 0
    BY <2>4
  <2> HIDE DEF m
  <2> QED BY <1>1, <2>3, <2>8, <2>9, <2>10, <2>11, <2>12, Removes
<1> QED BY <1>2, <1>3

(* FEControlShutdown keeps SessionsInv, also when it takes the compressor   *)
(* with it and gives back two counts at once.                               *)
LEMMA StopsFrontEnd ==
  ASSUME SessionsInv, ShutdownFrontEnd
  PROVE  SessionsInv'
<1> DEFINE m == "FE"
<1> DEFINE last == CompressorGoes /\ clients["Compressor"] <= 1
<1> DEFINE down == IF last THEN {"FE", "Compressor"} ELSE {"FE"}
<1> USE DEF SessionsInv
<1>1. EndSession(m) /\ m \in Keyed /\ m \in Modules
  BY Names DEF ShutdownFrontEnd
<1>2. CASE clients[m] > 1
  BY <1>1, <1>2, Stays DEF ShutdownFrontEnd
<1>3. CASE ~(clients[m] > 1)
  <2>1. /\ clients' = [clients EXCEPT !["FE"] = @ - 1,
                                      !["Compressor"] = IF CompressorGoes THEN @ - 1 ELSE @]
        /\ valid' = [n \in Modules |-> n \notin down /\ valid[n]]
        /\ object' = [n \in Modules |-> IF n \in down THEN "none" ELSE object[n]]
        /\ equipped' = FALSE /\ on' = on \cap {Source} /\ UNCHANGED sourceCart
        /\ SetWrapper(Released(IF last THEN Released(Wrapper) ELSE Wrapper))
    BY <1>3 DEF ShutdownFrontEnd
  <2>2. /\ Quiet(call) /\ UNCHANGED <<clean, call, abandoned, startCompressorModule>>
        /\ owed[m] > 0 /\ owed' \in [Modules -> Nat] /\ owed'[m] = owed[m] - 1
        /\ \A n \in Modules : n # m => owed'[n] = owed[n]
    BY <1>1, Ends
  <2>3. /\ valid' \in [Modules -> BOOLEAN] /\ object' \in [Modules -> Objects]
        /\ \A n \in Modules : /\ valid'[n] <=> n \notin down /\ valid[n]
                              /\ n \in down => object'[n] = "none"
                              /\ n \notin down => object'[n] = object[n]
    BY <2>1 DEF SessionsTypeOK, Objects
  <2>4. /\ clients' \in [Modules -> Int] /\ clients'[m] = clients[m] - 1
        /\ clients'["Compressor"] =
             (IF CompressorGoes THEN clients["Compressor"] - 1 ELSE clients["Compressor"])
        /\ clients'["LORTM"] = clients["LORTM"] /\ clients'["SigSrc"] = clients["SigSrc"]
        /\ owed[m] \in Nat /\ clients[m] = owed[m] /\ clients["Compressor"] \in Int
        /\ owed["Compressor"] \in Nat
    BY <1>1, <2>1, Names DEF SessionsTypeOK, SessionsAreCounted
  <2>5. owed[m] = 1 /\ owed'[m] = 0
    BY <1>3, <2>2, <2>4
  <2>6. /\ m \in down /\ down \subseteq Modules /\ (last => valid["Compressor"])
        /\ \A n \in down : n # m => n = "Compressor"
        /\ ("Compressor" \in down <=> last)
    BY Names DEF CompressorGoes
  <2>7. /\ Held(m) /\ ~Held(m)' /\ (Held("LORTM")' <=> Held("LORTM"))
        /\ (Held("SigSrc")' <=> Held("SigSrc"))
        /\ (last => Held("Compressor") /\ ~Held("Compressor")')
        /\ (~last => (Held("Compressor")' <=> Held("Compressor")))
    <3>1. ~Starting(call, m) /\ ~Starting(call', m)
      BY <1>1, <2>2 DEF Quiet
    <3>2. owed'["SigSrc"] = owed["SigSrc"] /\ call' = call
      BY <2>2, Names
    <3>3. Held(m) /\ ~Held(m)'
      BY <1>1, <2>5, <3>1 DEF Held, One
    <3>4. Held("SigSrc")' <=> Held("SigSrc")
      BY <3>2, Names DEF Held
    <3>5. /\ Held("LORTM")' <=> Held("LORTM")
          /\ last => Held("Compressor") /\ ~Held("Compressor")'
          /\ ~last => (Held("Compressor")' <=> Held("Compressor"))
      BY <2>3, <2>6, Names DEF Held
    <3> QED BY <3>3, <3>4, <3>5
  <2> HIDE DEF last, down
  <2>8. /\ Holding' = (IF last THEN Holding - 2 ELSE Holding - 1) /\ Holding \in Nat \ {0}
        /\ (last => Holding > 1) /\ Share' = 0
        /\ Share = One(startCompressorModule)
    BY <2>2, <2>7, Names DEF Holding, Share, One, Quiet
  <2> DEFINE w == IF last THEN Released(Wrapper) ELSE Wrapper
  <2>13. SetWrapper(Released(w))
    BY <2>1
  <2>9. Enough(Released(w), Holding') /\ Holding' \in Nat
    <3>1. connectedModules \in Nat /\ Enough(Wrapper, Holding)
      BY <2>2, SessionsAssumption, WrapperIsEnough DEF SessionsTypeOK
    <3>2. Enough(Released(Wrapper), Holding - 1)
      BY <2>8, <3>1, Releases
    <3>3. CASE last
      <4>1. Holding - 1 \in Nat \ {0} /\ (Holding - 1) - 1 = Holding'
        BY <2>8, <3>3
      <4>2. Enough(Released(Released(Wrapper)), (Holding - 1) - 1)
        BY <3>1, <3>2, <4>1, Releases
      <4>3. w = Released(Wrapper)
        BY <3>3
      <4>4. Holding' \in Nat
        BY <2>8, <3>3, <4>1
      <4> DEFINE h == (Holding - 1) - 1
      <4>5. h = Holding' /\ Enough(Released(Released(Wrapper)), h)
        BY <4>1, <4>2
      <4> HIDE DEF w, h
      <4> QED BY <4>3, <4>4, <4>5
    <3>4. CASE ~last
      <4>1. Holding' = Holding - 1 /\ Holding' \in Nat
        BY <2>8, <3>4
      <4>2. w = Wrapper
        BY <3>4
      <4> HIDE DEF w
      <4> QED BY <3>2, <4>1, <4>2
    <3> QED BY <3>3, <3>4
  <2>10. Settled'
    <3>1. \A n \in Keyed : clients'[n] = owed'[n]
      <4>1. Keyed = {"FE", "SigSrc"}
        BY DEF Keyed
      <4> QED BY <2>2, <2>4, <2>5, <4>1, Names DEF SessionsAreCounted
    <3>2. owed'["LORTM"] = owed["LORTM"] /\ owed'["Compressor"] = owed["Compressor"]
      BY <2>2, Names
    <3>3. ASSUME clean
          PROVE  /\ clients'["LORTM"] = owed'["LORTM"]
                 /\ clients'["Compressor"] = owed'["Compressor"] + Share'
                 /\ \A n \in {"LORTM", "Compressor"} : valid'[n] <=> clients'[n] > 0
      <4>1. /\ clients["LORTM"] = owed["LORTM"]
            /\ clients["Compressor"] = owed["Compressor"] + Share
            /\ \A n \in {"LORTM", "Compressor"} : valid[n] <=> clients[n] > 0
        <5>1. \A n \in {"LORTM", "Compressor"} : One(Starting(call, n)) = 0
          BY <2>2, Names DEF Quiet, One
        <5> QED BY <3>3, <5>1 DEF CleanIsExact
      <4>2. CompressorGoes <=> startCompressorModule
        BY <2>4, <2>8, <4>1 DEF CompressorGoes, One
      <4>3. Share = (IF CompressorGoes THEN 1 ELSE 0)
        BY <2>8, <4>2 DEF One
      <4>4. clients'["Compressor"] = owed["Compressor"]
        BY <2>4, <4>1, <4>3
      <4>5. valid'["Compressor"] <=> clients'["Compressor"] > 0
        BY <2>3, <2>4, <2>6, <4>1, <4>4, Names DEF last
      <4>6. valid'["LORTM"] <=> clients'["LORTM"] > 0
        BY <2>3, <2>4, <2>6, <4>1, Names
      <4> QED BY <2>4, <2>8, <3>2, <4>1, <4>4, <4>5, <4>6
    <3> QED BY <2>2, <2>4, <3>1, <3>2, <3>3 DEF Settled, SessionsAreCounted
  <2>11. /\ equipped' \in BOOLEAN /\ sourceCart' \in BOOLEAN /\ FittedIsOn'
         /\ on' \subseteq (IF equipped' THEN Ports ELSE {}) \cup (IF sourceCart' THEN {Source} ELSE {})
    BY <2>1, SessionsAssumption DEF SessionsTypeOK, FittedIsOn, CartAt
  <2>12. m # "Compressor" => owed'[m] = 0
    BY <2>5
  <2> HIDE DEF m, w
  <2> QED BY <1>1, <2>3, <2>4, <2>6, <2>9, <2>10, <2>11, <2>12, <2>13, Removes
<1> QED BY <1>2, <1>3

-----------------------------------------------------------------------------
(* Every step keeps the invariant, and with it the properties hold.         *)

(* Every step of an initialization keeps SessionsInv. *)
LEMMA Initializes ==
  ASSUME SessionsInv, OneAtATime, OneAtATime', NEW c \in Callers, Initialize(c)
  PROVE  SessionsInv'
<1>1. ASSUME NEW m \in Modules, BeginInit(c, m) PROVE SessionsInv'
  BY <1>1, Shares, Begins
<1>2. CASE EnterWrapper(c)
  BY <1>2, Enters
<1>3. CASE DropBus(c)
  BY <1>3, Drops
<1>4. CASE InstallBus(c)
  BY <1>4, Installs
<1>5. CASE WrapperFails(c) \/ ConfigFails(c) \/ LoadFails(c) \/ SourceLoadFails(c)
  BY <1>5, Fails DEF WrapperFails, ConfigFails, LoadFails, SourceLoadFails, At
<1>6. CASE LoadNothing(c)
  <2>1. CallInOrder(c)
    BY DEF SessionsInv, CallsInOrder
  <2>2. object["FE"] # "none" /\ ~call[c].nested
    BY <1>6, <2>1 DEF LoadNothing, At, CallInOrder, Early
  <2> QED BY <1>6, <2>2, Fails DEF LoadNothing, At
<1>7. CASE CreateLORTM(c) \/ CreateCompressor(c)
  BY <1>7, Creates DEF CreateLORTM, CreateCompressor, At
<1>8. ASSUME NEW connected \in BOOLEAN, NEW wanted \in BOOLEAN, CreateFrontEnd(c, connected, wanted)
      PROVE  SessionsInv'
  BY <1>8, CreatesFrontEnd
<1>9. CASE BeginCompressor(c)
  BY <1>9, BeginsCompressor
<1>10. ASSUME NEW found \in SUBSET Ports, LoadFrontEnd(c, found) PROVE SessionsInv'
  <2>1. /\ equipped' = TRUE /\ sourceCart' = sourceCart /\ on' = (on \cap {Source}) \cup found
        /\ found \subseteq {p \in Ports : Carts[p] # {}}
    BY <1>10 DEF LoadFrontEnd
  <2>2. /\ equipped' \in BOOLEAN /\ sourceCart' \in BOOLEAN
        /\ on' \subseteq (IF equipped' THEN Ports ELSE {}) \cup (IF sourceCart' THEN {Source} ELSE {})
        /\ FittedIsOn'
    BY <2>1, SessionsAssumption DEF SessionsInv, SessionsTypeOK, FittedIsOn, CartAt
  <2>3. "FE" \in Keyed
    BY DEF Keyed
  <2> QED BY <1>10, <2>2, <2>3, Loads DEF LoadFrontEnd, At
<1>11. ASSUME NEW connected \in BOOLEAN, CreateSource(c, connected) PROVE SessionsInv'
  BY <1>11, CreatesSource
<1>12. ASSUME NEW powered \in BOOLEAN, LoadSource(c, powered) PROVE SessionsInv'
  <2>1. FitSource(powered) /\ "SigSrc" \in Keyed
    BY <1>12 DEF LoadSource, Keyed
  <2>2. /\ equipped' \in BOOLEAN /\ sourceCart' \in BOOLEAN
        /\ on' \subseteq (IF equipped' THEN Ports ELSE {}) \cup (IF sourceCart' THEN {Source} ELSE {})
        /\ FittedIsOn'
    BY <2>1, Fits DEF SessionsInv
  <2> QED BY <1>12, <2>1, <2>2, Loads DEF LoadSource, FitSource, At
<1>13. CASE NoNode(c)
  BY <1>13, StartsAnew DEF NoNode
<1> QED BY <1>1, <1>2, <1>3, <1>4, <1>5, <1>6, <1>7, <1>8, <1>9, <1>10, <1>11, <1>12, <1>13
        DEF Initialize

(* Every step of the library keeps SessionsInv, whatever was initialized before    *)
(* and whoever shuts down.                                                  *)
LEMMA StepHolds ==
  ASSUME SessionsInv, OneAtATime, OneAtATime', [SessionsNext]_sessionsVars
  PROVE  SessionsInv'
<1>1. ASSUME NEW c \in Callers, Initialize(c) PROVE SessionsInv'
  BY <1>1, Initializes
<1>2. CASE Export
  <2>1. CASE ReloadFrontEnd
    BY <2>1, ReloadsFrontEnd
  <2>2. ASSUME NEW powered \in BOOLEAN, ReloadSource(powered) \/ MonitorSource(powered) PROVE SessionsInv'
    BY <2>2, ReloadsSource, MonitorsSource
  <2>3. ASSUME NEW p \in Ports \cup {Source}, NEW enable \in BOOLEAN, SetCartridge(p, enable)
        PROVE  SessionsInv'
    BY <2>3, SetsCartridge
  <2>4. CASE UseNothing
    BY <2>4, StartsAnew DEF UseNothing
  <2> QED BY <1>2, <2>1, <2>2, <2>3, <2>4 DEF Export
<1>3. CASE Shutdown
  <2>1. ASSUME NEW m \in Modules, ShutdownPlain(m) PROVE SessionsInv'
    BY <2>1, StopsPlain
  <2> QED BY <1>3, <2>1, StopsSource, StopsFrontEnd DEF Shutdown
<1>4. CASE UNCHANGED sessionsVars
  <2>1. /\ UNCHANGED <<connectedModules, LVWrapperValid, bus, clients, valid, object, abandoned>>
        /\ UNCHANGED <<startCompressorModule, equipped, sourceCart, on, call, owed, served, clean>>
    BY <1>4 DEF sessionsVars, wrapper, fitted, ledger
  <2>2. SessionsTypeOK' /\ CallsInOrder'
    BY <2>1 DEF SessionsInv, SessionsTypeOK, CallsInOrder, CallInOrder
  <2>3. \A m \in {"FE", "SigSrc", "LORTM", "Compressor"} : Held(m)' <=> Held(m)
    BY <2>1 DEF Held
  <2>4. Holding' = Holding /\ Share' = Share
    BY <2>1, <2>3 DEF Holding, Share, One
  <2>5. ObjectsAreHeld' /\ FittedIsOn'
    BY <2>1 DEF SessionsInv, ObjectsAreHeld, Up, FittedIsOn, CartAt, Held
  <2>6. BusIsHeld' /\ SessionsAreCounted' /\ CleanIsExact'
    BY <2>1, <2>4 DEF SessionsInv, BusIsHeld, SessionsAreCounted, Up, CleanIsExact
  <2> QED BY <2>2, <2>5, <2>6 DEF SessionsInv
<1> QED BY <1>1, <1>2, <1>3, <1>4 DEF SessionsNext

(* SessionsInv holds while no two threads initialize at once. *)
THEOREM SessionsInductive == SessionsSpec /\ []OneAtATime => []SessionsInv
  BY InitHolds, StepHolds, PTL DEF SessionsSpec

(* A host that calls the library from one thread never does otherwise. *)
LEMMA OneThread ==
  ASSUME \A a, b \in Callers : a = b
  PROVE  SessionsSpec => []OneAtATime
<1>1. OneAtATime
  BY DEF OneAtATime
<1> QED BY <1>1, PTL

(* The variables of Sessions keep their types: the counts stay within the   *)
(* bounds and served sessions are among those that were begun.              *)
THEOREM SessionsTyped == SessionsSpec /\ []OneAtATime => []SessionsTypeOK
<1>1. SessionsInv => SessionsTypeOK
  BY DEF SessionsInv
<1> QED BY <1>1, SessionsInductive, PTL

(* No object and no abandoned monitor thread of lv_wrapper outlives its     *)
(* bus, whatever fails and in whatever order clients come and go.           *)
THEOREM BusOutlives == SessionsSpec /\ []OneAtATime => []LiveHaveBus
<1>1. SessionsInv => LiveHaveBus
  BY DEF SessionsInv, BusIsHeld, LiveHaveBus, SessionsTypeOK
<1> QED BY <1>1, SessionsInductive, PTL

(* LVWrapperValid means what its comment says: the bus exists. *)
THEOREM BusIsThere == SessionsSpec /\ []OneAtATime => []ValidIsCreated
<1>1. SessionsInv => ValidIsCreated
  BY DEF SessionsInv, BusIsHeld, ValidIsCreated, SessionsTypeOK
<1> QED BY <1>1, SessionsInductive, PTL

(* A client whose initialization left the module valid finds it valid until *)
(* it shuts it down.                                                        *)
THEOREM ServedStayValid == SessionsSpec /\ []OneAtATime => []SessionIsServed
<1>1. SessionsInv => SessionIsServed
  <2> SUFFICES ASSUME SessionsInv, NEW m \in Modules, \A c \in Callers : At(c, "idle"),
                      m = "Compressor" => clean, served[m] > 0
               PROVE  valid[m]
    BY DEF SessionIsServed
  <2>1. Quiet(call)
    BY NoCall DEF At
  <2>2. CASE m # "Compressor"
    BY <2>2 DEF SessionsInv, SessionsAreCounted, Up
  <2>3. CASE m = "Compressor"
    <3>1. /\ served[m] + One(Opening(call, m)) = owed[m]
          /\ clients[m] = owed[m] + Share
          /\ valid[m] <=> clients[m] > One(Starting(call, m))
      BY <2>3 DEF SessionsInv, CleanIsExact
    <3>2. One(Opening(call, m)) = 0 /\ One(Starting(call, m)) = 0
      BY <2>1 DEF Quiet, One
    <3>3. Share \in Nat /\ served[m] \in Nat
      BY DEF Share, One, SessionsInv, SessionsTypeOK
    <3> QED BY <3>1, <3>2, <3>3
  <2> QED BY <2>2, <2>3
<1> QED BY <1>1, SessionsInductive, PTL

(* When nothing failed, the last shutdown leaves no object, no thread, no   *)
(* bus and no count.                                                        *)
THEOREM LastSessionReleases == SessionsSpec /\ []OneAtATime => []EverythingIsReleased
<1>1. SessionsInv => EverythingIsReleased
  <2> SUFFICES ASSUME SessionsInv, \A m \in Modules : owed[m] = 0, clean,
                      \A c \in Callers : At(c, "idle")
               PROVE  /\ ~bus /\ ~LVWrapperValid /\ connectedModules = 0 /\ abandoned = {}
                      /\ \A m \in Modules : object[m] = "none" /\ clients[m] = 0
    BY DEF EverythingIsReleased
  <2> USE DEF SessionsInv
  <2>1. Quiet(call)
    BY NoCall DEF At
  <2>2. \A m \in Modules : One(Starting(call, m)) = 0
    BY <2>1 DEF Quiet, One
  <2>3. ~Held("FE") /\ ~Held("SigSrc") /\ Share = 0
    BY <2>2, Names DEF Held, Share, One
  <2>4. /\ clients["LORTM"] = 0 /\ clients["Compressor"] = 0
        /\ clients["FE"] = 0 /\ clients["SigSrc"] = 0
    BY <2>3, Names DEF CleanIsExact, SessionsAreCounted
  <2>5. ~valid["LORTM"] /\ ~valid["Compressor"]
    BY <2>2, <2>4, Names DEF CleanIsExact
  <2>6. \A m \in Modules : ~Held(m)
    BY <2>3, <2>5, Names DEF Held, Modules
  <2>7. Holding = 0 /\ abandoned = {}
    BY <2>1, <2>6, Names DEF Holding, One, CleanIsExact, Quiet
  <2>8. connectedModules = 0 /\ ~LVWrapperValid /\ ~bus
    <3>1. One(Counted(call) /\ ~Creating(call)) = 0
      BY <2>1 DEF Quiet, One
    <3> QED BY <2>7, <3>1 DEF CleanIsExact, BusIsHeld
  <2>9. \A m \in Modules : object[m] = "none" /\ clients[m] = 0
    BY <2>4, <2>6 DEF ObjectsAreHeld, Modules
  <2> QED BY <2>7, <2>8, <2>9
<1> QED BY <1>1, SessionsInductive, PTL

-----------------------------------------------------------------------------
(* What the exported calls use.                                             *)

(* The call k uses what it tested, its module's object apart. *)
Tested(k) == k = Call(k.checks, k.uses) /\ k.uses \subseteq k.checks \cup {"module"}

(* The shapes of call that the tables are made of test what they use. *)
LEMMA TestedShapes ==
  /\ \A checks : "cartridge" \in checks => Tested(Assembly(checks))
  /\ Tested(WCACall) /\ Tested(CCACall) /\ \A s : Tested(Slot(s))
  /\ \A checks : Tested(Call(checks, {})) /\ Tested(Call(checks, {"module"}))
  /\ Tested(Call({"cartridge", "WCA"}, {"cartridge", "WCA"}))
  /\ Tested(Call(WCAOn, {"cartridge", "WCA"})) /\ Tested(Call({"WCA"}, {"WCA"}))
  /\ "cartridge" \in CartOn /\ "cartridge" \in WCAOn /\ "cartridge" \in CCAOn
  /\ "cartridge" \in WCAOn \cup CCAOn
  BY DEF Tested, Call, Assembly, WCACall, CCACall, Slot, CartOn, WCAOn, CCAOn

(* To reach a call through the object of its module adds nothing else. *)
LEMMA ReachingTested ==
  ASSUME NEW calls, NEW names, \A n \in names : Tested(calls[n])
  PROVE  \A k \in Reaching(calls, names) : k.uses \subseteq k.checks \cup {"module"}
<1> SUFFICES ASSUME NEW n \in names
             PROVE  [calls[n] EXCEPT !.uses = @ \cup {"module"}].uses
                      \subseteq [calls[n] EXCEPT !.uses = @ \cup {"module"}].checks \cup {"module"}
  BY DEF Reaching
<1>1. Tested(calls[n])
  OBVIOUS
<1>2. [calls[n] EXCEPT !.uses = @ \cup {"module"}]
        = [checks |-> calls[n].checks, uses |-> calls[n].uses \cup {"module"}]
  BY <1>1 DEF Tested, Call
<1> QED BY <1>1, <1>2 DEF Tested

(* No call of the front end but those of Unguarded uses what it has not     *)
(* tested.                                                                  *)
LEMMA FrontEndTested == \A k \in FrontEndCalls : k.uses \subseteq k.checks \cup {"module"}
<1>1. \A c \in DOMAIN MonitorCalls \ Unguarded : Tested(MonitorCalls[c])
  BY TestedShapes DEF MonitorCalls, Unguarded
<1>2. \A c \in DOMAIN TuningCalls \ Unguarded : Tested(TuningCalls[c])
  BY TestedShapes DEF TuningCalls, Unguarded
<1>3. \A c \in DOMAIN BiasCalls \ Unguarded : Tested(BiasCalls[c])
  BY TestedShapes DEF BiasCalls, Unguarded
<1>4. \A c \in DOMAIN PowerAmpCalls \ Unguarded : Tested(PowerAmpCalls[c])
  BY TestedShapes DEF PowerAmpCalls, Unguarded
<1>5. \A c \in DOMAIN OptimizeCalls \ Unguarded : Tested(OptimizeCalls[c])
  BY TestedShapes DEF OptimizeCalls, Unguarded
<1>6. \A c \in DOMAIN MeasureCalls \ Unguarded : Tested(MeasureCalls[c])
  BY TestedShapes DEF MeasureCalls, Unguarded
<1>7. \A c \in DOMAIN EnableCalls \ Unguarded : Tested(EnableCalls[c])
  BY TestedShapes DEF EnableCalls, Unguarded
<1>8. \A c \in DOMAIN SwitchCalls \ Unguarded : Tested(SwitchCalls[c])
  BY TestedShapes DEF SwitchCalls, Unguarded
<1>9. \A c \in DOMAIN CryostatCalls \ Unguarded : Tested(CryostatCalls[c])
  BY TestedShapes DEF CryostatCalls, Unguarded
<1>10. \A c \in DOMAIN OpticsCalls \ Unguarded : Tested(OpticsCalls[c])
  BY TestedShapes DEF OpticsCalls, Unguarded
<1>11. \A c \in DOMAIN ControllerCalls \ Unguarded : Tested(ControllerCalls[c])
  BY TestedShapes DEF ControllerCalls, Unguarded
<1>12. \A c \in DOMAIN PowerCalls \ Unguarded : Tested(PowerCalls[c])
  BY TestedShapes DEF PowerCalls, Unguarded
<1>13. \A c \in DOMAIN HealthCalls \ Unguarded : Tested(HealthCalls[c])
  BY TestedShapes DEF HealthCalls, Unguarded
<1>14. \A c \in DOMAIN ConfigurationCalls \ Unguarded : Tested(ConfigurationCalls[c])
  BY TestedShapes DEF ConfigurationCalls, Unguarded
<1> QED BY <1>1, <1>2, <1>3, <1>4, <1>5, <1>6, <1>7, <1>8, <1>9, <1>10, <1>11, <1>12, <1>13,
           <1>14, ReachingTested
        DEF FrontEndCalls, Guarded

(* Nor does one of the other modules. *)
LEMMA OthersTested ==
  ASSUME NEW m \in {"SigSrc", "LORTM", "Compressor"}
  PROVE  \A k \in CallsOf(m) : k.uses \subseteq k.checks \cup {"module"}
<1>1. \A c \in MonitorExports : Tested(SourceMonitorCalls[c])
  BY TestedShapes DEF SourceMonitorCalls, MonitorExports
<1>2. \A c \in PowerExports \cup TuningExports : Tested(SourceTuningCalls[c])
  BY TestedShapes DEF SourceTuningCalls, PowerExports, TuningExports
<1>3. \A c \in BiasExports \cup PowerAmpExports \cup AMCExports \cup EnableExports :
         Tested(SourceBiasCalls[c])
  BY TestedShapes DEF SourceBiasCalls, BiasExports, PowerAmpExports, AMCExports, EnableExports
<1>4. \A c \in DOMAIN SigSrcCalls \ Unguarded : Tested(SigSrcCalls[c])
  BY TestedShapes DEF SigSrcCalls, Unguarded
<1>5. \A c \in DOMAIN LORTMCalls : Tested(LORTMCalls[c])
  BY TestedShapes DEF LORTMCalls
<1>6. \A c \in DOMAIN LORTMTuningCalls : Tested(LORTMTuningCalls[c])
  BY TestedShapes DEF LORTMTuningCalls
<1>7. \A c \in DOMAIN CompressorCalls : Tested(CompressorCalls[c])
  BY TestedShapes DEF CompressorCalls
<1>8. \A k \in SourceCalls \cup Guarded(SigSrcCalls) : k.uses \subseteq k.checks \cup {"module"}
  BY <1>1, <1>2, <1>3, <1>4, ReachingTested DEF SourceCalls, Guarded
<1>9. \A k \in All(LORTMCalls) \cup All(LORTMTuningCalls) \cup All(CompressorCalls) :
         k.uses \subseteq k.checks \cup {"module"}
  BY <1>5, <1>6, <1>7, ReachingTested DEF All
<1> QED BY <1>8, <1>9 DEF CallsOf

(* An exported call that passes its tests uses only objects that exist,     *)
(* whatever was added, removed or shut down before; the four calls of       *)
(* Unguarded apart, and those that find the front end marked valid by       *)
(* FELoadConfiguration when it has no object: no client whose own           *)
(* initialization of it succeeded meets that.                               *)
THEOREM GuardsSuffice == SessionsSpec /\ []OneAtATime => []CallsFindObjects
<1>1. SessionsInv => CallsFindObjects
  <2> SUFFICES ASSUME SessionsInv, NEW m \in Modules, valid[m], NEW p \in PortsOf(m),
                      NEW k \in CallsOf(m), k.checks \subseteq Present(m, p),
                      m = "FE" => object["FE"] # "none" \/ served["FE"] > 0
               PROVE  k.uses \subseteq Present(m, p)
    BY DEF CallsFindObjects
  <2>1. "module" \in Present(m, p)
    BY DEF SessionsInv, ObjectsAreHeld, SessionsAreCounted, Up, Present
  <2>2. k.uses \subseteq k.checks \cup {"module"}
    BY FrontEndTested, OthersTested DEF Modules, CallsOf
  <2> QED BY <2>1, <2>2
<1> QED BY <1>1, SessionsInductive, PTL
=============================================================================
