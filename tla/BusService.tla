----------------------------- MODULE BusService -----------------------------
(***************************************************************************)
(* What CANBusInterface promises to a thread that sends a request and      *)
(* waits on its semaphore (FEHardwareDevice::syncMonitor, syncCommand,     *)
(* AmbInterface::findSN): requests are accepted into one line, the line is *)
(* served from its head, and each request is answered once, before its     *)
(* sender goes on.  No thread, lock, handle or completion block here.      *)
(***************************************************************************)
EXTENDS Naturals, Sequences, SequencesExt

CONSTANT Client     \* the threads that issue requests

VARIABLES
    line,           \* requests accepted and not yet answered, oldest first
    stage           \* stage[c]: where the request of c stands

vars == <<line, stage>>

Stages == {"none", "asked", "accepted", "answered"}

TypeOK == /\ line \in Seq(Client)
          /\ stage \in [Client -> Stages]

Init == /\ line = <<>>
        /\ stage = [c \in Client |-> "none"]

Ask(c) == /\ stage[c] = "none"
          /\ stage' = [stage EXCEPT ![c] = "asked"]
          /\ UNCHANGED line

Accept(c) == /\ stage[c] = "asked"
             /\ stage' = [stage EXCEPT ![c] = "accepted"]
             /\ line' = Append(line, c)

\* The bus is closing or the channel cannot be opened.
Refuse(c) == /\ stage[c] = "asked"
             /\ stage' = [stage EXCEPT ![c] = "answered"]
             /\ UNCHANGED line

Serve == /\ line # <<>>
         /\ stage' = [stage EXCEPT ![Head(line)] = "answered"]
         /\ line' = Tail(line)

\* Shutting down answers everything that is in the line.
ServeAll == /\ line # <<>>
            /\ stage' = [c \in Client |->
                            IF Contains(line, c) THEN "answered" ELSE stage[c]]
            /\ line' = <<>>

Return(c) == /\ stage[c] = "answered"
             /\ stage' = [stage EXCEPT ![c] = "none"]
             /\ UNCHANGED line

Next == \/ Serve
        \/ ServeAll
        \/ \E c \in Client : Ask(c) \/ Accept(c) \/ Refuse(c) \/ Return(c)

Spec == Init /\ [][Next]_vars
=============================================================================
