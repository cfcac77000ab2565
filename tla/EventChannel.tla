---------------------------- MODULE EventChannel ----------------------------
(* What the event queue promises its users: a channel that numbers whatever *)
(* is sent, keeps what is sent while it is open, in the order of sending,   *)
(* and hands each of these out once.  It may be closed with something in    *)
(* it, and it may be replaced by a new one.                                 *)
EXTENDS Naturals, Sequences

VARIABLES open, next, channel

channelVars == <<open, next, channel>>

Init == open = FALSE /\ next = 1 /\ channel = <<>>

Send ==
  /\ next' = next + 1
  /\ channel' = IF open THEN Append(channel, next) ELSE channel
  /\ UNCHANGED open

Take ==
  /\ channel # <<>>
  /\ channel' = Tail(channel)
  /\ UNCHANGED <<open, next>>

OpenOrClose ==
  /\ open' = ~open
  /\ UNCHANGED <<next, channel>>

Renew == open' = FALSE /\ next' = 1 /\ channel' = <<>>

Next == Send \/ Take \/ OpenOrClose \/ Renew

Spec == Init /\ [][Next]_channelVars
=============================================================================
