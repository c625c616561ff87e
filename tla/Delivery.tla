-------------------------------- MODULE Delivery --------------------------------
(***************************************************************************)
(* What a chat room promises, without the tables, the upgrade requests,    *)
(* the replays and the heartbeat that keep the promise: a socket lives     *)
(* once and carries nothing after its end, and a handler that has taken a  *)
(* message on does not rest before each member of the room was told, by a  *)
(* socket or by a notification.                                            *)
(***************************************************************************)
EXTENDS Sequences, Integers

CONSTANTS
  Socket, Handler,
  Nobody,         \* the owner of a socket without an upgrade request
  Message(_),     \* Message(p): the message that payload p brings, 0 for none
  Revocation(_),  \* whether a payload tells the end of the access
  Lossy           \* whether handlers may be lost

VARIABLES
  phase,      \* phase[s]: "new", "live" or "over"
  owner,      \* owner[s]: the user of s
  feed,       \* feed[s]: what s has carried
  notified,   \* the notifications: <<user, message>>
  duty        \* duty[h]: <<user, message>>: whom h has still to tell

vars == <<phase, owner, feed, notified, duty>>

Told(u, m) ==
  \/ <<u, m>> \in notified
  \/ \E s \in Socket : owner[s] = u /\ \E i \in DOMAIN feed[s] : Message(feed[s][i]) = m

Init ==
  /\ phase = [s \in Socket |-> "new"]
  /\ owner = [s \in Socket |-> Nobody]
  /\ feed = [s \in Socket |-> <<>>]
  /\ notified = {}
  /\ duty = [h \in Handler |-> {}]

-----------------------------------------------------------------------------

(* A socket is claimed by its user; it opens, or is refused.               *)
Claim(s) ==
  /\ phase[s] = "new" /\ owner[s] = Nobody
  /\ phase'[s] = "new" /\ feed'[s] = feed[s]

Open(s) ==
  /\ phase[s] = "new" /\ owner[s] # Nobody
  /\ phase'[s] \in {"live", "over"}
  /\ <<owner'[s], feed'[s]>> = <<owner[s], feed[s]>>

(* A live socket carries payloads, none of them a revocation.              *)
Carry(s) ==
  LET old == Len(feed[s]) IN
  /\ phase[s] = "live"
  /\ <<phase'[s], owner'[s]>> = <<phase[s], owner[s]>>
  /\ Len(feed'[s]) >= old /\ SubSeq(feed'[s], 1, old) = feed[s]
  /\ \A i \in old + 1 .. Len(feed'[s]) : ~Revocation(feed'[s][i])

(* A live socket ends, perhaps with a revocation as its last payload.      *)
End(s) ==
  LET old == Len(feed[s]) IN
  /\ phase[s] = "live" /\ phase'[s] = "over"
  /\ owner'[s] = owner[s]
  /\ \/ feed'[s] = feed[s]
     \/ /\ Len(feed'[s]) = old + 1 /\ SubSeq(feed'[s], 1, old) = feed[s]
        /\ Revocation(feed'[s][old + 1])

Rest(s) == <<phase'[s], owner'[s], feed'[s]>> = <<phase[s], owner[s], feed[s]>>

(* One event of the room may move several sockets: a broadcast ends those  *)
(* that it fails to reach.                                                 *)
Sockets == \A s \in Socket : Rest(s) \/ Claim(s) \/ Open(s) \/ Carry(s) \/ End(s)

(* A handler tells members of its duty, or takes a message on, or is lost. *)
Discharge(h) == duty'[h] = {d \in duty[h] : ~Told(d[1], d[2])'}

Accept(h) ==
  /\ duty[h] = {}
  /\ \E m \in {d[2] : d \in duty'[h]} : \A d \in duty'[h] : d[2] = m /\ ~Told(d[1], m)'

Lose(h) == Lossy /\ duty'[h] = {}

Handlers == \A h \in Handler : Discharge(h) \/ Accept(h) \/ Lose(h)

Next == Sockets /\ Handlers /\ notified \subseteq notified'

Spec == Init /\ [][Next]_vars

=============================================================================
