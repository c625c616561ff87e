------------------------------ MODULE ChatDelivery ------------------------------
(* The handlers and the Durable Object of ChatRoom keep the promise of     *)
(* Delivery.                                                               *)
EXTENDS ChatRoom

Phase(s) ==
  IF s \in sessions THEN "live"
  ELSE IF conn[s].step \in {"free", "checked", "admitted"} THEN "new" ELSE "over"

(* A handler that knows the members has to tell each of them but the       *)
(* sender, as long as neither a socket nor a notification did.             *)
Duty(r) ==
  IF request[r].step # "notify" THEN {}
  ELSE {<<u, request[r].msg>> : u \in
          {v \in request[r].members \ {request[r].user} :
             ~Sent(v, request[r].msg) /\ <<v, request[r].msg>> \notin notified}}

MessageOf(p) == IF p.type = "new_message" THEN p.msg ELSE 0

Promise ==
  INSTANCE Delivery
    WITH Handler <- Request,
         Message <- MessageOf,
         Revocation <- LAMBDA p : p.type = "access_revoked",
         Lossy <- "request" \in Fault,
         phase <- [s \in Socket |-> Phase(s)],
         owner <- [s \in Socket |-> conn[s].user],
         feed <- wire,
         duty <- [r \in Request |-> Duty(r)]

(* The room keeps its promise: every step of the handlers, of the Durable  *)
(* Object and of the browsers is one that Delivery allows.  A socket is    *)
(* opened once, carries nothing after a revocation or its end, and the     *)
(* handler of a message answers only when every member was told.           *)
KeepsPromise == Promise!Spec

=============================================================================
