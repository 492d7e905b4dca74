---------------------------- MODULE RoomService -----------------------------
(***************************************************************************)
(* What the hub promises its callers: sockets come on line, join and leave *)
(* rooms, and go off line; a message is sent to exactly the sockets that   *)
(* are in its room at one instant (or to all that are on line), less its   *)
(* Except list, and nobody joins, leaves, comes or goes while it is being  *)
(* delivered.                                                              *)
(***************************************************************************)
CONSTANTS Sockets, Rooms, None

VARIABLES
  in,        \* the rooms a socket is in
  online,    \* the sockets that are registered
  to,        \* the room of the message being delivered, None for a broadcast
  except,    \* its Except list
  inflight   \* the sockets it still has to reach

abstractVars == <<in, online, to, except, inflight>>
message == <<to, except, inflight>>

Init ==
  /\ in = [s \in Sockets |-> {}]
  /\ online = {}
  /\ to = None /\ except = {} /\ inflight = {}

ComeOnline(s) ==
  /\ inflight = {} /\ s \notin online
  /\ online' = online \cup {s}
  /\ UNCHANGED <<in, message>>

GoOffline(s) ==
  /\ inflight = {} /\ s \in online
  /\ online' = online \ {s}
  /\ UNCHANGED <<in, message>>

Join(s, r) ==
  /\ inflight = {}
  /\ in' = [in EXCEPT ![s] = @ \cup {r}]
  /\ UNCHANGED <<online, message>>

Leave(s, r) ==
  /\ inflight = {}
  /\ in' = [in EXCEPT ![s] = @ \ {r}]
  /\ UNCHANGED <<online, message>>

Cast(r, ex) ==
  /\ inflight = {}
  /\ to' = r /\ except' = ex
  /\ inflight' = {s \in (IF r = None THEN online ELSE {m \in Sockets : r \in in[m]}) :
                    s \notin ex}
  /\ UNCHANGED <<in, online>>

Deliver(s) ==
  /\ s \in inflight
  /\ inflight' = inflight \ {s}
  /\ UNCHANGED <<in, online, to, except>>

\* The message has been delivered and is forgotten.
Finish ==
  /\ inflight = {}
  /\ to' = None /\ except' = {}
  /\ UNCHANGED <<in, online, inflight>>

Next ==
  \/ \E s \in Sockets : ComeOnline(s) \/ GoOffline(s) \/ Deliver(s)
  \/ \E s \in Sockets, r \in Rooms : Join(s, r) \/ Leave(s, r)
  \/ \E r \in Rooms \cup {None}, ex \in SUBSET Sockets : Cast(r, ex)
  \/ Finish

Spec == Init /\ [][Next]_abstractVars
=============================================================================
