------------------------------ MODULE WsServer ------------------------------
(***************************************************************************)
(* The server of package websocket (websocket.go): Listen and Stop, the    *)
(* goroutine that accepts (acceptConnections), the handshake of a          *)
(* connection by its goroutine (handleConnection, upgrade) with a Client   *)
(* at the other end (Connect, handshake), and the rooms of the server      *)
(* (JoinRoom, LeaveRoom, BroadcastToRoom).                                 *)
(*                                                                         *)
(* Listen makes a listener each time: s.listener is the number of the      *)
(* Listen that made it, or nil after one that failed, and it is open       *)
(* exactly while the server runs.  stopCh is made once, by NewServer.  A   *)
(* room is a Go map with an identity, because a broadcast ranges over the  *)
(* map it found after it has released roomsMu.                             *)
(* What happens on a connection after its handshake is in WsConn.          *)
(***************************************************************************)
EXTENDS Naturals, FiniteSets

CONSTANTS
  Conns,            \* connections
  Rooms, Maps,      \* names of rooms, and the map[*Conn]struct{} values
  Casters,          \* goroutines that call BroadcastToRoom
  MaxListens,       \* bound on the calls of Listen that succeed
  Deadlines,        \* HandshakeTimeout > 0
  None

Acceptors == 1 .. MaxListens

ASSUME ServerAssumption ==
  /\ MaxListens \in Nat /\ Deadlines \in BOOLEAN
  /\ None \notin Maps /\ None \notin Conns

VARIABLES
  running,    \* s.running
  listener,   \* s.listener: the Listen that made it, 0 if it is nil
  listens,    \* the number of listeners made
  stopped,    \* stopCh is closed
  acc,        \* where the acceptor started by a Listen is
  at,         \* the listener it waits on
  srv,        \* the server's end of a connection
  cli,        \* the client's end: Connect
  reply,      \* what upgrade has written
  rooms,      \* s.rooms: the map of a room
  maps,       \* the contents of the maps
  range,      \* the map a caster ranges over
  must, seen, \* entries the range has yet to yield, and those it has
  crashed,    \* "no", "panic" or "race": the process has ended
  \* For the properties only:
  member,     \* who has joined and not left
  of,         \* the room a caster broadcasts to
  stay, ever, \* who was in it throughout, and who at any time
  sent        \* how often it was written to

lifeVars == <<running, listener, listens, stopped, acc, at>>
connVars == <<srv, cli, reply>>
roomVars == <<rooms, maps, range, must, seen, member, of, stay, ever, sent>>
vars == <<lifeVars, connVars, roomVars, crashed>>

Init ==
  /\ running = FALSE /\ listener = 0 /\ listens = 0 /\ stopped = FALSE
  /\ acc = [a \in Acceptors |-> "none"] /\ at = [a \in Acceptors |-> 0]
  /\ srv = [c \in Conns |-> "none"]
  /\ cli = [c \in Conns |-> "none"] /\ reply = [c \in Conns |-> "none"]
  /\ rooms = [r \in Rooms |-> None] /\ maps = [m \in Maps |-> {}]
  /\ range = [b \in Casters |-> None]
  /\ must = [b \in Casters |-> {}] /\ seen = [b \in Casters |-> {}]
  /\ member = [r \in Rooms |-> {}] /\ of = [b \in Casters |-> None]
  /\ stay = [b \in Casters |-> {}] /\ ever = [b \in Casters |-> {}]
  /\ sent = [b \in Casters |-> [c \in Conns |-> 0]]
  /\ crashed = "no"

Live == crashed = "no"

Open(l) == running /\ l = listener

-----------------------------------------------------------------------------
(* Listen and Stop: each holds s.mu throughout.                            *)

Listen ==
  /\ Live /\ ~running /\ listens < MaxListens
  /\ running' = TRUE
  /\ listens' = listens + 1
  /\ listener' = listens + 1
  /\ acc' = [acc EXCEPT ![listens + 1] = "select"]
  /\ UNCHANGED <<stopped, at, connVars, roomVars, crashed>>

\* The address cannot be listened on: s.listener is nil from now on, also for
\* an acceptor of an earlier Listen that has not ended yet.
ListenFails ==
  /\ Live /\ ~running
  /\ listener' = 0
  /\ UNCHANGED <<running, listens, stopped, acc, at, connVars, roomVars, crashed>>

\* close panics when an earlier Stop has closed stopCh.
StopPanics ==
  /\ Live /\ running /\ stopped
  /\ crashed' = "panic"
  /\ UNCHANGED <<lifeVars, connVars, roomVars>>

\* Closing the listener resets what waits in its backlog.
CloseListener ==
  srv' = [c \in Conns |-> IF srv[c] = "backlog" THEN "end" ELSE srv[c]]

Stop ==
  /\ Live /\ running /\ ~stopped
  /\ stopped' = TRUE
  /\ running' = FALSE
  /\ CloseListener
  /\ UNCHANGED <<listener, listens, acc, at, cli, reply, roomVars, crashed>>

-----------------------------------------------------------------------------
(* acceptConnections                                                       *)

\* Mutant of AccSelect: the loop does not look at stopCh.
AccSelectEndless(a) ==
  /\ Live /\ acc[a] = "select"
  /\ acc' = [acc EXCEPT ![a] = "load"]
  /\ UNCHANGED <<running, listener, listens, stopped, at, connVars, roomVars, crashed>>

AccSelect(a) ==
  /\ Live /\ acc[a] = "select"
  /\ acc' = [acc EXCEPT ![a] = IF stopped THEN "done" ELSE "load"]
  /\ UNCHANGED <<running, listener, listens, stopped, at, connVars, roomVars, crashed>>

\* s.listener is read without s.mu: it may be the one of a later Listen.
AccLoad(a) ==
  /\ Live /\ acc[a] = "load" /\ listener # 0
  /\ acc' = [acc EXCEPT ![a] = "accept"]
  /\ at' = [at EXCEPT ![a] = listener]
  /\ UNCHANGED <<running, listener, listens, stopped, connVars, roomVars, crashed>>

\* A later Listen has failed: Accept is called on a nil listener.
AccLoadNil(a) ==
  /\ Live /\ acc[a] = "load" /\ listener = 0
  /\ crashed' = "panic"
  /\ UNCHANGED <<lifeVars, connVars, roomVars>>

\* Accept returns a connection, which gets a goroutine of its own.
Accept(a) ==
  /\ Live /\ acc[a] = "accept" /\ Open(at[a])
  /\ \E c \in Conns :
       /\ srv[c] = "backlog"
       /\ srv' = [srv EXCEPT ![c] = "upgrade"]
  /\ acc' = [acc EXCEPT ![a] = "select"]
  /\ at' = [at EXCEPT ![a] = 0]
  /\ UNCHANGED <<running, listener, listens, stopped, cli, reply, roomVars, crashed>>

\* Mutant of AcceptError: the loop is left on any error.
AcceptErrorEnds(a) ==
  /\ Live /\ acc[a] = "accept"
  /\ acc' = [acc EXCEPT ![a] = "done"]
  /\ at' = [at EXCEPT ![a] = 0]
  /\ UNCHANGED <<running, listener, listens, stopped, connVars, roomVars, crashed>>

\* Accept fails because the listener is closed, or for a reason of the
\* network: onError is called and the loop goes on.
AcceptError(a) ==
  /\ Live /\ acc[a] = "accept"
  /\ acc' = [acc EXCEPT ![a] = "select"]
  /\ at' = [at EXCEPT ![a] = 0]
  /\ UNCHANGED <<running, listener, listens, stopped, connVars, roomVars, crashed>>

AcceptClosed(a) == ~Open(at[a]) /\ AcceptError(a)

-----------------------------------------------------------------------------
(* Client.Connect                                                          *)

ClientTo(c, label) == cli' = [cli EXCEPT ![c] = label]

\* The kernel completes the connection while the listener is open.
Dial(c) ==
  /\ Live /\ cli[c] = "none" /\ running
  /\ ClientTo(c, "dialled")
  /\ srv' = [srv EXCEPT ![c] = "backlog"]
  /\ UNCHANGED <<lifeVars, reply, roomVars, crashed>>

\* The request is written; a peer that is not this Client may not do so.
Request(c) ==
  /\ Live /\ cli[c] = "dialled" /\ srv[c] # "end"
  /\ ClientTo(c, "wait")
  /\ UNCHANGED <<lifeVars, srv, reply, roomVars, crashed>>

\* The request cannot be written, or the connection ends without a reply.
ConnectFails(c) ==
  /\ Live /\ cli[c] \in {"dialled", "wait"} /\ srv[c] = "end" /\ reply[c] = "none"
  /\ ClientTo(c, "failed")
  /\ UNCHANGED <<lifeVars, srv, reply, roomVars, crashed>>

\* ReadResponse and validateResponse; there is no deadline at this end.
ReadResponse(c) ==
  /\ Live /\ cli[c] = "wait" /\ reply[c] # "none"
  /\ ClientTo(c, IF reply[c] = "101" THEN "open" ELSE "failed")
  /\ UNCHANGED <<lifeVars, srv, reply, roomVars, crashed>>

-----------------------------------------------------------------------------
(* handleConnection and upgrade                                            *)

\* The request is read and valid, the response written; onConnection is
\* called.
Upgrade(c) ==
  /\ Live /\ srv[c] = "upgrade" /\ cli[c] = "wait"
  /\ srv' = [srv EXCEPT ![c] = "serve"]
  /\ reply' = [reply EXCEPT ![c] = "101"]
  /\ UNCHANGED <<lifeVars, cli, roomVars, crashed>>

\* validateHandshake refuses: the method, a header, the origin or CheckAuth.
\* The net.Conn is closed by the deferred call.
Refuse(c) ==
  /\ Live /\ srv[c] = "upgrade" /\ cli[c] = "wait"
  /\ srv' = [srv EXCEPT ![c] = "end"]
  /\ reply' = [reply EXCEPT ![c] = "error"]
  /\ UNCHANGED <<lifeVars, cli, roomVars, crashed>>

\* Mutant of UpgradeFails: no deadline is set before the upgrade.
UpgradeFailsUntimed(c) ==
  /\ Live /\ srv[c] = "upgrade" /\ cli[c] = "wait"
  /\ srv' = [srv EXCEPT ![c] = "end"]
  /\ UNCHANGED <<lifeVars, cli, reply, roomVars, crashed>>

\* The deadline passes before the request is there, or reading it or
\* writing the response fails.
UpgradeFails(c) ==
  /\ Live /\ srv[c] = "upgrade" /\ (Deadlines \/ cli[c] = "wait")
  /\ srv' = [srv EXCEPT ![c] = "end"]
  /\ UNCHANGED <<lifeVars, cli, reply, roomVars, crashed>>

-----------------------------------------------------------------------------
(* Rooms                                                                   *)

\* The application has the *Conn from onConnection on, and keeps it.
Known(c) == reply[c] = "101"

Fresh(m) == (\A r \in Rooms : rooms[r] # m) /\ \A b \in Casters : range[b] # m

\* c enters map m, which is the map of room r from now on.  A range over m
\* may or may not yield it.
Put(r, m, entries) ==
  /\ rooms' = [rooms EXCEPT ![r] = m]
  /\ maps' = [maps EXCEPT ![m] = entries]

Joined(r, c) ==
  /\ member' = [member EXCEPT ![r] = @ \cup {c}]
  /\ ever' = [b \in Casters |-> IF of[b] = r THEN ever[b] \cup {c} ELSE ever[b]]

\* Mutant of JoinRoom: a join always makes the map.
JoinRoomAnew(r, c) ==
  /\ Live /\ Known(c) /\ c \notin member[r]
  /\ \E m \in Maps : Fresh(m) /\ Put(r, m, {c})
  /\ Joined(r, c)
  /\ UNCHANGED <<lifeVars, connVars, range, must, seen, of, stay, sent, crashed>>

JoinRoom(r, c) ==
  /\ Live /\ Known(c)
  /\ \/ /\ rooms[r] = None
        /\ \E m \in Maps : Fresh(m) /\ Put(r, m, {c})
     \/ /\ rooms[r] # None
        /\ Put(r, rooms[r], maps[rooms[r]] \cup {c})
  /\ Joined(r, c)
  /\ UNCHANGED <<lifeVars, connVars, range, must, seen, of, stay, sent, crashed>>

\* The last to leave deletes the map.  An entry that is deleted is yielded
\* no more, and may be yielded again if it comes back.
LeaveRoom(r, c) ==
  /\ Live /\ Known(c) /\ rooms[r] # None
  /\ maps' = [maps EXCEPT ![rooms[r]] = @ \ {c}]
  /\ rooms' = [rooms EXCEPT ![r] = IF maps[@] \subseteq {c} THEN None ELSE @]
  /\ must' = [b \in Casters |-> IF range[b] = rooms[r] THEN must[b] \ {c} ELSE must[b]]
  /\ seen' = [b \in Casters |-> IF range[b] = rooms[r] THEN seen[b] \ {c} ELSE seen[b]]
  /\ member' = [member EXCEPT ![r] = @ \ {c}]
  /\ stay' = [b \in Casters |-> IF of[b] = r THEN stay[b] \ {c} ELSE stay[b]]
  /\ UNCHANGED <<lifeVars, connVars, range, of, ever, sent, crashed>>

\* The map is read under roomsMu.
BroadcastToRoom(b, r) ==
  /\ Live /\ range[b] = None
  /\ range' = [range EXCEPT ![b] = rooms[r]]
  /\ must' = [must EXCEPT ![b] = IF rooms[r] = None THEN {} ELSE maps[rooms[r]]]
  /\ of' = [of EXCEPT ![b] = IF rooms[r] = None THEN None ELSE r]
  /\ stay' = [stay EXCEPT ![b] = member[r]]
  /\ ever' = [ever EXCEPT ![b] = member[r]]
  /\ UNCHANGED <<lifeVars, connVars, rooms, maps, seen, sent, member, crashed>>

\* The range yields an entry and WriteMessage is called, whose error, if
\* the connection is closed, is ignored.
CastNext(b) ==
  /\ Live /\ range[b] # None
  /\ \E c \in maps[range[b]] \ seen[b] :
       /\ must' = [must EXCEPT ![b] = @ \ {c}]
       /\ seen' = [seen EXCEPT ![b] = @ \cup {c}]
       /\ sent' = [sent EXCEPT ![b][c] = IF @ = 2 THEN 2 ELSE @ + 1]
  /\ UNCHANGED <<lifeVars, connVars, rooms, maps, range, member, of, stay, ever, crashed>>

\* The range ends when it has yielded what was there all along.
CastEnds(b) ==
  /\ Live /\ range[b] # None /\ must[b] = {}
  /\ range' = [range EXCEPT ![b] = None]
  /\ seen' = [seen EXCEPT ![b] = {}]
  /\ of' = [of EXCEPT ![b] = None]
  /\ stay' = [stay EXCEPT ![b] = {}]
  /\ ever' = [ever EXCEPT ![b] = {}]
  /\ sent' = [sent EXCEPT ![b] = [c \in Conns |-> 0]]
  /\ UNCHANGED <<lifeVars, connVars, rooms, maps, must, member, crashed>>

\* The runtime notices that a map is written while it is ranged over.
RaceAbort ==
  /\ Live /\ \E b \in Casters, r \in Rooms : range[b] # None /\ range[b] = rooms[r]
  /\ crashed' = "race"
  /\ UNCHANGED <<lifeVars, connVars, roomVars>>

\* Nothing happens after the end of the process.
Crashed == ~Live /\ UNCHANGED vars

-----------------------------------------------------------------------------
AcceptorStep(a) == AccSelect(a) \/ AccLoad(a) \/ AccLoadNil(a) \/ AcceptClosed(a)

HandshakeStep(c) == Upgrade(c) \/ Refuse(c) \/ UpgradeFails(c)

ClientStep(c) == ConnectFails(c) \/ ReadResponse(c)

Next ==
  \/ Listen \/ ListenFails \/ Stop \/ StopPanics
  \/ \E a \in Acceptors : AcceptorStep(a) \/ Accept(a) \/ AcceptError(a)
  \/ \E c \in Conns : Dial(c) \/ Request(c) \/ ClientStep(c) \/ HandshakeStep(c)
  \/ \E r \in Rooms, c \in Conns : JoinRoom(r, c) \/ LeaveRoom(r, c)
  \/ \E b \in Casters, r \in Rooms : BroadcastToRoom(b, r)
  \/ \E b \in Casters : CastNext(b) \/ CastEnds(b)
  \/ RaceAbort \/ Crashed

Spec == Init /\ [][Next]_vars

\* Goroutines that can run do run; Accept does not fail for ever while
\* connections wait; the deadline passes.
Fairness ==
  /\ \A a \in Acceptors : WF_vars(AcceptorStep(a)) /\ SF_vars(Accept(a))
  /\ \A c \in Conns : WF_vars(HandshakeStep(c)) /\ WF_vars(ClientStep(c))

FairSpec == Spec /\ Fairness

-----------------------------------------------------------------------------
(* Properties                                                              *)

\* When a broadcast may end it has called WriteMessage once for every
\* connection that was in the room from its start on, although others joined
\* and left, emptied the room and made its map again; and for none that was
\* never in the room meanwhile.
BroadcastReaches ==
  \A b \in Casters :
    /\ must[b] = {} => \A c \in stay[b] : sent[b][c] = 1
    /\ \A c \in Conns : sent[b][c] > 0 => c \in ever[b]

\* Once the server is stopped, the goroutine that accepts ends, wherever
\* Stop has found it, unless Listen is called again.
AcceptorEnds ==
  \A a \in Acceptors : stopped /\ ~running ~> acc[a] \in {"none", "done"} \/ running \/ ~Live

\* A peer that does not complete its handshake does not keep the goroutine
\* of its connection: the deadline ends it.
HandshakeEnds == \A c \in Conns : srv[c] = "upgrade" ~> srv[c] # "upgrade" \/ ~Live

\* Connect, which sets no deadline, returns: the server replies, closes or
\* resets, also when it is stopped meanwhile; unless it was started again.
ConnectReturns ==
  \A c \in Conns : cli[c] = "wait" ~> cli[c] # "wait" \/ listens > 1 \/ ~Live

=============================================================================
