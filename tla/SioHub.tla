------------------------------- MODULE SioHub -------------------------------
(***************************************************************************)
(* The core of package sio: the hub goroutine (hub.go), the sockets with   *)
(* their loop and Ping goroutines (socket.go, server.go) and the           *)
(* goroutines of the application that call the API: event handlers and     *)
(* callbacks (Handlers) and callers of Server.Shutdown (Stoppers).         *)
(*                                                                         *)
(* The hub owns the registry of sockets and the rooms and is reached only  *)
(* over unbuffered channels.  A send is a rendezvous: it completes when    *)
(* the hub RECEIVES the request, and the hub APPLIES it in a later step,   *)
(* so the sender may run on in between.  The goroutine that serves a       *)
(* connection (Server.loop) is named by its socket.                        *)
(*                                                                         *)
(* pc[t] is where goroutine t is, me[t] the socket its call is about,      *)
(* op[t] the API call in progress, arg[t] its room and todo[t] the rooms   *)
(* still to be left.  The mutexes Socket.roomsl and Socket.l are not       *)
(* variables: who holds them follows from the program counters.            *)
(***************************************************************************)
EXTENDS Naturals

CONSTANTS
  Sockets,      \* the connections (and their loop goroutines)
  AppRooms,     \* rooms named by the application
  Handlers,     \* goroutines running application code
  Stoppers,     \* goroutines that call Server.Shutdown once
  Activity,     \* what happens: API calls made, "backend" set, ticker ticks
  MaxPublish,   \* bound on the goroutines publishing to the backend
  None          \* "no socket", "no room"

ASSUME HubAssumption ==
  /\ Sockets \cap Handlers = {}
  /\ Sockets \cap Stoppers = {}
  /\ Handlers \cap Stoppers = {}
  /\ Sockets \cap AppRooms = {}
  /\ None \notin Sockets \cup AppRooms
  /\ Activity \subseteq {"join", "leave", "leaveall", "close", "emit", "cast",
                       "socketlist", "roomlist", "backend", "tick"}
  /\ MaxPublish \in Nat

Threads == Sockets \cup Handlers \cup Stoppers

\* The room "__socket_id:"+id that every socket joins first.
OwnRoom(s) == s
Rooms == AppRooms \cup Sockets

VARIABLES
  pc, me, op, arg, todo,       \* the goroutines
  list, rest,                  \* Shutdown: the socket list, and what is left of it
  closed, ws, rooms, ping,     \* the sockets: those with the flag set, connection,
                               \* s.rooms, Ping goroutine
  hpc, hs, hr, hx, htodo,      \* the hub: request in hand, its socket, room and
                               \* Except list, the receivers still to be served
  hubSockets, hubRooms, members, \* h.sockets, the keys of h.rooms, room.sockets
  backend, publishing,         \* the Adapter, goroutines calling its ...ToBackend
  fatal                        \* the runtime aborted on a concurrent map access

threadVars == <<pc, me, op, arg, todo>>
stopVars   == <<list, rest>>
sockVars   == <<closed, ws, rooms, ping>>
hubCtl     == <<hpc, hs, hr, hx, htodo>>
hubData    == <<hubSockets, hubRooms, members>>
backVars   == <<backend, publishing>>
vars == <<threadVars, stopVars, sockVars, hubCtl, hubData, backVars, fatal>>

-----------------------------------------------------------------------------
(* Mutexes                                                                 *)

\* Points at which a goroutine holds its socket's roomsl.
RoomsCritical == {"jsend", "jset", "lsend", "ldel"}

\* Mutant of RoomsLockFree: roomsl is never taken.
RoomsLockIgnored(s) == TRUE

RoomsLockFree(s) == \A t \in Threads : ~(me[t] = s /\ pc[t] \in RoomsCritical)

\* Socket.l is held for the length of a write, by the hub (hs, while it
\* dispatches) or by Emit.
EmitLockFree(s) ==
  /\ ~(hpc \in {"dispatch", "relay"} /\ hs = s)
  /\ \A t \in Threads : ~(me[t] = s /\ pc[t] = "write")

-----------------------------------------------------------------------------
(* Control flow                                                            *)

\* Sockets that application code can hold a pointer to: listed by
\* SocketList, or passed to a callback or an event handler by their loop.
Known(s) ==
  \/ s \in hubSockets
  \/ pc[s] \notin {"new", "add", "added", "jlock", "jsend", "jset"}

Goto(t, label) == pc' = [pc EXCEPT ![t] = label]

\* An API call of t returns: the loop goroutine goes on, a handler has
\* finished, Shutdown closes the next socket of its list.
Return(t, label) ==
  /\ Goto(t, IF t \in Sockets THEN label
             ELSE IF t \in Handlers THEN "idle" ELSE "sclose")
  /\ me' = [me EXCEPT ![t] = IF t \in Sockets THEN t ELSE None]
  /\ op' = [op EXCEPT ![t] = "none"]
  /\ arg' = [arg EXCEPT ![t] = None]
  /\ todo' = [todo EXCEPT ![t] = {}]

\* t moves on, and nothing else changes.
Advance(t, from, label) ==
  /\ pc[t] = from
  /\ Goto(t, label)
  /\ UNCHANGED <<me, op, arg, todo, stopVars, sockVars, hubCtl, hubData, backVars, fatal>>

\* The call of t returns, and nothing else changes.
Finish(t, from, label) ==
  /\ pc[t] = from
  /\ Return(t, label)
  /\ UNCHANGED <<stopVars, sockVars, hubCtl, hubData, backVars, fatal>>

Call(t, s, o, r, label) ==
  /\ Goto(t, label)
  /\ me' = [me EXCEPT ![t] = s]
  /\ op' = [op EXCEPT ![t] = o]
  /\ arg' = [arg EXCEPT ![t] = r]

-----------------------------------------------------------------------------
Init ==
  /\ pc = [t \in Threads |-> IF t \in Sockets THEN "new" ELSE "idle"]
  /\ me = [t \in Threads |-> IF t \in Sockets THEN t ELSE None]
  /\ op = [t \in Threads |-> "none"]
  /\ arg = [t \in Threads |-> None]
  /\ todo = [t \in Threads |-> {}]
  /\ list = [t \in Stoppers |-> {}]
  /\ rest = [t \in Stoppers |-> {}]
  /\ closed = {}
  /\ ws = [s \in Sockets |-> "none"]
  /\ rooms = [s \in Sockets |-> {}]
  /\ ping = [s \in Sockets |-> "none"]
  /\ hpc = "select" /\ hs = None /\ hr = None /\ hx = {} /\ htodo = {}
  /\ hubSockets = {} /\ hubRooms = {} /\ members = [r \in Rooms |-> {}]
  /\ backend = "none" /\ publishing = 0
  /\ fatal = FALSE

-----------------------------------------------------------------------------
(* Server.loop, the goroutine of one connection                            *)

\* The upgrade succeeded; newSocket builds the socket and sends it to the hub.
Connect(s) ==
  /\ pc[s] = "new"
  /\ Goto(s, "add")
  /\ ws' = [ws EXCEPT ![s] = "open"]
  /\ UNCHANGED <<me, op, arg, todo, stopVars, closed, rooms, ping,
                 hubCtl, hubData, backVars, fatal>>

\* newSocket starts Ping and returns; loop joins the socket's own room.
StartLoop(s) ==
  /\ pc[s] = "added"
  /\ Call(s, s, "join", OwnRoom(s), "jlock")
  /\ ping' = [ping EXCEPT ![s] = "select"]
  /\ UNCHANGED <<todo, stopVars, closed, ws, rooms, hubCtl, hubData, backVars, fatal>>

\* receive fails, because the connection was closed here or at the other
\* end, and the deferred Close runs.
LoopEnds(s) ==
  /\ pc[s] = "recv"
  /\ Call(s, s, "close", None, "flag")
  /\ UNCHANGED <<todo, stopVars, sockVars, hubCtl, hubData, backVars, fatal>>

-----------------------------------------------------------------------------
(* Calls that application code makes                                       *)

CallFrom(t, s, o, r, label) ==
  /\ pc[t] = "idle" /\ o \in Activity
  /\ Known(s)
  /\ Call(t, s, o, r, label)
  /\ UNCHANGED <<stopVars, sockVars, hubCtl, hubData, backVars, fatal>>

CallJoin(t) ==
  \E s \in Sockets, r \in AppRooms :
    CallFrom(t, s, "join", r, "jlock") /\ UNCHANGED todo

CallLeave(t) ==
  \E s \in Sockets, r \in AppRooms :
    CallFrom(t, s, "leave", r, "llock") /\ UNCHANGED todo

\* LeaveAll ranges over s.rooms without its lock.
CallLeaveAll(t) ==
  \E s \in Sockets :
    /\ CallFrom(t, s, "leaveall", None, "range")
    /\ todo' = [todo EXCEPT ![t] = rooms[s]]

CallClose(t) ==
  \E s \in Sockets : CallFrom(t, s, "close", None, "flag") /\ UNCHANGED todo

CallEmit(t) ==
  \E s \in Sockets : CallFrom(t, s, "emit", None, "elock") /\ UNCHANGED todo

\* ToRoom, ToSocket, Broadcast and their Except forms ("cast"), SocketList
\* and RoomSocketList: calls on the server rather than on a socket.
CallServer(t) ==
  \E label \in {"cast", "socketlist", "roomlist"} \cap Activity : Advance(t, "idle", label)

-----------------------------------------------------------------------------
(* Socket.Join and Socket.Leave                                            *)

JoinLock(t) == RoomsLockFree(me[t]) /\ Advance(t, "jlock", "jsend")

\* The hub has taken the request: s.rooms[roomName] = true, unlock.
JoinReturn(t) ==
  /\ pc[t] = "jset"
  /\ rooms' = [rooms EXCEPT ![me[t]] = @ \cup {arg[t]}]
  /\ Return(t, "recv")
  /\ UNCHANGED <<stopVars, closed, ws, ping, hubCtl, hubData, backVars, fatal>>

LeaveLock(t) == RoomsLockFree(me[t]) /\ Advance(t, "llock", "lsend")

\* delete(s.rooms, roomName), unlock, and back to whoever called Leave: the
\* application, the range of LeaveAll or the loop of Close.
LeaveEnds(t, caller) ==
  /\ pc[t] = "ldel" /\ op[t] = caller
  /\ rooms' = [rooms EXCEPT ![me[t]] = @ \ {arg[t]}]
  /\ UNCHANGED <<stopVars, closed, ws, ping, hubCtl, hubData, backVars, fatal>>

LeaveReturn(t) == LeaveEnds(t, "leave") /\ Return(t, "recv")

LeaveAllGoesOn(t) ==
  LeaveEnds(t, "leaveall") /\ Call(t, me[t], "leaveall", None, "range") /\ UNCHANGED todo

CloseGoesOn(t) ==
  LeaveEnds(t, "close") /\ Call(t, me[t], "close", None, "croom") /\ UNCHANGED todo

\* The range of LeaveAll yields an entry; one that was added meanwhile may
\* be among them.
RangeNext(t) ==
  /\ pc[t] = "range"
  /\ \E r \in rooms[me[t]] :
       /\ Call(t, me[t], "leaveall", r, "llock")
       /\ todo' = [todo EXCEPT ![t] = @ \ {r}]
  /\ UNCHANGED <<stopVars, sockVars, hubCtl, hubData, backVars, fatal>>

\* It ends when no entry it started with is left to visit.
RangeEnd(t) ==
  /\ Finish(t, "range", "recv")
  /\ todo[t] \cap rooms[me[t]] = {}

-----------------------------------------------------------------------------
(* Socket.Close                                                            *)

\* Mutant of CloseFlag: a socket that is already closed is closed again.
CloseFlagUntested(t) ==
  /\ pc[t] = "flag" /\ EmitLockFree(me[t])
  /\ closed' = closed \cup {me[t]}
  /\ Goto(t, "ws")
  /\ UNCHANGED <<me, op, arg, todo, stopVars, ws, rooms, ping, hubCtl, hubData, backVars, fatal>>

\* Test and set of the closed flag under Socket.l.
CloseFlag(t) ==
  /\ pc[t] = "flag" /\ EmitLockFree(me[t])
  /\ closed' = closed \cup {me[t]}
  /\ IF me[t] \in closed
     THEN Return(t, "done")
     ELSE Goto(t, "ws") /\ UNCHANGED <<me, op, arg, todo>>
  /\ UNCHANGED <<stopVars, ws, rooms, ping, hubCtl, hubData, backVars, fatal>>

CloseWs(t) ==
  /\ pc[t] = "ws"
  /\ ws' = [ws EXCEPT ![me[t]] = "closed"]
  /\ Goto(t, "snap")
  /\ UNCHANGED <<me, op, arg, todo, stopVars, closed, rooms, ping,
                 hubCtl, hubData, backVars, fatal>>

\* ws.Close reports an error, the connection released or not: Close
\* returns it and does nothing more.
CloseWsFails(t) ==
  /\ pc[t] = "ws"
  /\ \E w \in {"open", "closed"} : ws' = [ws EXCEPT ![me[t]] = w]
  /\ Return(t, "done")
  /\ UNCHANGED <<stopVars, closed, rooms, ping, hubCtl, hubData, backVars, fatal>>

\* GetRooms copies s.rooms under its lock.
CloseSnapshot(t) ==
  /\ pc[t] = "snap" /\ RoomsLockFree(me[t])
  /\ todo' = [todo EXCEPT ![t] = rooms[me[t]]]
  /\ Goto(t, "croom")
  /\ UNCHANGED <<me, op, arg, stopVars, sockVars, hubCtl, hubData, backVars, fatal>>

CloseLeaves(t) ==
  /\ pc[t] = "croom"
  /\ \E r \in todo[t] :
       /\ Call(t, me[t], "close", r, "llock")
       /\ todo' = [todo EXCEPT ![t] = @ \ {r}]
  /\ UNCHANGED <<stopVars, sockVars, hubCtl, hubData, backVars, fatal>>

\* Mutant of CloseDisconnected: the hub is not told (removeSocket dropped).
CloseSkipsHub(t) == todo[t] = {} /\ Advance(t, "croom", "stop")

\* No room is left: onDisconnectFunc runs, and returns nil ...
CloseDisconnected(t) == todo[t] = {} /\ Advance(t, "croom", "del")

\* ... or an error, which Close returns before it tells the hub.
CloseDisconnectFails(t) == todo[t] = {} /\ Finish(t, "croom", "done")

CloseStopTicker(t) == Advance(t, "stop", "tick")

\* tickerDone <- true meets Ping's select.
CloseStopPing(t) ==
  /\ pc[t] = "tick" /\ ping[me[t]] = "select"
  /\ ping' = [ping EXCEPT ![me[t]] = "done"]
  /\ Return(t, "done")
  /\ UNCHANGED <<stopVars, closed, ws, rooms, hubCtl, hubData, backVars, fatal>>

-----------------------------------------------------------------------------
(* Socket.Ping: a tick is written to the connection without Socket.l       *)

TickerStopped(s) == \E t \in Threads : me[t] = s /\ pc[t] = "tick"

PingStep(s, from, next) ==
  /\ ping[s] = from
  /\ ping' = [ping EXCEPT ![s] = next]
  /\ UNCHANGED <<threadVars, stopVars, closed, ws, rooms, hubCtl, hubData, backVars, fatal>>

PingTick(s) ==
  "tick" \in Activity /\ ~TickerStopped(s) /\ PingStep(s, "select", "writing")

PingWritten(s) == PingStep(s, "writing", "select")

-----------------------------------------------------------------------------
(* Socket.Emit called by a handler                                         *)

EmitLock(t) == EmitLockFree(me[t]) /\ Advance(t, "elock", "write")

EmitWritten(t) == Finish(t, "write", "recv")

\* Server.SocketList and Server.RoomSocketList read the hub's maps without
\* the hub's lock.
ListRead(t) == Finish(t, "socketlist", "recv") \/ Finish(t, "roomlist", "recv")

-----------------------------------------------------------------------------
(* hub.listen: receive a request                                           *)

HubTake(t, label, request, next) ==
  /\ hpc = "select" /\ pc[t] = label
  /\ hpc' = request /\ hs' = me[t] /\ hr' = arg[t]
  /\ Goto(t, next)
  /\ UNCHANGED <<me, op, arg, todo, stopVars, sockVars, hx, htodo, hubData, backVars, fatal>>

HubRecvAdd(s) == HubTake(s, "add", "add", "added")
HubRecvDel(t) == HubTake(t, "del", "del", "stop")
HubRecvJoin(t) == HubTake(t, "jsend", "join", "jset")
HubRecvLeave(t) == HubTake(t, "lsend", "leave", "ldel")

\* Mutant of Receivers: the Except list is not looked at.
ReceiversNoExcept(r, ex) ==
  IF r = None THEN hubSockets ELSE IF r \in hubRooms THEN members[r] ELSE {}

\* The sockets a message reaches: those in the room, or all that are
\* registered (r = None, a broadcast), but for the Except list.
Receivers(r, ex) ==
  (IF r = None THEN hubSockets ELSE IF r \in hubRooms THEN members[r] ELSE {}) \ ex

HubTakeMessage(request) ==
  /\ hpc = "select"
  /\ hpc' = request
  /\ \E r \in Rooms \cup {None}, ex \in SUBSET Sockets :
       hr' = r /\ hx' = ex /\ htodo' = Receivers(r, ex)

\* roomMsgCh and broadcastCh: dispatched here, then published to the backend.
HubRecvCast(t) ==
  /\ pc[t] = "cast"
  /\ HubTakeMessage("dispatch")
  /\ Return(t, "recv")
  /\ UNCHANGED <<hs, stopVars, sockVars, hubData, backVars, fatal>>

\* broomcastCh and bbroadcastCh: from the backend, not published again.
HubRecvBackend ==
  /\ backend # "none"
  /\ HubTakeMessage("relay")
  /\ UNCHANGED <<hs, threadVars, stopVars, sockVars, hubData, backVars, fatal>>

\* shutdownCh: the hub will answer with its list of sockets.
HubRecvShutdown(t) == HubTake(t, "sreq", "list", "slist")

-----------------------------------------------------------------------------
(* hub.listen: carry the request out                                       *)

HubIdle == hpc' = "select" /\ hs' = None /\ hr' = None /\ hx' = {} /\ UNCHANGED htodo

\* The hub has changed its own maps and goes back to its select.
HubApplied ==
  /\ HubIdle
  /\ UNCHANGED <<threadVars, stopVars, sockVars, backVars, fatal>>

HubAdd ==
  /\ hpc = "add"
  /\ hubSockets' = hubSockets \cup {hs}
  /\ HubApplied /\ UNCHANGED <<hubRooms, members>>

HubDel ==
  /\ hpc = "del"
  /\ hubSockets' = hubSockets \ {hs}
  /\ HubApplied /\ UNCHANGED <<hubRooms, members>>

\* The room is made if it does not exist.
HubJoin ==
  /\ hpc = "join"
  /\ hubRooms' = hubRooms \cup {hr}
  /\ members' = [members EXCEPT ![hr] = @ \cup {hs}]
  /\ HubApplied /\ UNCHANGED hubSockets

\* Mutant of HubLeave: the empty room is kept.
HubLeaveKeepsRoom ==
  /\ hpc = "leave"
  /\ members' = [members EXCEPT ![hr] = @ \ {hs}]
  /\ HubApplied /\ UNCHANGED <<hubSockets, hubRooms>>

\* The room is deleted when its last member leaves.
HubLeave ==
  /\ hpc = "leave"
  /\ IF hr \in hubRooms
     THEN /\ members' = [members EXCEPT ![hr] = @ \ {hs}]
          /\ hubRooms' = IF members[hr] \ {hs} = {} THEN hubRooms \ {hr} ELSE hubRooms
     ELSE UNCHANGED <<hubRooms, members>>
  /\ HubApplied /\ UNCHANGED hubSockets

\* Mutant of HubEmit: the receiver is not struck off.
HubEmitAgain ==
  /\ hpc \in {"dispatch", "relay"} /\ hs = None
  /\ \E s \in htodo : EmitLockFree(s) /\ hs' = s
  /\ UNCHANGED <<hpc, hr, hx, htodo, threadVars, stopVars, sockVars, hubData, backVars, fatal>>

\* s.Emit for the next receiver: the hub takes the socket's lock and blocks
\* in the write ...
HubEmit ==
  /\ hpc \in {"dispatch", "relay"} /\ hs = None
  /\ \E s \in htodo :
       /\ EmitLockFree(s)
       /\ hs' = s /\ htodo' = htodo \ {s}
  /\ UNCHANGED <<hpc, hr, hx, threadVars, stopVars, sockVars, hubData, backVars, fatal>>

\* ... which ends, with an error or not.
HubWritten ==
  /\ hpc \in {"dispatch", "relay"} /\ hs # None
  /\ hs' = None
  /\ UNCHANGED <<hpc, hr, hx, htodo, threadVars, stopVars, sockVars, hubData, backVars, fatal>>

\* Mutant of HubDispatched: a failed write ends the dispatch, with receivers
\* that were not served.
HubGivesUp ==
  /\ hpc \in {"dispatch", "relay"} /\ hs = None
  /\ UNCHANGED publishing
  /\ HubIdle
  /\ UNCHANGED <<backend, threadVars, stopVars, sockVars, hubData, fatal>>

\* Every receiver was served.  A message of this server is handed to the
\* backend in a goroutine of its own, once a backend was ever set.
HubDispatched ==
  /\ hpc \in {"dispatch", "relay"} /\ hs = None /\ htodo = {}
  /\ IF hpc = "dispatch" /\ backend # "none"
     THEN publishing < MaxPublish /\ publishing' = publishing + 1
     ELSE UNCHANGED publishing
  /\ HubIdle
  /\ UNCHANGED <<backend, threadVars, stopVars, sockVars, hubData, fatal>>

\* The answer to shutdownCh: every socket that is registered.
HubSendList(t) ==
  /\ hpc = "list" /\ pc[t] = "slist"
  /\ list' = [list EXCEPT ![t] = hubSockets]
  /\ rest' = [rest EXCEPT ![t] = hubSockets]
  /\ Goto(t, "sclose")
  /\ HubIdle
  /\ UNCHANGED <<me, op, arg, todo, sockVars, hubData, backVars, fatal>>

-----------------------------------------------------------------------------
(* Server.Shutdown and the backend                                         *)

CallShutdown(t) == Advance(t, "idle", "sreq")

ShutdownClose(t) ==
  /\ pc[t] = "sclose"
  /\ \E s \in rest[t] :
       /\ Call(t, s, "close", None, "flag")
       /\ rest' = [rest EXCEPT ![t] = @ \ {s}]
  /\ UNCHANGED <<todo, list, sockVars, hubCtl, hubData, backVars, fatal>>

\* Mutant of ShutdownBackend: the backend does not wait for the sockets.
ShutdownBackendFirst(t) ==
  /\ pc[t] = "sclose"
  /\ backend' = IF backend = "none" THEN "none" ELSE "down"
  /\ Goto(t, "done")
  /\ UNCHANGED <<me, op, arg, todo, stopVars, sockVars, hubCtl, hubData, publishing, fatal>>

\* Every Close has returned: the backend, if there is one, is shut down.
ShutdownBackend(t) ==
  /\ pc[t] = "sclose" /\ rest[t] = {}
  /\ backend' = IF backend = "none" THEN "none" ELSE "down"
  /\ Goto(t, "done")
  /\ UNCHANGED <<me, op, arg, todo, stopVars, sockVars, hubCtl, hubData, publishing, fatal>>

\* A second backend is refused.
SetMultihomeBackend ==
  /\ backend = "none" /\ "backend" \in Activity
  /\ backend' = "up"
  /\ UNCHANGED <<threadVars, stopVars, sockVars, hubCtl, hubData, publishing, fatal>>

\* A call of RoomcastToBackend or BroadcastToBackend returns.
Published ==
  /\ publishing > 0
  /\ publishing' = publishing - 1
  /\ UNCHANGED <<threadVars, stopVars, sockVars, hubCtl, hubData, backend, fatal>>

-----------------------------------------------------------------------------
(* Unsynchronised map accesses: where a map is read while another          *)
(* goroutine writes it, the Go runtime may abort the process.              *)

Race ==
  \/ hpc \in {"add", "del"} /\ \E t \in Threads : pc[t] = "socketlist"
  \/ /\ \/ hpc = "join" /\ hr \notin hubRooms
        \/ hpc = "leave" /\ members[hr] = {hs}
     /\ \E t \in Threads : pc[t] = "roomlist"
  \/ \E t, u \in Threads : /\ pc[t] = "range" /\ pc[u] \in {"jset", "ldel"}
                           /\ me[t] = me[u]

RaceAbort ==
  /\ Race
  /\ fatal' = TRUE
  /\ UNCHANGED <<threadVars, stopVars, sockVars, hubCtl, hubData, backVars>>

Aborted == fatal /\ UNCHANGED vars

-----------------------------------------------------------------------------
LoopStep(s) == StartLoop(s) \/ LoopEnds(s)

HandlerCall(t) ==
  \/ CallJoin(t) \/ CallLeave(t) \/ CallLeaveAll(t) \/ CallClose(t)
  \/ CallEmit(t) \/ CallServer(t)

\* A step of t that needs a mutex or a rendezvous ...
Acquire(t) == JoinLock(t) \/ LeaveLock(t) \/ CloseFlag(t) \/ CloseSnapshot(t) \/ EmitLock(t)
HubRecv(t) == HubRecvDel(t) \/ HubRecvJoin(t) \/ HubRecvLeave(t) \/ HubRecvCast(t)

\* ... and one that does not.
Proceed(t) ==
  \/ JoinReturn(t) \/ LeaveReturn(t) \/ LeaveAllGoesOn(t) \/ CloseGoesOn(t)
  \/ RangeNext(t) \/ RangeEnd(t)
  \/ CloseWs(t) \/ CloseWsFails(t) \/ CloseLeaves(t)
  \/ CloseDisconnected(t) \/ CloseDisconnectFails(t)
  \/ CloseStopTicker(t) \/ CloseStopPing(t) \/ EmitWritten(t) \/ ListRead(t)

HubStep ==
  \/ HubAdd \/ HubDel \/ HubJoin \/ HubLeave
  \/ HubEmit \/ HubWritten \/ HubDispatched
  \/ \E t \in Stoppers : HubSendList(t)

Step ==
  \/ \E s \in Sockets : \/ Connect(s) \/ LoopStep(s) \/ HubRecvAdd(s)
                        \/ PingTick(s) \/ PingWritten(s)
  \/ \E t \in Handlers : HandlerCall(t)
  \/ \E t \in Stoppers : \/ CallShutdown(t) \/ HubRecvShutdown(t)
                         \/ ShutdownClose(t) \/ ShutdownBackend(t)
  \/ \E t \in Threads : Acquire(t) \/ HubRecv(t) \/ Proceed(t)
  \/ HubStep \/ HubRecvBackend
  \/ SetMultihomeBackend \/ Published
  \/ RaceAbort

Next == (~fatal /\ Step) \/ Aborted

Spec == Init /\ [][Next]_vars

\* Fairness.  Goroutines that can run do run; Go's select picks among the
\* ready channels at random and its mutexes hand over to a starving waiter,
\* so a rendezvous or a lock that is offered again and again is had in the
\* end.  That a write to a connection ends is assumed of the peers (no
\* deadline is set).  Nothing is assumed of what the application or a peer
\* decides to do.
ThreadStep(t) ==
  \/ Acquire(t) \/ HubRecv(t) \/ Proceed(t)
  \/ t \in Sockets /\ (StartLoop(t) \/ HubRecvAdd(t) \/ (ws[t] = "closed" /\ LoopEnds(t)))
  \/ t \in Stoppers /\ (HubRecvShutdown(t) \/ ShutdownClose(t) \/ ShutdownBackend(t))

Fairness ==
  /\ \A t \in Threads : SF_vars(~fatal /\ ThreadStep(t))
  /\ \A s \in Sockets : WF_vars(~fatal /\ PingWritten(s))
  /\ SF_vars(~fatal /\ HubStep)
  /\ WF_vars(~fatal /\ Published)

FairSpec == Spec /\ Fairness

-----------------------------------------------------------------------------
(* Properties                                                              *)

\* Inside Socket.Close, past the test of the flag.
InClose(t) ==
  \/ pc[t] \in {"ws", "snap", "croom", "del", "stop", "tick"}
  \/ pc[t] \in {"llock", "lsend", "ldel"} /\ op[t] = "close"

\* Membership as the hub will have it once it has applied the request in hand.
HubHas(s, r) ==
  \/ s \in members[r] /\ ~(hpc = "leave" /\ hs = s /\ hr = r)
  \/ hpc = "join" /\ hs = s /\ hr = r

\* Membership as the socket has it: s.rooms, completed by the goroutine
\* whose request the hub has taken and which still has to write s.rooms.
SockHas(s, r) ==
  \/ r \in rooms[s] /\ ~ \E t \in Threads : me[t] = s /\ arg[t] = r /\ pc[t] = "ldel"
  \/ \E t \in Threads : me[t] = s /\ arg[t] = r /\ pc[t] = "jset"

\* Registration as the hub will have it, and as the goroutines left it.
HubKnows(s) ==
  \/ s \in hubSockets /\ ~(hpc = "del" /\ hs = s)
  \/ hpc = "add" /\ hs = s

Online(s) ==
  /\ pc[s] \notin {"new", "add"}
  /\ ping[s] # "done"
  /\ ~ \E t \in Threads : me[t] = s /\ pc[t] \in {"stop", "tick"}

\* The types of the variables.
TypeOK ==
  /\ pc \in [Threads -> {"new", "add", "added", "recv", "done", "idle",
                         "jlock", "jsend", "jset", "llock", "lsend", "ldel", "range",
                         "flag", "ws", "snap", "croom", "del", "stop", "tick",
                         "elock", "write", "cast", "socketlist", "roomlist",
                         "sreq", "slist", "sclose"}]
  /\ me \in [Threads -> Sockets \cup {None}]
  /\ op \in [Threads -> {"none", "join", "leave", "leaveall", "close", "emit"}]
  /\ arg \in [Threads -> Rooms \cup {None}]
  /\ todo \in [Threads -> SUBSET Rooms]
  /\ list \in [Stoppers -> SUBSET Sockets]
  /\ rest \in [Stoppers -> SUBSET Sockets]
  /\ closed \in SUBSET Sockets
  /\ ws \in [Sockets -> {"none", "open", "closed"}]
  /\ rooms \in [Sockets -> SUBSET Rooms]
  /\ ping \in [Sockets -> {"none", "select", "writing", "done"}]
  /\ hpc \in {"select", "add", "del", "join", "leave", "dispatch", "relay", "list"}
  /\ hs \in Sockets \cup {None}
  /\ hr \in Rooms \cup {None}
  /\ hx \in SUBSET Sockets
  /\ htodo \in SUBSET Sockets
  /\ hubSockets \in SUBSET Sockets
  /\ hubRooms \in SUBSET Rooms
  /\ members \in [Rooms -> SUBSET Sockets]
  /\ backend \in {"none", "up", "down"}
  /\ publishing \in Nat
  /\ fatal \in BOOLEAN

\* What is in hand, at the callers and at the hub: a call is about a socket
\* from its first step to its last, and about a room while it joins or
\* leaves; the hub never acts on a nil *Socket or without a room, and has
\* served every receiver of a message when it takes the next request.
CallTyped ==
  /\ \A s \in Sockets : me[s] = s
  /\ \A t \in Threads :
       pc[t] \in {"jlock", "jsend", "jset", "llock", "lsend", "ldel", "range", "flag", "ws",
                  "snap", "croom", "del", "stop", "tick", "elock", "write"}
         => me[t] \in Sockets
  /\ \A t \in Threads :
       pc[t] \in {"jlock", "jsend", "jset", "llock", "lsend", "ldel"} => arg[t] \in Rooms
  /\ hpc \in {"add", "del", "join", "leave"} => hs \in Sockets
  /\ hpc \in {"join", "leave"} => hr \in Rooms
  /\ hpc \notin {"dispatch", "relay"} => htodo = {} /\ hx = {}

\* Socket.rooms and the hub's rooms are two copies of the membership kept by
\* different goroutines with no common lock; up to the request in transit
\* they agree, so InRoom and GetRooms tell what ToRoom will do.
RoomsAgree == \A s \in Sockets, r \in Rooms : HubHas(s, r) <=> SockHas(s, r)

\* A room exists exactly as long as it has a member: neither an empty room
\* is left behind in h.rooms nor a member in a deleted one.
NoEmptyRoom == \A r \in Rooms : r \in hubRooms <=> members[r] # {}

\* The hub registers a socket exactly from newSocket's addSocket to the
\* removeSocket of its Close, whoever runs Close and however early.
RegistryAgrees == \A s \in Sockets : HubKnows(s) <=> Online(s)

\* However many goroutines call Close, one at a time gets past the flag, and
\* none does once Ping was told to end: a second send on tickerDone would
\* block its goroutine for ever.
CloseOnce ==
  /\ \A t, u \in Threads : InClose(t) /\ InClose(u) /\ me[t] = me[u] => t = u
  /\ \A t \in Threads : InClose(t) => me[t] \in closed /\ ping[me[t]] # "done"

\* When Shutdown goes on to the backend, or has returned, every socket that
\* was registered when the hub took its request has its closed flag set.
ShutdownCloses ==
  \A t \in Stoppers :
    pc[t] = "done" \/ (pc[t] = "sclose" /\ rest[t] = {}) => list[t] \subseteq closed

\* The room service as the callers see it: the membership is what the
\* SOCKETS hold (SockHas), the receivers are what the HUB computes.
Service == INSTANCE RoomService WITH
  in <- [s \in Sockets |-> {r \in Rooms : SockHas(s, r)}],
  online <- {s \in Sockets : Online(s)},
  to <- IF hpc \in {"dispatch", "relay"} THEN hr ELSE None,
  except <- hx,
  inflight <- htodo \cup (IF hpc \in {"dispatch", "relay"} THEN {hs} \ {None} ELSE {})

\* A message is delivered to exactly the sockets whose own view, at the
\* instant the hub takes it, says they are in its room: the hub's loop, the
\* goroutines of Join, Leave and Close and the locks implement RoomService.
ImplementsRoomService == Service!Spec

\* Every call that is made returns, and every connection whose loop has
\* started gets past its registration: nobody waits for ever, unless the
\* runtime aborts.
CallsReturn ==
  \A t \in Threads : pc[t] \notin {"new", "idle", "recv", "done"}
                     ~> pc[t] \in {"idle", "recv", "done"} \/ fatal

\* The hub always comes back to its select.
HubResponsive == hpc # "select" ~> hpc = "select" \/ fatal

\* A loop whose connection was closed by anybody ends.
LoopExits == \A s \in Sockets : ws[s] = "closed" ~> pc[s] = "done" \/ fatal

-----------------------------------------------------------------------------
(* Supporting invariants, for the proofs                                   *)

\* Socket.roomsl has at most one holder.
RoomsLockHeldOnce ==
  \A t, u \in Threads :
    pc[t] \in RoomsCritical /\ pc[u] \in RoomsCritical /\ me[t] = me[u] => t = u

\* Ping ends only for a socket that was closed.
PingEndsClosed == \A s \in Sockets : ping[s] = "done" => s \in closed

\* Until the hub has taken the socket from newSocket, nobody else has it:
\* not the hub, no handler and no list of Shutdown; Ping starts after that.
UnknownBeforeAdd ==
  \A s \in Sockets :
    /\ pc[s] \in {"new", "add"} =>
         /\ s \notin hubSockets
         /\ ~(hpc = "add" /\ hs = s)
         /\ \A t \in Threads : t # s => me[t] # s
         /\ \A t \in Stoppers : s \notin rest[t]
    /\ pc[s] \in {"new", "add", "added"} => ping[s] = "none"

\* Of Shutdown's list, what is not closed is still to be visited or is the
\* socket whose flag is about to be tested.
ListCovered ==
  \A t \in Stoppers :
    /\ \A s \in list[t] : s \in closed \/ s \in rest[t] \/ (pc[t] = "flag" /\ me[t] = s)
    /\ pc[t] = "done" => rest[t] = {}

=============================================================================
