----------------------------- MODULE ChatRooms -----------------------------
(***************************************************************************)
(* The rooms of the chat server (chat/server.go): connections that join,   *)
(* leave and talk, each served by the goroutine that reads it, and the     *)
(* goroutines that take a connection apart (handleClientDisconnect): its   *)
(* own reader when reading ends, and one started with "go" by whoever      *)
(* failed to write to it.                                                  *)
(*                                                                         *)
(* s.rooms maps a room ID to a *Room, and a goroutine may hold a *Room     *)
(* that is no longer in the map: rooms have an identity here (Objects).    *)
(* roomsMu, clientsMu and typingMu are held within one step, but for the   *)
(* sweep of the typing indicators, which broadcasts while it holds two of  *)
(* them.  room.Clients and client.Rooms are also ranged over without a     *)
(* lock, step by step.  The database is InMemoryDB, the default.           *)
(*                                                                         *)
(* Left out: the content of messages, the receipts and client.IsTyping,    *)
(* which is never read.  The history, uploads and the count of the rate    *)
(* limiter are in ChatMessages.                                            *)
(***************************************************************************)
EXTENDS Naturals, Sequences, FiniteSets

CONSTANTS
  Clients,       \* the connections, each with its reader goroutine
  Droppers,      \* goroutines of "go s.handleClientDisconnect(client)"
  Sweeper,       \* the goroutine cleanupTypingIndicators
  PublicRooms, GroupRooms,   \* room IDs, by their prefix
  DmRooms,       \* a DM room: the parts of its ID after "dm:", between "_"
  DefaultRooms,  \* the public rooms made by Start
  Objects,       \* identities of *Room
  Users,         \* user IDs: the parts between "_", <<"user", "1">> is "user_1"
  Sorted,        \* pairs of user IDs in the order of sort.Strings
  Sessions,      \* session IDs (never empty)
  Activity,      \* what happens: message types, "api" calls, errors
  None

RoomIds == PublicRooms \cup GroupRooms \cup DmRooms
Private == GroupRooms \cup DmRooms
Threads == Clients \cup Droppers \cup {Sweeper}

ASSUME ChatAssumption ==
  /\ Clients \cap Droppers = {} /\ Sweeper \notin Clients \cup Droppers
  /\ PublicRooms \cap Private = {} /\ GroupRooms \cap DmRooms = {}
  /\ DefaultRooms \subseteq PublicRooms
  /\ None \notin RoomIds \cup Objects \cup Clients \cup Users \cup Sessions
  /\ Users \cup DmRooms \subseteq Seq(STRING)
  /\ Sorted \subseteq Users \X Users
  /\ "empty" \notin Sessions
  /\ Activity \subseteq {"join", "leave", "say", "relay", "typing", "bad", "api",
                         "write_error", "redis_error", "pong_timeout"}

VARIABLES
  pc, op,        \* where a goroutine is, and in which handler
  who,           \* the client it acts for
  room, obj,     \* the room ID and the *Room in hand
  todo,          \* disconnect: keys of client.Rooms the range may still yield
  rest,          \* broadcast: keys of room.Clients the range may still yield
  rooms,         \* s.rooms
  members,       \* per *Room: the keys of room.Clients
  clientRooms,   \* client.Rooms
  user, sid,     \* client.UserID and the session ID it connected with
  clients, limiters, typing,   \* s.clients, s.rateLimiters, s.typingClients
  dbRooms, dbMembers,          \* InMemoryDB.rooms, InMemoryDB.roomMembers
  invited,       \* history: the users the API ever made members of a room
  session,       \* Redis: the SessionState under a session ID
  fatal          \* the runtime aborted on a concurrent map access

threadVars == <<pc, op, who, room, obj, todo, rest>>
roomVars   == <<rooms, members, clientRooms>>
clientVars == <<user, sid, clients, limiters, typing>>
dbVars     == <<dbRooms, dbMembers, invited>>
vars == <<threadVars, roomVars, clientVars, dbVars, session, fatal>>

\* handleClientDisconnect writes its session under "session:" and nothing
\* else: the key of the empty session ID.
EmptyID == "empty"

\* Start maps the default rooms before it accepts connections.
initializeDefaultRooms ==
  /\ rooms \in [RoomIds -> Objects \cup {None}]
  /\ \A r \in RoomIds : rooms[r] # None <=> r \in DefaultRooms
  /\ \A r, q \in DefaultRooms : rooms[r] = rooms[q] => r = q
  /\ dbRooms = DefaultRooms

Init ==
  /\ pc = [t \in Threads |-> IF t \in Clients THEN "new" ELSE "idle"]
  /\ op = [t \in Threads |-> "none"]
  /\ who = [t \in Threads |-> IF t \in Clients THEN t ELSE None]
  /\ room = [t \in Threads |-> None]
  /\ obj = [t \in Threads |-> None]
  /\ todo = [t \in Threads |-> {}]
  /\ rest = [t \in Threads |-> {}]
  /\ initializeDefaultRooms
  /\ members = [o \in Objects |-> {}]
  /\ clientRooms = [c \in Clients |-> {}]
  /\ user = [c \in Clients |-> None]
  /\ sid = [c \in Clients |-> None]
  /\ clients = {} /\ limiters = {} /\ typing = [r \in RoomIds |-> {}]
  /\ dbMembers = [r \in RoomIds |-> {}] /\ invited = [r \in RoomIds |-> {}]
  /\ session = [k \in Sessions \cup {EmptyID} |-> None]
  /\ fatal = FALSE

-----------------------------------------------------------------------------
(* Control flow                                                            *)

Goto(t, label) == pc' = [pc EXCEPT ![t] = label]

\* t moves on, and nothing of it but pc changes.
Advance(t, from, label) ==
  /\ pc[t] = from
  /\ Goto(t, label)
  /\ UNCHANGED <<op, who, room, obj, todo, rest>>

\* A handler returns: the reader reads on, a goroutine of a failed write has
\* done its work, the sweep goes on with the next entry.
Rest(t) ==
  IF t = Sweeper THEN "sweep" ELSE IF op[t] = "drop" /\ t \in Clients THEN "gone" ELSE "idle"

Return(t) ==
  /\ Goto(t, Rest(t))
  /\ op' = [op EXCEPT ![t] = "none"]
  /\ who' = [who EXCEPT ![t] = IF t \in Clients THEN t ELSE None]
  /\ room' = [room EXCEPT ![t] = None]
  /\ obj' = [obj EXCEPT ![t] = None]
  /\ todo' = [todo EXCEPT ![t] = {}]
  /\ rest' = [rest EXCEPT ![t] = {}]

\* "go s.handleClientDisconnect(d)" beside a step that takes t to label.
Spawn(t, label, d, g) ==
  /\ g \in Droppers /\ pc[g] = "idle"
  /\ "write_error" \in Activity
  /\ pc' = [pc EXCEPT ![t] = label, ![g] = "start"]
  /\ op' = [op EXCEPT ![g] = "drop"]
  /\ who' = [who EXCEPT ![g] = d]

\* typingMu is held for the length of a sweep, clientsMu (for reading) while
\* the sweep broadcasts.
TypingLockFree == pc[Sweeper] = "idle"
ClientsLockFree == pc[Sweeper] \in {"idle", "sweep"}

-----------------------------------------------------------------------------
(* handleNewConnectionWithUser                                             *)

\* A connection's user ID is made from the time: "user_<n>".
ServerMade == {u \in Users : Len(u) = 2 /\ u[1] = "user"}

\* The user and the rooms come from the session, if Redis has it.
Connect(c) ==
  /\ pc[c] = "new"
  /\ Goto(c, "register")
  /\ \E k \in Sessions, u \in ServerMade :
       /\ sid' = [sid EXCEPT ![c] = k]
       /\ \/ /\ session[k] # None
             /\ user' = [user EXCEPT ![c] = session[k].user]
             /\ clientRooms' = [clientRooms EXCEPT ![c] = session[k].rooms]
          \/ /\ session[k] = None \/ "redis_error" \in Activity
             /\ user' = [user EXCEPT ![c] = u]
             /\ UNCHANGED clientRooms
  /\ UNCHANGED <<op, who, room, obj, todo, rest, rooms, members, clients, limiters, typing,
                 dbVars, session, fatal>>

\* s.clients[clientID] = client
Register(c) ==
  /\ ClientsLockFree
  /\ Advance(c, "register", "save")
  /\ clients' = clients \cup {c}
  /\ UNCHANGED <<roomVars, user, sid, limiters, typing, dbVars, session, fatal>>

\* redisClient.Set: the error is ignored.
Store(k, c) ==
  \/ session' = [session EXCEPT ![k] = [user |-> user[c], rooms |-> clientRooms[c]]]
  \/ "redis_error" \in Activity /\ UNCHANGED session

SaveSession(c) ==
  /\ Advance(c, "save", "idle")
  /\ Store(sid[c], c)
  /\ UNCHANGED <<roomVars, clientVars, dbVars, fatal>>

-----------------------------------------------------------------------------
(* handleMessage: every message counts against the client's rate limiter,  *)
(* which is made when there is none                                        *)

\* checkRateLimit, as far as it makes the limiter.
checkRateLimit(c) == limiters' = limiters \cup {c}

Recv(c, type, r, label) ==
  /\ pc[c] = "idle" /\ type \in Activity
  /\ Goto(c, label)
  /\ op' = [op EXCEPT ![c] = type]
  /\ room' = [room EXCEPT ![c] = r]
  /\ checkRateLimit(c)
  /\ UNCHANGED <<who, obj, todo, rest, roomVars, user, sid, clients, dbVars, session, fatal>>

\* Over the rate limit, malformed, of unknown type or with a bad room ID:
\* an error is sent.
RecvBad(c) == Recv(c, "bad", None, "send") /\ UNCHANGED typing

RecvJoin(c) == \E r \in RoomIds : Recv(c, "join", r, "lookup") /\ UNCHANGED typing

RecvLeave(c) ==
  \E r \in RoomIds :
    /\ Recv(c, "leave", r, IF r \in clientRooms[c] THEN "leave" ELSE "send")
    /\ UNCHANGED typing

\* A message that is sent on to its room; the answer is an error when the
\* client is not in the room, and may be one when it is: the payload does
\* not parse, is too large or names a message that does not exist.
Forward(c, type) ==
  \E r \in RoomIds :
    /\ \/ r \in clientRooms[c] /\ Recv(c, type, r, "bcast")
       \/ Recv(c, type, r, "send")
    /\ UNCHANGED typing

\* Chat messages, thread replies, and files and media in a text message are
\* saved in the database, go to the whole room and are acknowledged ...
RecvSay(c) == Forward(c, "say")
RecvThreadReply(c) == Forward(c, "say")
RecvShare(c) == Forward(c, "say")

\* ... read receipts, the messages around calls and WebRTC signals, screen
\* sharing and recordings go to the others in the room.
RecvReceipt(c) == Forward(c, "relay")
RecvCall(c) == Forward(c, "relay")
RecvSignal(c) == Forward(c, "relay")

\* handleTyping: ignored when the payload does not parse and unless the
\* client is in the room ...
RecvTyping(c) ==
  \E r \in RoomIds :
    /\ \/ r \in clientRooms[c] /\ Recv(c, "typing", r, "typing")
       \/ Recv(c, "typing", r, "end")
    /\ UNCHANGED typing

\* ... the indicator is set or cleared under typingMu.
Typing(c) ==
  /\ TypingLockFree
  /\ Advance(c, "typing", "bcast")
  /\ \E on \in BOOLEAN :
       typing' = [typing EXCEPT ![room[c]] = IF on THEN @ \cup {c} ELSE @ \ {c}]
  /\ UNCHANGED <<roomVars, user, sid, clients, limiters, dbVars, session, fatal>>

\* sendMessage to the client itself, the last step of a handler, succeeds ...
Sent(c) ==
  /\ pc[c] \in {"send", "end"}
  /\ Return(c)
  /\ UNCHANGED <<roomVars, clientVars, dbVars, session, fatal>>

\* ... or its error starts a disconnect.
SendFails(c) ==
  /\ pc[c] = "send"
  /\ \E g \in Droppers : Spawn(c, "end", c, g)
  /\ UNCHANGED <<room, obj, todo, rest, roomVars, clientVars, dbVars, session, fatal>>

-----------------------------------------------------------------------------
(* getOrCreateRoom                                                         *)

\* *Rooms that nothing refers to.
Fresh == {o \in Objects : (\A r \in RoomIds : rooms[r] # o) /\ (\A t \in Threads : obj[t] # o)}

\* A room is entered at once when it is public.
Admit(r) == IF r \in Private THEN "permit" ELSE "enter"

\* Mutant of Lookup: whether the room exists is not asked.
LookupUntested(c) ==
  /\ pc[c] = "lookup"
  /\ Goto(c, Admit(room[c]))
  /\ obj' = [obj EXCEPT ![c] = rooms[room[c]]]
  /\ UNCHANGED <<op, who, room, todo, rest, roomVars, clientVars, dbVars, session, fatal>>

\* Under roomsMu.RLock: the room is there, or not.
Lookup(c) ==
  LET r == room[c] IN
  /\ pc[c] = "lookup"
  /\ Goto(c, IF rooms[r] # None THEN Admit(r)
             ELSE IF r \in Private THEN "dbget" ELSE "create")
  /\ obj' = [obj EXCEPT ![c] = rooms[r]]
  /\ UNCHANGED <<op, who, room, todo, rest, roomVars, clientVars, dbVars, session, fatal>>

\* GetRoom finds a private room in the database; or a group is reported
\* missing, and a DM room is to be created.
DbGetRoom(c) ==
  /\ Advance(c, "dbget", IF room[c] \in dbRooms THEN "create"
                         ELSE IF room[c] \in DmRooms THEN "dbcreate" ELSE "send")
  /\ UNCHANGED <<roomVars, clientVars, dbVars, session, fatal>>

\* InMemoryDB.CreateRoom: a fresh, empty member list.
CreateRoom(r) ==
  /\ dbRooms' = dbRooms \cup {r}
  /\ dbMembers' = [dbMembers EXCEPT ![r] = {}]

DbCreateRoom(c) ==
  /\ Advance(c, "dbcreate", "create")
  /\ CreateRoom(room[c])
  /\ UNCHANGED <<roomVars, clientVars, invited, session, fatal>>

\* Under roomsMu.Lock: a new *Room takes the place of whatever is there.
Create(c) ==
  /\ pc[c] = "create"
  /\ \E o \in Fresh :
       /\ rooms' = [rooms EXCEPT ![room[c]] = o]
       /\ members' = [members EXCEPT ![o] = {}]
       /\ obj' = [obj EXCEPT ![c] = o]
  /\ Goto(c, Admit(room[c]))
  /\ UNCHANGED <<op, who, room, todo, rest, clientRooms, clientVars, dbVars, session, fatal>>

-----------------------------------------------------------------------------
(* handleJoinRoom                                                          *)

\* Mutant of checkRoomPermission: a room that has no members yet is open.
PermissionByMember(c, r) == r \in PublicRooms \/ user[c] \in dbMembers[r] \/ dbMembers[r] = {}

\* strings.Split of the ID of a DM room, each part taken for a user ID.
Split(r) == {<<r[i]>> : i \in DOMAIN r}

IsUserInRoom(r, u) == u \in dbMembers[r]

checkRoomPermission(c, r) ==
  \/ r \in PublicRooms
  \/ r \in DmRooms /\ user[c] \in Split(r)
  \/ r \in GroupRooms /\ IsUserInRoom(r, user[c])

Permit(c) ==
  /\ Advance(c, "permit", IF checkRoomPermission(c, room[c]) THEN "enter" ELSE "send")
  /\ UNCHANGED <<roomVars, clientVars, dbVars, session, fatal>>

\* room.Clients[client.ID] = client, under roomsMu.  A range over the map
\* that is under way may skip a new entry.
Enter(c) ==
  /\ pc[c] = "enter"
  /\ Goto(c, "own")
  /\ members' = [members EXCEPT ![obj[c]] = @ \cup {c}]
  /\ \E ts \in SUBSET {t \in Threads : pc[t] = "range" /\ obj[t] = obj[c]} :
       /\ c \in members[obj[c]] => ts = {}
       /\ rest' = [t \in Threads |-> IF t \in ts THEN rest[t] \ {c} ELSE rest[t]]
  /\ UNCHANGED <<op, who, room, obj, todo, rooms, clientRooms, clientVars, dbVars,
                 session, fatal>>

\* client.Rooms[roomID] = true; a disconnect ranging over it may skip it.
Own(c) ==
  /\ pc[c] = "own"
  /\ Goto(c, IF room[c] \in Private THEN "dbadd" ELSE "history")
  /\ clientRooms' = [clientRooms EXCEPT ![c] = @ \cup {room[c]}]
  /\ \E ts \in SUBSET {g \in Droppers : who[g] = c} :
       /\ room[c] \in clientRooms[c] => ts = {}
       /\ todo' = [t \in Threads |-> IF t \in ts THEN todo[t] \ {room[c]} ELSE todo[t]]
  /\ UNCHANGED <<op, who, room, obj, rest, rooms, members, clientVars, dbVars, session, fatal>>

AddRoomMember(r, u) == dbMembers' = [dbMembers EXCEPT ![r] = @ \cup {u}]
RemoveRoomMember(r, u) == dbMembers' = [dbMembers EXCEPT ![r] = @ \ {u}]

DbAdd(c) ==
  /\ Advance(c, "dbadd", "history")
  /\ AddRoomMember(room[c], user[c])
  /\ UNCHANGED <<roomVars, clientVars, dbRooms, invited, session, fatal>>

\* The history, if there is any, is sent to the client.
History(c) ==
  /\ \/ Advance(c, "history", "bcast")
     \/ /\ pc[c] = "history"
        /\ \E g \in Droppers : Spawn(c, "bcast", c, g)
        /\ UNCHANGED <<room, obj, todo, rest>>
  /\ UNCHANGED <<roomVars, clientVars, dbVars, session, fatal>>

-----------------------------------------------------------------------------
(* handleLeaveRoom                                                         *)

\* Under roomsMu: the client is removed from the *Room that is in s.rooms
\* now, which is dropped when it is left empty and not public.
RemoveFrom(r, c) ==
  LET o == rooms[r] IN
  IF o = None THEN UNCHANGED <<rooms, members>>
  ELSE /\ members' = [members EXCEPT ![o] = @ \ {c}]
       /\ rooms' = [rooms EXCEPT ![r] = IF members[o] \ {c} = {} /\ r \in Private
                                        THEN None ELSE o]

\* Mutant of Leave: the client stays in the room.
LeaveKeepsClient(c) ==
  /\ Advance(c, "leave", "disown")
  /\ UNCHANGED <<roomVars, clientVars, dbVars, session, fatal>>

Leave(c) ==
  /\ Advance(c, "leave", "disown")
  /\ RemoveFrom(room[c], c)
  /\ UNCHANGED <<clientRooms, clientVars, dbVars, session, fatal>>

\* delete(client.Rooms, roomID)
Disown(c) ==
  /\ Advance(c, "disown", IF room[c] \in Private THEN "dbremove" ELSE "bcast")
  /\ clientRooms' = [clientRooms EXCEPT ![c] = @ \ {room[c]}]
  /\ UNCHANGED <<rooms, members, clientVars, dbVars, session, fatal>>

DbRemove(c) ==
  /\ Advance(c, "dbremove", "bcast")
  /\ RemoveRoomMember(room[c], user[c])
  /\ UNCHANGED <<roomVars, clientVars, dbRooms, invited, session, fatal>>

-----------------------------------------------------------------------------
(* broadcastToRoom                                                         *)

\* Where a handler goes on after its broadcast.
AfterBroadcast(t) ==
  IF op[t] = "drop" THEN "unroom" ELSE "send"

\* No room, no broadcast; the handlers of leave, typing and relayed messages
\* and the sweep end here.
Ends(t) == op[t] \in {"leave", "typing", "relay", "none"}

BroadcastNone(t) ==
  /\ pc[t] = "bcast" /\ rooms[room[t]] = None
  /\ IF Ends(t) THEN Return(t) ELSE Advance(t, "bcast", AfterBroadcast(t))
  /\ UNCHANGED <<roomVars, clientVars, dbVars, session, fatal>>

\* The *Room is read under roomsMu; a chat message also goes to its sender.
Broadcast(t) ==
  LET o == rooms[room[t]] IN
  /\ pc[t] = "bcast" /\ o # None
  /\ Goto(t, "range")
  /\ obj' = [obj EXCEPT ![t] = o]
  /\ rest' = [rest EXCEPT ![t] = Clients \ (IF op[t] = "say" THEN {} ELSE {who[t]})]
  /\ UNCHANGED <<op, who, room, todo, roomVars, clientVars, dbVars, session, fatal>>

\* The next entry of room.Clients: the write succeeds, or its error starts
\* a disconnect.
Write(t) ==
  /\ pc[t] = "range"
  /\ \E d \in rest[t] \cap members[obj[t]] :
       /\ rest' = [rest EXCEPT ![t] = @ \ {d}]
       /\ \/ UNCHANGED <<pc, op, who>>
          \/ \E g \in Droppers : Spawn(t, "range", d, g)
  /\ UNCHANGED <<room, obj, todo, roomVars, clientVars, dbVars, session, fatal>>

Written(t) ==
  /\ pc[t] = "range" /\ rest[t] \cap members[obj[t]] = {}
  /\ IF Ends(t) THEN Return(t)
     ELSE /\ Goto(t, AfterBroadcast(t))
          /\ obj' = [obj EXCEPT ![t] = None]
          /\ rest' = [rest EXCEPT ![t] = {}]
          /\ UNCHANGED <<op, who, room, todo>>
  /\ UNCHANGED <<roomVars, clientVars, dbVars, session, fatal>>

-----------------------------------------------------------------------------
(* handleClientDisconnect                                                  *)

\* Reading fails or the peer closes: OnError, OnClose.
ReaderEnds(c) ==
  /\ pc[c] = "idle"
  /\ Goto(c, "start")
  /\ op' = [op EXCEPT ![c] = "drop"]
  /\ UNCHANGED <<who, room, obj, todo, rest, roomVars, clientVars, dbVars, session, fatal>>

\* The keep-alive had no pong in time and closed the connection: the reader
\* ends without a callback, and nothing is taken apart.
ReaderLost(c) ==
  /\ "pong_timeout" \in Activity
  /\ Advance(c, "idle", "lost")
  /\ UNCHANGED <<roomVars, clientVars, dbVars, session, fatal>>

\* The keep-alive, which runs once the client is set up, cannot write its
\* ping: OnError, in its own goroutine.
PingFails(c) ==
  /\ pc[c] \notin {"new", "register", "save", "lost"}
  /\ \E g \in Droppers : Spawn(c, pc[c], c, g)
  /\ UNCHANGED <<room, obj, todo, rest, roomVars, clientVars, dbVars, session, fatal>>

\* The range over client.Rooms begins, without a lock.
DropStart(t) ==
  /\ pc[t] = "start"
  /\ Goto(t, "drooms")
  /\ todo' = [todo EXCEPT ![t] = RoomIds]
  /\ UNCHANGED <<op, who, room, obj, rest, roomVars, clientVars, dbVars, session, fatal>>

\* The next room: its members are told, then the client is removed.
DropNext(t) ==
  /\ pc[t] = "drooms"
  /\ \E r \in todo[t] \cap clientRooms[who[t]] :
       /\ room' = [room EXCEPT ![t] = r]
       /\ todo' = [todo EXCEPT ![t] = @ \ {r}]
  /\ Goto(t, "bcast")
  /\ UNCHANGED <<op, who, obj, rest, roomVars, clientVars, dbVars, session, fatal>>

\* Mutant of Unroom: the room is cleaned up, the client stays in it.
UnroomForgets(t) ==
  /\ Advance(t, "unroom", "drooms")
  /\ UNCHANGED <<roomVars, clientVars, dbVars, session, fatal>>

Unroom(t) ==
  /\ Advance(t, "unroom", "drooms")
  /\ RemoveFrom(room[t], who[t])
  /\ UNCHANGED <<clientRooms, clientVars, dbVars, session, fatal>>

DropRoomsDone(t) ==
  /\ pc[t] = "drooms" /\ todo[t] \cap clientRooms[who[t]] = {}
  /\ Goto(t, "dtyping")
  /\ todo' = [todo EXCEPT ![t] = {}]
  /\ UNCHANGED <<op, who, room, obj, rest>>
  /\ UNCHANGED <<roomVars, clientVars, dbVars, session, fatal>>

DropTyping(t) ==
  /\ TypingLockFree
  /\ Advance(t, "dtyping", "dclient")
  /\ typing' = [r \in RoomIds |-> typing[r] \ {who[t]}]
  /\ UNCHANGED <<roomVars, user, sid, clients, limiters, dbVars, session, fatal>>

DropClient(t) ==
  /\ ClientsLockFree
  /\ Advance(t, "dclient", "dlimiter")
  /\ clients' = clients \ {who[t]}
  /\ UNCHANGED <<roomVars, user, sid, limiters, typing, dbVars, session, fatal>>

DropLimiter(t) ==
  /\ Advance(t, "dlimiter", "dsession")
  /\ limiters' = limiters \ {who[t]}
  /\ UNCHANGED <<roomVars, user, sid, clients, typing, dbVars, session, fatal>>

DropSession(t) ==
  /\ pc[t] = "dsession"
  /\ Store(EmptyID, who[t])
  /\ Return(t)
  /\ UNCHANGED <<roomVars, clientVars, dbVars, fatal>>

-----------------------------------------------------------------------------
(* cleanupTypingIndicators                                                 *)

\* A tick: typingMu is taken for the whole sweep.
SweepStart ==
  /\ "typing" \in Activity
  /\ Advance(Sweeper, "idle", "sweep")
  /\ UNCHANGED <<roomVars, clientVars, dbVars, session, fatal>>

\* An entry is stale: it goes, and unless its client is gone the room is
\* told, under clientsMu.
SweepNext ==
  /\ pc[Sweeper] = "sweep"
  /\ \E r \in RoomIds : \E c \in typing[r] :
       /\ typing' = [typing EXCEPT ![r] = @ \ {c}]
       /\ IF c \in clients
          THEN /\ Goto(Sweeper, "bcast")
               /\ who' = [who EXCEPT ![Sweeper] = c]
               /\ room' = [room EXCEPT ![Sweeper] = r]
          ELSE UNCHANGED <<pc, who, room>>
  /\ UNCHANGED <<op, obj, todo, rest, roomVars, user, sid, clients, limiters,
                 dbVars, session, fatal>>

\* Mutant of SweepEnd: the sweep ends with typingMu held.
SweepKeepsLock ==
  /\ Advance(Sweeper, "sweep", "end")
  /\ UNCHANGED <<roomVars, clientVars, dbVars, session, fatal>>

\* The other entries are recent.
SweepEnd ==
  /\ Advance(Sweeper, "sweep", "idle")
  /\ UNCHANGED <<roomVars, clientVars, dbVars, session, fatal>>

-----------------------------------------------------------------------------
(* Group rooms are made, and their members changed, over the HTTP API      *)

Api ==
  /\ "api" \in Activity
  /\ UNCHANGED <<threadVars, roomVars, clientVars, session, fatal>>

\* The users us are made members of r.
Invite(r, us) == invited' = [invited EXCEPT ![r] = @ \cup us]

\* A group has a new, random ID, which nobody has before its creator is a
\* member.
CreateGroupRoom ==
  /\ Api
  /\ \E r \in GroupRooms \ dbRooms, u \in Users :
       /\ dbRooms' = dbRooms \cup {r}
       /\ dbMembers' = [dbMembers EXCEPT ![r] = {u}]
       /\ Invite(r, {u})

\* The ID is "dm:" and the two user IDs joined by "_"; the members are the
\* whole user IDs.  The room was not there when GetRoom was asked; it may be
\* by now.
CreateDMRoom ==
  /\ Api
  /\ \E p \in Sorted :
       LET r == p[1] \o p[2] IN
       /\ r \in DmRooms
       /\ dbRooms' = dbRooms \cup {r}
       /\ dbMembers' = [dbMembers EXCEPT ![r] = {p[1], p[2]}]
       /\ Invite(r, {p[1], p[2]})

InviteUser ==
  /\ Api /\ UNCHANGED dbRooms
  /\ \E r \in Private, u \in Users : AddRoomMember(r, u) /\ Invite(r, {u})

RemoveUser ==
  /\ Api /\ UNCHANGED <<dbRooms, invited>>
  /\ \E r \in Private, u \in Users : RemoveRoomMember(r, u)

DeleteRoom ==
  /\ Api /\ UNCHANGED invited
  /\ \E r \in dbRooms :
       /\ dbRooms' = dbRooms \ {r}
       /\ dbMembers' = [dbMembers EXCEPT ![r] = {}]

-----------------------------------------------------------------------------
(* The Go runtime aborts when it sees a map written while another          *)
(* goroutine ranges over it, reads it or writes it: room.Clients,          *)
(* client.Rooms and the maps of rooms and members of InMemoryDB, which has *)
(* no lock (an abort in its maps of messages and receipts would end the    *)
(* same behaviours a little sooner or later)                               *)

\* t writes room.Clients of the *Room o.
WritesClients(t, o) ==
  \/ pc[t] = "enter" /\ obj[t] = o
  \/ pc[t] \in {"leave", "unroom"} /\ rooms[room[t]] = o

Race ==
  \/ \E t, u \in Threads : pc[t] = "range" /\ WritesClients(u, obj[t])
  \/ \E g \in Droppers, c \in Clients :
       /\ pc[g] \in {"start", "drooms", "dsession"} /\ who[g] = c
       /\ pc[c] \in {"own", "disown"}
  \/ \E c, d \in Clients :
       /\ c # d /\ pc[c] \in {"dbcreate", "dbadd", "dbremove"}
       /\ \/ pc[d] \in {"dbcreate", "dbadd", "dbremove"}
          \/ pc[d] = "permit" /\ room[d] \in GroupRooms
          \/ pc[d] = "dbget" /\ pc[c] = "dbcreate"

RaceAbort ==
  /\ Race
  /\ fatal' = TRUE
  /\ UNCHANGED <<threadVars, roomVars, clientVars, dbVars, session>>

Aborted == fatal /\ UNCHANGED vars

-----------------------------------------------------------------------------
JoinStep(c) ==
  \/ Lookup(c) \/ DbGetRoom(c) \/ DbCreateRoom(c) \/ Create(c) \/ Permit(c)
  \/ Enter(c) \/ Own(c) \/ DbAdd(c) \/ History(c)

LeaveStep(c) == Leave(c) \/ Disown(c) \/ DbRemove(c)

BroadcastStep(t) == BroadcastNone(t) \/ Broadcast(t) \/ Write(t) \/ Written(t)

DropStep(t) ==
  \/ DropStart(t) \/ DropNext(t) \/ Unroom(t) \/ DropRoomsDone(t)
  \/ DropTyping(t) \/ DropClient(t) \/ DropLimiter(t) \/ DropSession(t)

\* What the reader of c does once it has read a message.
ReaderStep(c) ==
  \/ Register(c) \/ SaveSession(c) \/ Typing(c) \/ Sent(c) \/ SendFails(c)
  \/ JoinStep(c) \/ LeaveStep(c) \/ BroadcastStep(c) \/ DropStep(c)

\* What a peer decides.
PeerStep(c) ==
  \/ Connect(c) \/ ReaderEnds(c) \/ ReaderLost(c) \/ PingFails(c)
  \/ RecvBad(c) \/ RecvJoin(c) \/ RecvLeave(c) \/ RecvTyping(c)
  \/ RecvSay(c) \/ RecvThreadReply(c) \/ RecvShare(c)
  \/ RecvReceipt(c) \/ RecvCall(c) \/ RecvSignal(c)

SweepStep == SweepNext \/ SweepEnd \/ BroadcastStep(Sweeper)

ApiStep == CreateGroupRoom \/ CreateDMRoom \/ InviteUser \/ RemoveUser \/ DeleteRoom

Step ==
  \/ \E c \in Clients : PeerStep(c) \/ ReaderStep(c)
  \/ \E g \in Droppers : BroadcastStep(g) \/ DropStep(g)
  \/ SweepStart \/ SweepStep \/ ApiStep \/ RaceAbort

\* Every connection has ended and no goroutine has anything left to do.
Quiet ==
  /\ \A c \in Clients : pc[c] \in {"gone", "lost"}
  /\ \A t \in Threads \ Clients : pc[t] = "idle"
  /\ UNCHANGED vars

Next == (~fatal /\ Step) \/ Aborted \/ Quiet

Spec == Init /\ [][Next]_vars

\* Goroutines that can run do run, and Go's mutexes hand over to a starving
\* waiter, so that typingMu and clientsMu are had in the end.  Nothing is
\* assumed of what a peer or the API decides, nor that a write succeeds.
Fairness ==
  /\ \A c \in Clients : SF_vars(~fatal /\ ReaderStep(c))
  /\ \A g \in Droppers : SF_vars(~fatal /\ (BroadcastStep(g) \/ DropStep(g)))
  /\ WF_vars(~fatal /\ SweepStep)

FairSpec == Spec /\ Fairness

-----------------------------------------------------------------------------
(* Properties                                                              *)

Labels == {"new", "register", "save", "idle", "gone", "lost", "send", "end", "typing",
           "lookup", "dbget", "dbcreate", "create", "permit", "enter", "own", "dbadd", "history",
           "leave", "disown", "dbremove", "bcast", "range",
           "start", "drooms", "unroom", "dtyping", "dclient", "dlimiter", "dsession", "sweep"}

\* The variables keep their types, and no goroutine uses a nil *Room or a
\* room ID it does not have: getOrCreateRoom never returns nil to a join
\* that goes on.
TypeOK ==
  /\ pc \in [Threads -> Labels]
  /\ op \in [Threads -> {"none", "drop", "join", "leave", "say", "relay", "typing", "bad"}]
  /\ who \in [Threads -> Clients \cup {None}]
  /\ room \in [Threads -> RoomIds \cup {None}]
  /\ obj \in [Threads -> Objects \cup {None}]
  /\ todo \in [Threads -> SUBSET RoomIds]
  /\ rest \in [Threads -> SUBSET Clients]
  /\ rooms \in [RoomIds -> Objects \cup {None}]
  /\ members \in [Objects -> SUBSET Clients]
  /\ clientRooms \in [Clients -> SUBSET RoomIds]
  /\ user \in [Clients -> ServerMade \cup {None}]
  /\ sid \in [Clients -> Sessions \cup {None}]
  /\ clients \subseteq Clients /\ limiters \subseteq Clients
  /\ typing \in [RoomIds -> SUBSET Clients]
  /\ dbRooms \subseteq RoomIds
  /\ dbMembers \in [RoomIds -> SUBSET Users] /\ invited \in [RoomIds -> SUBSET Users]
  /\ session \in [Sessions \cup {EmptyID} ->
                  [user : ServerMade, rooms : SUBSET RoomIds] \cup {None}]
  /\ fatal \in BOOLEAN
  /\ \A t \in Threads : pc[t] \in {"permit", "enter", "range"} => obj[t] # None

\* Whoever a broadcast to a room can reach has the room in its own
\* client.Rooms, but for the instant between the two writes of a join: that
\* is how handleLeaveRoom and handleClientDisconnect find it again.
MembersHaveRoom ==
  \A r \in RoomIds : rooms[r] # None =>
    \A c \in members[rooms[r]] : r \in clientRooms[c] \/ (pc[c] = "own" /\ room[c] = r)

\* Once the reader of a connection has ended, by handleClientDisconnect, no
\* trace of the client is left in s.rooms, s.clients, s.typingClients or
\* s.rateLimiters, whatever disconnects ran beside it before or run later.
\* This says nothing of a reader that ends without handleClientDisconnect,
\* after a pong timeout (ReaderLost): that client stays in all of them until
\* a write to it fails and disconnects it.
GoneLeavesNoTrace ==
  \A c \in Clients : pc[c] = "gone" =>
    /\ c \notin clients /\ c \notin limiters
    /\ \A r \in RoomIds :
         c \notin typing[r] /\ (rooms[r] # None => c \notin members[rooms[r]])

\* Nobody is ever in a private room, or has one among its rooms, whose user
\* the API had not made a member of it at some time (CreateGroupRoom,
\* CreateDMRoom, InviteUser), whatever the order of joins, leaves, creations,
\* deletions and restored sessions.  For a group this is the work of
\* checkRoomPermission's query, and of AddRoomMember after it: a member who is
\* removed stays where it is, and a join under way may add it again.  DM
\* rooms are private because checkRoomPermission refuses everybody, the two
\* members too: it compares the parts of the ID with whole user IDs, and
\* those of the server have two parts.
PrivateRooms ==
  \A r \in Private, c \in Clients :
    r \in clientRooms[c] \/ (rooms[r] # None /\ c \in members[rooms[r]])
      => user[c] \in invited[r]

\* Every handler that has started, the set-up of a connection included,
\* returns and every disconnect completes, wherever they wait for a lock:
\* the sweep, which broadcasts under typingMu and clientsMu, and the
\* disconnects, which want both, never block each other for good.
HandlersEnd ==
  \A t \in Clients \cup Droppers :
    pc[t] \notin {"new", "idle", "gone", "lost"} ~> pc[t] \in {"idle", "gone"} \/ fatal

\* server.go: "broadcastToRoom sends a message to all clients in a room".  A
\* client that has joined a room and waits for messages is in the *Room
\* that broadcasts go to.
JoinedIsReached ==
  \A c \in Clients : pc[c] = "idle" =>
    \A r \in clientRooms[c] : rooms[r] # None /\ c \in members[rooms[r]]

=============================================================================
