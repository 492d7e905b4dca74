-------------------------- MODULE ChatRoomsProofs --------------------------
(***************************************************************************)
(* Proofs about ChatRooms for any number of connections, rooms, users,     *)
(* *Room objects and disconnects that run beside each other: the types,    *)
(* MembersHaveRoom, PrivateRooms and GoneLeavesNoTrace.                    *)
(*                                                                         *)
(* The invariant is local: Settled(t) says what goroutine t has in hand at *)
(* each of its labels and, when t reads a connection, where that client is *)
(* in the maps of the server.  A step of t changes few of the things that  *)
(* Settled(u) reads for another u: a client is only put into room.Clients, *)
(* client.Rooms, s.typingClients, s.clients and s.rateLimiters by its own  *)
(* reader, and everyone else only takes it out.  OthersSettled says so     *)
(* once; what is left, for each action, is Settled of the goroutine that   *)
(* moved (and of the disconnect it started).                               *)
(*                                                                         *)
(* Two facts are global.  Distinct: s.rooms maps no two IDs to one *Room,  *)
(* so a removal under one ID is no removal under another.  StorePrivate is *)
(* what PrivateRooms asks of the sessions in Redis, from which Connect     *)
(* restores the rooms of a client, and of the members in the database,     *)
(* which checkRoomPermission asks.                                         *)
(***************************************************************************)
EXTENDS ChatRooms, TLAPS
\* The types, by the groups of variables that steps leave alone.
ThreadTyped ==
  /\ pc \in [Threads -> Labels]
  /\ op \in [Threads -> {"none", "drop", "join", "leave", "say", "relay", "typing", "bad"}]
  /\ who \in [Threads -> Clients \cup {None}]
  /\ room \in [Threads -> RoomIds \cup {None}]
  /\ obj \in [Threads -> Objects \cup {None}]
  /\ todo \in [Threads -> SUBSET RoomIds]
  /\ rest \in [Threads -> SUBSET Clients]

RoomTyped ==
  /\ rooms \in [RoomIds -> Objects \cup {None}]
  /\ members \in [Objects -> SUBSET Clients]
  /\ clientRooms \in [Clients -> SUBSET RoomIds]

ClientTyped ==
  /\ user \in [Clients -> ServerMade \cup {None}]
  /\ sid \in [Clients -> Sessions \cup {None}]
  /\ clients \subseteq Clients /\ limiters \subseteq Clients
  /\ typing \in [RoomIds -> SUBSET Clients]

StoreTyped ==
  /\ dbRooms \subseteq RoomIds
  /\ dbMembers \in [RoomIds -> SUBSET Users] /\ invited \in [RoomIds -> SUBSET Users]
  /\ session \in [Sessions \cup {EmptyID} ->
                  [user : ServerMade, rooms : SUBSET RoomIds] \cup {None}]
  /\ fatal \in BOOLEAN

Typed == ThreadTyped /\ RoomTyped /\ ClientTyped /\ StoreTyped

\* s.rooms maps no two IDs to one *Room.
Distinct == \A r, q \in RoomIds : rooms[r] = rooms[q] /\ rooms[r] # None => r = q

\* A session names a private room only if its user was made a member of it,
\* and so was everybody the database has as a member.
StorePrivate ==
  /\ \A k \in Sessions \cup {EmptyID} : session[k] # None =>
       \A r \in Private \cap session[k].rooms : session[k].user \in invited[r]
  /\ \A r \in Private : dbMembers[r] \subseteq invited[r]

\* Labels of handleClientDisconnect, apart from its broadcasts.
DropLabels == {"start", "drooms", "unroom", "dtyping", "dclient", "dlimiter", "dsession"}

\* Labels at which a goroutine has a room ID in hand.
InRoom == {"lookup", "dbget", "dbcreate", "create", "permit", "enter", "own", "dbadd", "history",
           "leave", "disown", "dbremove", "typing", "bcast", "range", "unroom"}

\* What a goroutine has in hand, where it is.
Placed(t) ==
  /\ t \in Clients => who[t] = t /\ pc[t] # "sweep"
  /\ t \in Droppers =>
       /\ pc[t] \in DropLabels \cup {"idle", "bcast", "range"}
       /\ pc[t] # "idle" => op[t] = "drop" /\ who[t] \in Clients /\ pc[who[t]] # "new"
  /\ t = Sweeper => op[t] = "none" /\ pc[t] \in {"idle", "sweep", "bcast", "range"}
  /\ pc[t] \in InRoom => room[t] \in RoomIds
  /\ pc[t] \in {"permit", "enter", "range"} => obj[t] # None
  /\ pc[t] \in DropLabels => op[t] = "drop"
  /\ op[t] = "drop" => pc[t] \in DropLabels \cup {"bcast", "range"}

\* c is in the *Room that is in s.rooms under r.
Has(c, r) == rooms[r] # None /\ c \in members[rooms[r]]

\* A connection has a user and a session ID once its client is made, and no
\* room has it before.
Registered(c) ==
  /\ pc[c] = "new" => clientRooms[c] = {} /\ \A o \in Objects : c \notin members[o]
  /\ pc[c] # "new" => user[c] \in ServerMade /\ sid[c] \in Sessions

\* MembersHaveRoom for c, and what a join and a leave need for it: the *Room
\* that is about to be entered is that of the room's ID or of none, and a
\* client that is about to forget a room has left it.
Findable(c) ==
  /\ \A r \in RoomIds : Has(c, r) => r \in clientRooms[c] \/ (pc[c] = "own" /\ room[c] = r)
  /\ pc[c] \in {"permit", "enter"} => \A r \in RoomIds : rooms[r] = obj[c] => r = room[c]
  /\ pc[c] = "disown" => ~Has(c, room[c])

\* PrivateRooms for c; who is about to be in the room has been admitted.
Admitted(c) ==
  /\ \A r \in Private : r \in clientRooms[c] \/ Has(c, r) => user[c] \in invited[r]
  /\ pc[c] \in {"enter", "own", "dbadd"} /\ room[c] \in Private => user[c] \in invited[room[c]]

\* How far the disconnect has come that the reader of c runs.
Leaving(c) ==
  /\ op[c] = "drop" /\ pc[c] \in {"drooms", "bcast", "range", "unroom"} =>
       \A r \in RoomIds \ todo[c] : Has(c, r) => r = room[c] /\ pc[c] # "drooms"
  /\ pc[c] \in {"dtyping", "dclient", "dlimiter", "dsession", "gone"} =>
       \A r \in RoomIds : ~Has(c, r)
  /\ pc[c] \in {"dclient", "dlimiter", "dsession", "gone"} => \A r \in RoomIds : c \notin typing[r]
  /\ pc[c] \in {"dlimiter", "dsession", "gone"} => c \notin clients
  /\ pc[c] \in {"dsession", "gone"} => c \notin limiters

Settled(t) ==
  /\ Placed(t)
  /\ t \in Clients => Registered(t) /\ Findable(t) /\ Admitted(t) /\ Leaving(t)

\* The inductive invariant.
Inv == Typed /\ Distinct /\ StorePrivate /\ \A t \in Threads : Settled(t)

-----------------------------------------------------------------------------
(* What a step leaves alone                                                *)

\* The goroutines outside S stay where they are.
Others(S) ==
  \A u \in Threads \ S :
    /\ pc'[u] = pc[u] /\ op'[u] = op[u] /\ who'[u] = who[u]
    /\ room'[u] = room[u] /\ obj'[u] = obj[u]
    /\ u \in Clients => todo'[u] = todo[u]

\* No connection becomes new again.
NoneNew == \A u \in Threads : pc'[u] = "new" => pc[u] = "new"

\* Nothing is added for a client outside S.
Shrinks(S) ==
  /\ clients' \subseteq clients \cup S
  /\ limiters' \subseteq limiters \cup S
  /\ \A r \in RoomIds : typing'[r] \subseteq typing[r] \cup S

\* Neither rooms nor members of rooms are added for a client outside S, and
\* no invitation is taken back.
RoomsShrink(S) ==
  /\ \A r \in RoomIds : invited[r] \subseteq invited'[r]
  /\ \A c \in Clients \ S :
       /\ clientRooms'[c] = clientRooms[c] /\ user'[c] = user[c] /\ sid'[c] = sid[c]
       /\ \A o \in Objects : c \in members'[o] => c \in members[o]
       /\ \A r \in RoomIds : Has(c, r)' => Has(c, r)
       /\ pc[c] \in {"permit", "enter"} =>
            \A r \in RoomIds : rooms'[r] = obj[c] => rooms[r] = obj[c]

SameRooms == UNCHANGED <<rooms, members, clientRooms, user, sid, invited>>

\* TypeOK is what Typed and Placed say.
LEMMA InvTypeOK == Inv => TypeOK
  BY DEF Inv, Typed, ThreadTyped, RoomTyped, ClientTyped, StoreTyped, Settled, Placed, TypeOK

\* A step of the goroutines in S undoes nothing of the others.
LEMMA OthersSettled ==
  ASSUME Inv, NEW S \in SUBSET Threads, Others(S), NoneNew, Shrinks(S), RoomsShrink(S)
  PROVE  \A u \in Threads \ S : Settled(u)'
  <1> SUFFICES ASSUME NEW u \in Threads \ S PROVE Settled(u)' OBVIOUS
  <1>0. Settled(u) /\ ThreadTyped /\ ClientTyped BY DEF Inv, Typed
  <1>1. /\ pc'[u] = pc[u] /\ op'[u] = op[u] /\ who'[u] = who[u]
        /\ room'[u] = room[u] /\ obj'[u] = obj[u]
        /\ u \in Clients => todo'[u] = todo[u]
    BY DEF Others
  <1>2. Placed(u)'
    <2>1. Placed(u) BY <1>0 DEF Settled
    <2>2. who[u] \in Clients /\ pc[who[u]] # "new" => pc'[who[u]] # "new"
      BY DEF NoneNew, Threads
    <2> QED BY <1>1, <2>1, <2>2 DEF Placed
  <1>3. ASSUME u \in Clients PROVE Registered(u)' /\ Findable(u)' /\ Admitted(u)' /\ Leaving(u)'
    <2>0. /\ Registered(u) /\ Findable(u) /\ Admitted(u) /\ Leaving(u) /\ Placed(u)
      BY <1>0, <1>3 DEF Settled
    <2>1. /\ clientRooms'[u] = clientRooms[u] /\ user'[u] = user[u] /\ sid'[u] = sid[u]
          /\ \A o \in Objects : u \in members'[o] => u \in members[o]
          /\ \A r \in RoomIds : Has(u, r)' => Has(u, r)
          /\ pc[u] \in {"permit", "enter"} =>
               \A r \in RoomIds : rooms'[r] = obj[u] => rooms[r] = obj[u]
          /\ \A r \in RoomIds : invited[r] \subseteq invited'[r]
      BY <1>3 DEF RoomsShrink
    <2>2. /\ u \in clients' => u \in clients
          /\ u \in limiters' => u \in limiters
          /\ \A r \in RoomIds : u \in typing'[r] => u \in typing[r]
      BY DEF Shrinks
    <2>3. Registered(u)' BY <1>1, <2>0, <2>1 DEF Registered
    <2>4. pc[u] = "disown" => room[u] \in RoomIds BY <2>0 DEF Placed, InRoom
    <2>5. Findable(u)' BY <1>1, <2>0, <2>1, <2>4 DEF Findable
    <2>6. Admitted(u)' BY <1>1, <2>0, <2>1 DEF Admitted, RoomIds, Private
    <2>7. Leaving(u)' BY <1>1, <1>3, <2>0, <2>1, <2>2 DEF Leaving
    <2> QED BY <2>3, <2>5, <2>6, <2>7
  <1> QED BY <1>2, <1>3 DEF Settled

\* A step that leaves the rooms alone keeps the invariant if the goroutines
\* that move are settled again.
LEMMA ControlKeeps ==
  ASSUME Inv, NEW S \in SUBSET Threads, Others(S), NoneNew, Shrinks(S), SameRooms,
         Typed', StorePrivate', \A u \in S : Settled(u)'
  PROVE  Inv'
  <1>1. RoomsShrink(S) BY DEF SameRooms, RoomsShrink, Has
  <1>2. \A u \in Threads \ S : Settled(u)' BY <1>1, OthersSettled
  <1>3. Distinct' BY DEF SameRooms, Inv, Distinct
  <1> QED BY <1>2, <1>3 DEF Inv

\* Labels of a reader at which nothing is asked of the rooms.
Plain == {"save", "idle", "lost", "send", "end", "lookup", "dbget", "dbcreate", "create",
          "history", "leave", "dbremove", "typing", "bcast", "range"}

LEMMA PlainSettled ==
  ASSUME Inv, NEW c \in Clients, SameRooms, Placed(c)',
         pc[c] \notin {"new", "own"}, pc'[c] \in Plain, op'[c] # "drop"
  PROVE  Settled(c)'
  <1> USE DEF Threads
  <1>1. Registered(c) /\ Findable(c) /\ Admitted(c) BY DEF Inv, Settled
  <1>2. \A r \in RoomIds : Has(c, r)' <=> Has(c, r) BY DEF SameRooms, Has
  <1>3. Registered(c)' BY <1>1 DEF Registered, SameRooms, Plain
  <1>4. Findable(c)' BY <1>1, <1>2 DEF Findable, SameRooms, Plain
  <1>5. Admitted(c)' BY <1>1, <1>2 DEF Admitted, SameRooms, Plain, RoomIds, Private
  <1>6. Leaving(c)' BY DEF Leaving, Plain
  <1> QED BY <1>3, <1>4, <1>5, <1>6 DEF Settled

\* A reader moves between such labels, and only its own data changes.
LEMMA ReaderMoves ==
  ASSUME Inv, NEW c \in Clients, Others({c}), SameRooms, Shrinks({c}), Typed', StorePrivate',
         Placed(c)', pc[c] \notin {"new", "own"}, pc'[c] \in Plain, op'[c] # "drop"
  PROVE  Inv'
  <1> USE DEF Threads
  <1>1. Settled(c)' BY PlainSettled
  <1>2. NoneNew BY DEF Others, NoneNew, Plain
  <1> QED BY <1>1, <1>2, ControlKeeps

\* The same beside the start of a goroutine that disconnects d.
LEMMA ReaderMovesAndSpawns ==
  ASSUME Inv, NEW c \in Clients, NEW g \in Droppers, NEW d \in Clients, NEW label \in Plain,
         Spawn(c, label, d, g), pc[d] # "new", pc[c] \notin {"new", "own"}, op[c] # "drop",
         UNCHANGED <<room, obj, todo, rest, roomVars, clientVars, dbVars, session, fatal>>,
         label \in InRoom => room[c] \in RoomIds, label # "range"
  PROVE  Inv'
  <1> USE DEF Threads
  <1>0. Typed /\ c # g /\ pc[g] = "idle" /\ Placed(c) /\ Placed(g)
    BY ChatAssumption DEF Inv, Settled, Spawn
  <1>1. /\ pc' = [pc EXCEPT ![c] = label, ![g] = "start"]
        /\ op' = [op EXCEPT ![g] = "drop"]
        /\ who' = [who EXCEPT ![g] = d]
        /\ room' = room /\ obj' = obj /\ todo' = todo /\ rest' = rest
    BY DEF Spawn
  <1>2. UNCHANGED <<rooms, members, clientRooms, user, sid, clients, limiters, typing,
                    dbRooms, dbMembers, invited, session, fatal>>
    BY DEF roomVars, clientVars, dbVars
  <1>3. SameRooms BY <1>2 DEF SameRooms
  <1>4. ThreadTyped' BY <1>0, <1>1 DEF Typed, ThreadTyped, Labels, Plain
  <1>5. Typed' /\ StorePrivate'
    BY <1>0, <1>2, <1>4 DEF Inv, Typed, RoomTyped, ClientTyped, StoreTyped, StorePrivate
  <1>6. Others({c, g}) BY <1>0, <1>1 DEF Others, Typed, ThreadTyped
  <1>7. /\ pc'[c] = label /\ op'[c] = op[c] /\ who'[c] = who[c] /\ room'[c] = room[c]
        /\ obj'[c] = obj[c]
        /\ pc'[g] = "start" /\ op'[g] = "drop" /\ who'[g] = d /\ room'[g] = room[g]
    BY <1>0, <1>1 DEF Typed, ThreadTyped
  <1>8. NoneNew BY <1>6, <1>7 DEF Others, NoneNew, Plain
  <1>9. pc'[d] # "new" BY <1>8 DEF NoneNew
  <1>10. Placed(g)' BY <1>7, <1>9, ChatAssumption DEF Placed, DropLabels, InRoom
  <1>11. Settled(g)' BY <1>10, ChatAssumption DEF Settled
  <1>12. Placed(c)' BY <1>0, <1>7, ChatAssumption DEF Placed, DropLabels, Plain
  <1>13. Settled(c)' BY <1>3, <1>7, <1>12, PlainSettled
  <1>14. Shrinks({c, g}) BY <1>2 DEF Shrinks
  <1> QED BY <1>3, <1>5, <1>6, <1>8, <1>11, <1>13, <1>14, ControlKeeps

-----------------------------------------------------------------------------
(* Messages                                                                *)

\* handleMessage: a message is read; only its handler's room and the limiter
\* change.
LEMMA RecvKeeps ==
  ASSUME Inv, NEW c \in Clients, NEW r, NEW label,
         NEW type \in {"join", "leave", "say", "relay", "typing", "bad"},
         Recv(c, type, r, label),
         \/ label \in {"send", "end"} /\ r \in RoomIds \cup {None}
         \/ label \in {"lookup", "leave", "typing", "bcast"} /\ r \in RoomIds,
         UNCHANGED typing
  PROVE  Inv'
  <1> USE DEF Threads
  <1>0. Typed /\ Placed(c) BY DEF Inv, Settled
  <1>1. /\ pc[c] = "idle"
        /\ pc' = [pc EXCEPT ![c] = label] /\ op' = [op EXCEPT ![c] = type]
        /\ room' = [room EXCEPT ![c] = r]
        /\ who' = who /\ obj' = obj /\ todo' = todo /\ rest' = rest
        /\ limiters' = limiters \cup {c}
        /\ UNCHANGED <<rooms, members, clientRooms, user, sid, clients, dbRooms, dbMembers, invited,
                       session, fatal>>
    BY DEF Recv, Goto, checkRateLimit, roomVars, dbVars
  <1>2. /\ pc'[c] = label /\ op'[c] = type /\ who'[c] = who[c] /\ room'[c] = r
    BY <1>0, <1>1 DEF Typed, ThreadTyped
  <1>3. SameRooms BY <1>1 DEF SameRooms
  <1>4. ThreadTyped' BY <1>0, <1>1 DEF Typed, ThreadTyped, Labels
  <1>5. ClientTyped' BY <1>0, <1>1 DEF Typed, ClientTyped
  <1>6. Typed' /\ StorePrivate'
    BY <1>0, <1>1, <1>4, <1>5 DEF Inv, Typed, RoomTyped, StoreTyped, StorePrivate
  <1>7. Others({c}) BY <1>0, <1>1 DEF Others, Typed, ThreadTyped
  <1>8. Shrinks({c}) BY <1>1 DEF Shrinks
  <1>9. Placed(c)' BY <1>0, <1>1, <1>2, ChatAssumption DEF Placed, DropLabels, InRoom
  <1> QED BY <1>1, <1>2, <1>3, <1>6, <1>7, <1>8, <1>9, ReaderMoves DEF Plain

\* Every message that a reader may read.
LEMMA AnyRecvKeeps ==
  ASSUME Inv, NEW c \in Clients,
         \/ RecvBad(c) \/ RecvJoin(c) \/ RecvLeave(c) \/ RecvTyping(c)
         \/ Forward(c, "say") \/ Forward(c, "relay")
  PROVE  Inv'
  <1>1. CASE RecvBad(c) BY <1>1, RecvKeeps DEF RecvBad
  <1>2. CASE RecvJoin(c) BY <1>2, RecvKeeps DEF RecvJoin
  <1>3. CASE RecvLeave(c)
    <2>1. PICK r \in RoomIds : Recv(c, "leave", r, IF r \in clientRooms[c] THEN "leave" ELSE "send")
                               /\ typing' = typing
      BY <1>3 DEF RecvLeave
    <2>2. CASE r \in clientRooms[c] BY <2>1, <2>2, RecvKeeps
    <2>3. CASE r \notin clientRooms[c] BY <2>1, <2>3, RecvKeeps
    <2> QED BY <2>2, <2>3
  <1>4. CASE RecvTyping(c) BY <1>4, RecvKeeps DEF RecvTyping
  <1>5. ASSUME NEW type \in {"say", "relay"}, Forward(c, type) PROVE Inv'
    BY <1>5, RecvKeeps DEF Forward
  <1> QED BY <1>1, <1>2, <1>3, <1>4, <1>5

-----------------------------------------------------------------------------
(* Steps of handlers that leave the rooms alone                            *)

\* A reader goes on to the next step of its handler, which may add the
\* client to s.clients or to s.typingClients.
LEMMA StepKeeps ==
  ASSUME Inv, NEW c \in Clients, NEW from, NEW label \in Plain \ {"range"}, Advance(c, from, label),
         from \notin {"new", "own"}, op[c] # "drop", label \in InRoom => room[c] \in RoomIds,
         UNCHANGED <<roomVars, user, sid, invited>>, Shrinks({c}),
         ClientTyped', StoreTyped', StorePrivate'
  PROVE  Inv'
  <1> USE DEF Threads
  <1>0. Typed /\ Placed(c) BY DEF Inv, Settled
  <1>1. /\ pc[c] = from /\ pc' = [pc EXCEPT ![c] = label]
        /\ op' = op /\ who' = who /\ room' = room /\ obj' = obj /\ todo' = todo /\ rest' = rest
        /\ UNCHANGED <<rooms, members, clientRooms>>
    BY DEF Advance, Goto, roomVars
  <1>2. pc'[c] = label BY <1>0, <1>1 DEF Typed, ThreadTyped
  <1>3. SameRooms BY <1>1 DEF SameRooms
  <1>4. ThreadTyped' BY <1>0, <1>1 DEF Typed, ThreadTyped, Labels, Plain
  <1>5. Typed' BY <1>0, <1>1, <1>4 DEF Typed, RoomTyped
  <1>6. Others({c}) BY <1>0, <1>1 DEF Others, Typed, ThreadTyped
  <1>7. Placed(c)' BY <1>0, <1>1, <1>2, ChatAssumption DEF Placed, DropLabels, Plain
  <1> QED BY <1>1, <1>2, <1>3, <1>5, <1>6, <1>7, ReaderMoves

\* The same when it adds the client nowhere.
LEMMA AdvanceKeeps ==
  ASSUME Inv, NEW c \in Clients, NEW from, NEW label \in Plain \ {"range"}, Advance(c, from, label),
         from \notin {"new", "own"}, op[c] # "drop", label \in InRoom => room[c] \in RoomIds,
         UNCHANGED <<roomVars, clientVars, invited>>, StoreTyped', StorePrivate'
  PROVE  Inv'
  <1>1. UNCHANGED <<user, sid, clients, limiters, typing>> BY DEF clientVars
  <1>2. Shrinks({c}) BY <1>1 DEF Shrinks
  <1>3. ClientTyped' BY <1>1 DEF Inv, Typed, ClientTyped
  <1> QED BY <1>1, <1>2, <1>3, StepKeeps

\* A handler of a message returns, and its reader reads on.
LEMMA ReturnKeeps ==
  ASSUME Inv, NEW c \in Clients, Return(c), op[c] # "drop", pc[c] \notin {"new", "own"},
         UNCHANGED <<roomVars, clientVars, dbVars, session, fatal>>
  PROVE  Inv'
  <1> USE DEF Threads
  <1>0. Typed /\ Placed(c) BY DEF Inv, Settled
  <1>1. /\ pc' = [pc EXCEPT ![c] = "idle"] /\ op' = [op EXCEPT ![c] = "none"]
        /\ who' = [who EXCEPT ![c] = c] /\ room' = [room EXCEPT ![c] = None]
        /\ obj' = [obj EXCEPT ![c] = None]
        /\ todo' = [todo EXCEPT ![c] = {}] /\ rest' = [rest EXCEPT ![c] = {}]
    BY ChatAssumption DEF Return, Rest, Goto
  <1>2. UNCHANGED <<rooms, members, clientRooms, user, sid, clients, limiters, typing,
                    dbRooms, dbMembers, invited, session, fatal>>
    BY DEF roomVars, clientVars, dbVars
  <1>3. pc'[c] = "idle" /\ op'[c] = "none" /\ who'[c] = c
    BY <1>0, <1>1 DEF Typed, ThreadTyped
  <1>4. SameRooms /\ Shrinks({c}) BY <1>2 DEF SameRooms, Shrinks
  <1>5. ThreadTyped' BY <1>0, <1>1 DEF Typed, ThreadTyped, Labels
  <1>6. Typed' /\ StorePrivate'
    BY <1>0, <1>2, <1>5 DEF Inv, Typed, RoomTyped, ClientTyped, StoreTyped, StorePrivate
  <1>7. Others({c}) BY <1>0, <1>1 DEF Others, Typed, ThreadTyped
  <1>8. Placed(c)' BY <1>3, ChatAssumption DEF Placed, DropLabels, InRoom
  <1> QED BY <1>3, <1>4, <1>6, <1>7, <1>8, ReaderMoves DEF Plain

\* The steps of joins and leaves that only touch the database, and the
\* answers to the client.
LEMMA HandlerKeeps ==
  ASSUME Inv, NEW c \in Clients,
         \/ DbGetRoom(c) \/ DbCreateRoom(c) \/ DbAdd(c) \/ DbRemove(c)
         \/ History(c) \/ Sent(c) \/ SendFails(c)
  PROVE  Inv'
  <1> USE DEF Threads
  <1>0. Typed /\ Placed(c) /\ StorePrivate BY DEF Inv, Settled
  <1>1. CASE DbGetRoom(c)
    <2>1. PICK label \in {"create", "dbcreate", "send"} : Advance(c, "dbget", label)
      BY <1>1 DEF DbGetRoom
    <2>2. pc[c] = "dbget" BY <2>1 DEF Advance
    <2>3. op[c] # "drop" /\ room[c] \in RoomIds
      BY <1>0, <2>2 DEF Placed, DropLabels, InRoom
    <2>4. UNCHANGED <<roomVars, clientVars, dbVars, invited, session, fatal>>
      BY <1>1 DEF DbGetRoom, dbVars
    <2>5. StoreTyped' /\ StorePrivate'
      BY <1>0, <2>4 DEF Typed, StoreTyped, StorePrivate, dbVars
    <2> QED BY <2>1, <2>3, <2>4, <2>5, AdvanceKeeps DEF Plain
  <1>2. CASE DbCreateRoom(c)
    <2>1. Advance(c, "dbcreate", "create") BY <1>2 DEF DbCreateRoom
    <2>2. pc[c] = "dbcreate" BY <2>1 DEF Advance
    <2>3. op[c] # "drop" /\ room[c] \in RoomIds
      BY <1>0, <2>2 DEF Placed, DropLabels, InRoom
    <2>4. UNCHANGED <<roomVars, clientVars, invited, session, fatal>> BY <1>2 DEF DbCreateRoom
    <2>5. StoreTyped' /\ StorePrivate'
      BY <1>0, <1>2, <2>3, <2>4 DEF DbCreateRoom, CreateRoom, Typed, StoreTyped, StorePrivate,
                                   Private, RoomIds
    <2> QED BY <2>1, <2>3, <2>4, <2>5, AdvanceKeeps DEF Plain
  <1>3. CASE DbAdd(c)
    <2>1. Advance(c, "dbadd", "history") BY <1>3 DEF DbAdd
    <2>2. pc[c] = "dbadd" BY <2>1 DEF Advance
    <2>3. op[c] # "drop" /\ room[c] \in RoomIds
      BY <1>0, <2>2 DEF Placed, DropLabels, InRoom
    <2>4. UNCHANGED <<roomVars, clientVars, dbRooms, invited, session, fatal>> BY <1>3 DEF DbAdd
    <2>5. user[c] \in Users /\ (room[c] \in Private => user[c] \in invited[room[c]])
      BY <2>2 DEF Inv, Settled, Registered, Admitted, ServerMade
    <2>6. StoreTyped' /\ StorePrivate'
      BY <1>0, <1>3, <2>3, <2>4, <2>5 DEF DbAdd, AddRoomMember, Typed, StoreTyped,
                                         StorePrivate, Private, RoomIds
    <2> QED BY <2>1, <2>3, <2>4, <2>6, AdvanceKeeps DEF Plain
  <1>4. CASE DbRemove(c)
    <2>1. Advance(c, "dbremove", "bcast") BY <1>4 DEF DbRemove
    <2>2. pc[c] = "dbremove" BY <2>1 DEF Advance
    <2>3. op[c] # "drop" /\ room[c] \in RoomIds
      BY <1>0, <2>2 DEF Placed, DropLabels, InRoom
    <2>4. UNCHANGED <<roomVars, clientVars, dbRooms, invited, session, fatal>> BY <1>4 DEF DbRemove
    <2>5. StoreTyped' /\ StorePrivate'
      BY <1>0, <1>4, <2>3, <2>4 DEF DbRemove, RemoveRoomMember, Typed, StoreTyped, StorePrivate,
                                   Private, RoomIds
    <2> QED BY <2>1, <2>3, <2>4, <2>5, AdvanceKeeps DEF Plain
  <1>5. CASE History(c)
    <2>1. /\ pc[c] = "history"
          /\ UNCHANGED <<roomVars, clientVars, dbVars, invited, session, fatal>>
      BY <1>5 DEF History, Advance, dbVars
    <2>2. op[c] # "drop" /\ room[c] \in RoomIds
      BY <1>0, <2>1 DEF Placed, DropLabels, InRoom
    <2>3. StoreTyped' /\ StorePrivate'
      BY <1>0, <2>1 DEF Typed, StoreTyped, StorePrivate, dbVars
    <2>4. CASE Advance(c, "history", "bcast")
      BY <2>1, <2>2, <2>3, <2>4, AdvanceKeeps DEF Plain
    <2>5. CASE \E g \in Droppers : Spawn(c, "bcast", c, g) /\ UNCHANGED <<room, obj, todo, rest>>
      BY <2>1, <2>2, <2>5, ReaderMovesAndSpawns DEF Plain
    <2> QED BY <1>5, <2>4, <2>5 DEF History
  <1>6. CASE Sent(c)
    BY <1>0, <1>6, ReturnKeeps DEF Sent, Placed, DropLabels
  <1>7. CASE SendFails(c)
    <2>1. pc[c] = "send" /\ op[c] # "drop" BY <1>0, <1>7 DEF SendFails, Placed, DropLabels
    <2> QED BY <1>7, <2>1, ReaderMovesAndSpawns DEF SendFails, Plain, InRoom
  <1> QED BY <1>1, <1>2, <1>3, <1>4, <1>5, <1>6, <1>7

\* What is stored of a client under a session ID is as private as the client.
LEMMA StoreKeeps ==
  ASSUME Inv, NEW c \in Clients, NEW k \in Sessions \cup {EmptyID}, pc[c] # "new", Store(k, c),
         UNCHANGED <<dbVars, fatal>>
  PROVE  StoreTyped' /\ StorePrivate'
  <1> USE DEF Threads
  <1>1. Admitted(c) /\ Registered(c) /\ Typed /\ StorePrivate BY DEF Inv, Settled
  <1>2. CASE UNCHANGED session
    BY <1>1, <1>2 DEF StoreTyped, StorePrivate, Typed, dbVars
  <1>3. CASE session' = [session EXCEPT ![k] = [user |-> user[c], rooms |-> clientRooms[c]]]
    <2>1. user[c] \in ServerMade /\ clientRooms[c] \subseteq RoomIds
      BY <1>1 DEF Registered, Typed, RoomTyped
    <2>2. StoreTyped' BY <1>1, <1>3, <2>1 DEF StoreTyped, Typed, dbVars
    <2>3. \A j \in Sessions \cup {EmptyID} :
            session'[j] = IF j = k THEN [user |-> user[c], rooms |-> clientRooms[c]] ELSE session[j]
      BY <1>1, <1>3 DEF Typed, StoreTyped
    <2>4. \A r \in Private \cap clientRooms[c] : user[c] \in invited[r]
      BY <1>1 DEF Admitted
    <2>5. StorePrivate' BY <1>1, <2>3, <2>4 DEF StorePrivate, dbVars
    <2> QED BY <2>2, <2>5
  <1> QED BY <1>2, <1>3 DEF Store

LEMMA SaveSessionKeeps ==
  ASSUME Inv, NEW c \in Clients, SaveSession(c)
  PROVE  Inv'
  <1> USE DEF Threads
  <1>0. Placed(c) /\ Registered(c) BY DEF Inv, Settled
  <1>1. pc[c] = "save" BY DEF SaveSession, Advance
  <1>2. op[c] # "drop" /\ sid[c] \in Sessions BY <1>0, <1>1 DEF Placed, Registered, DropLabels
  <1>3. StoreTyped' /\ StorePrivate' BY <1>1, <1>2, StoreKeeps DEF SaveSession
  <1>4. UNCHANGED <<roomVars, clientVars, invited>> BY DEF SaveSession, dbVars
  <1> QED BY <1>2, <1>3, <1>4, AdvanceKeeps DEF SaveSession, Plain, InRoom

\* s.clients[clientID] = client; a typing indicator is set or cleared; the
\* reader ends and nothing is taken apart.
LEMMA PlainStepsKeep ==
  ASSUME Inv, NEW c \in Clients, Register(c) \/ Typing(c) \/ ReaderLost(c)
  PROVE  Inv'
  <1> USE DEF Threads
  <1>0. Typed /\ Placed(c) BY DEF Inv, Settled
  <1>1. UNCHANGED <<roomVars, user, sid, limiters, dbRooms, dbMembers, invited, session, fatal>>
    BY DEF Register, Typing, ReaderLost, clientVars, dbVars
  <1>2. StoreTyped' /\ StorePrivate' BY <1>0, <1>1 DEF Inv, Typed, StoreTyped, StorePrivate
  <1>3. CASE Register(c)
    <2>1. /\ Advance(c, "register", "save") /\ pc[c] = "register"
          /\ clients' = clients \cup {c} /\ typing' = typing
      BY <1>3 DEF Register, Advance
    <2>2. op[c] # "drop" BY <1>0, <2>1 DEF Placed, DropLabels
    <2>3. Shrinks({c}) /\ ClientTyped' BY <1>0, <1>1, <2>1 DEF Shrinks, Typed, ClientTyped
    <2> QED BY <1>1, <1>2, <2>1, <2>2, <2>3, StepKeeps DEF Plain, InRoom
  <1>4. CASE Typing(c)
    <2>1. /\ Advance(c, "typing", "bcast") /\ pc[c] = "typing" /\ clients' = clients
          /\ \/ typing' = [typing EXCEPT ![room[c]] = @ \cup {c}]
             \/ typing' = [typing EXCEPT ![room[c]] = @ \ {c}]
      BY <1>4 DEF Typing, Advance
    <2>2. op[c] # "drop" /\ room[c] \in RoomIds BY <1>0, <2>1 DEF Placed, DropLabels, InRoom
    <2>3. Shrinks({c}) /\ ClientTyped'
      BY <1>0, <1>1, <2>1, <2>2 DEF Shrinks, Typed, ClientTyped
    <2> QED BY <1>1, <1>2, <2>1, <2>2, <2>3, StepKeeps DEF Plain
  <1>5. CASE ReaderLost(c)
    <2>1. Advance(c, "idle", "lost") /\ pc[c] = "idle" /\ UNCHANGED clientVars
      BY <1>5 DEF ReaderLost, Advance
    <2>2. op[c] # "drop" BY <1>0, <2>1 DEF Placed, DropLabels
    <2> QED BY <1>1, <1>2, <2>1, <2>2, AdvanceKeeps DEF Plain, InRoom
  <1> QED BY <1>3, <1>4, <1>5

\* No part of the ID of a DM room is the user ID of a connection.
LEMMA SplitRefuses ==
  ASSUME NEW u \in ServerMade, NEW r
  PROVE  u \notin Split(r)
  <1>1. Len(u) = 2 BY DEF ServerMade
  <1>2. \A x : Len(<<x>>) = 1 OBVIOUS
  <1> QED BY <1>1, <1>2 DEF Split

\* Lookup and Permit: the *Room in hand is that of the room, and who is to
\* enter a private room was made a member of it.
LEMMA AdmissionKeeps ==
  ASSUME Inv, NEW c \in Clients, Lookup(c) \/ Permit(c)
  PROVE  Inv'
  <1> USE DEF Threads
  <1>0. Typed /\ Placed(c) /\ Registered(c) /\ Findable(c) /\ Admitted(c) /\ Distinct /\ StorePrivate
    BY DEF Inv, Settled
  <1>1. UNCHANGED <<rooms, members, clientRooms, user, sid, clients, limiters, typing,
                    dbRooms, dbMembers, invited, session, fatal>>
    BY DEF Lookup, Permit, roomVars, clientVars, dbVars
  <1>2. PICK label \in {"permit", "enter", "dbget", "create", "send"} : pc' = [pc EXCEPT ![c] = label]
    BY DEF Lookup, Permit, Advance, Goto, Admit
  <1>3. /\ pc[c] \in {"lookup", "permit"} /\ room[c] \in RoomIds /\ op[c] # "drop"
        /\ op' = op /\ who' = who /\ room' = room /\ todo' = todo /\ rest' = rest
    BY <1>0 DEF Lookup, Permit, Advance, Placed, DropLabels, InRoom
  <1>4. \/ obj' = [obj EXCEPT ![c] = rooms[room[c]]] /\ Lookup(c)
        \/ obj' = obj /\ Permit(c)
    BY DEF Lookup, Permit, Advance
  <1>5. ThreadTyped' BY <1>0, <1>2, <1>3, <1>4 DEF Typed, ThreadTyped, RoomTyped, Labels
  <1>6. Typed' /\ StorePrivate'
    BY <1>0, <1>1, <1>5 DEF Typed, RoomTyped, ClientTyped, StoreTyped, StorePrivate
  <1>7. Others({c}) BY <1>0, <1>2, <1>3, <1>4 DEF Others, Typed, ThreadTyped
  <1>8. pc'[c] = label /\ op'[c] = op[c] /\ who'[c] = who[c] /\ room'[c] = room[c]
    BY <1>0, <1>2, <1>3 DEF Typed, ThreadTyped
  <1>9. SameRooms /\ Shrinks({c}) BY <1>1 DEF SameRooms, Shrinks
  <1>10. label \in {"permit", "enter"} =>
           /\ obj'[c] # None
           /\ \A r \in RoomIds : rooms[r] = obj'[c] => r = room[c]
    <2>1. CASE Lookup(c)
      <3>1. obj'[c] = rooms[room[c]] BY <1>0, <2>1 DEF Lookup, Typed, ThreadTyped
      <3>2. label \in {"permit", "enter"} => rooms[room[c]] # None
        BY <1>0, <1>8, <2>1 DEF Lookup, Goto, Typed, ThreadTyped
      <3> QED BY <1>0, <1>3, <3>1, <3>2 DEF Distinct
    <2>2. CASE Permit(c)
      <3>1. obj'[c] = obj[c] /\ pc[c] = "permit" BY <2>2 DEF Permit, Advance
      <3> QED BY <1>0, <3>1 DEF Findable, Placed
    <2> QED BY <2>1, <2>2
  <1>11. label = "enter" /\ room[c] \in Private => user[c] \in invited[room[c]]
    <2>1. CASE Lookup(c)
      <3>1. room[c] \in Private => label # "enter"
        BY <1>0, <1>8, <2>1 DEF Lookup, Goto, Typed, ThreadTyped, Admit
      <3> QED BY <3>1
    <2>2. CASE Permit(c)
      <3>1. label = "enter" => checkRoomPermission(c, room[c])
        BY <1>0, <1>8, <2>2 DEF Permit, Advance, Goto, Typed, ThreadTyped
      <3>2. user[c] \notin Split(room[c]) BY <1>0, <1>3, SplitRefuses DEF Registered
      <3>3. label = "enter" /\ room[c] \in Private => user[c] \in dbMembers[room[c]]
        BY <3>1, <3>2, ChatAssumption DEF checkRoomPermission, IsUserInRoom
      <3> QED BY <1>0, <3>3 DEF StorePrivate
    <2> QED BY <2>1, <2>2
  <1>12. Placed(c)' BY <1>0, <1>3, <1>8, <1>10, ChatAssumption DEF Placed, DropLabels, InRoom
  <1>13. Registered(c)' BY <1>0, <1>1, <1>3, <1>8 DEF Registered
  <1>14. \A r \in RoomIds : Has(c, r)' <=> Has(c, r) BY <1>1 DEF Has
  <1>15. Findable(c)' BY <1>0, <1>1, <1>3, <1>8, <1>10, <1>14 DEF Findable
  <1>16. Admitted(c)' BY <1>0, <1>1, <1>3, <1>8, <1>11, <1>14 DEF Admitted, RoomIds, Private
  <1>17. Leaving(c)' BY <1>3, <1>8 DEF Leaving
  <1>18. Settled(c)' BY <1>12, <1>13, <1>15, <1>16, <1>17 DEF Settled
  <1>19. NoneNew BY <1>7, <1>8 DEF Others, NoneNew
  <1> QED BY <1>6, <1>7, <1>9, <1>18, <1>19, ControlKeeps

-----------------------------------------------------------------------------
(* broadcastToRoom                                                         *)

\* A goroutine in a broadcast, or at its end, is settled as before.
LEMMA BroadcastSettled ==
  ASSUME Inv, NEW t \in Threads, SameRooms, Placed(t)',
         pc[t] \in {"bcast", "range"}, pc'[t] \in {"range", "unroom", "send"},
         op'[t] = op[t], room'[t] = room[t], todo'[t] = todo[t], pc'[t] = "send" => op[t] # "drop"
  PROVE  Settled(t)'
  <1> SUFFICES ASSUME t \in Clients
               PROVE  Registered(t)' /\ Findable(t)' /\ Admitted(t)' /\ Leaving(t)'
    BY DEF Settled
  <1>1. Registered(t) /\ Findable(t) /\ Admitted(t) /\ Leaving(t) BY DEF Inv, Settled
  <1>2. \A r \in RoomIds : Has(t, r)' <=> Has(t, r) BY DEF SameRooms, Has
  <1>3. Registered(t)' BY <1>1 DEF Registered, SameRooms
  <1>4. Findable(t)' BY <1>1, <1>2 DEF Findable, SameRooms
  <1>5. Admitted(t)' BY <1>1, <1>2 DEF Admitted, SameRooms, RoomIds, Private
  <1>6. Leaving(t)' BY <1>1, <1>2 DEF Leaving
  <1> QED BY <1>3, <1>4, <1>5, <1>6

\* The broadcast of a goroutine other than a dropper ends its handler.
LEMMA EndsKeeps ==
  ASSUME Inv, NEW t \in Threads, pc[t] \in {"bcast", "range"}, Ends(t), Return(t),
         UNCHANGED <<roomVars, clientVars, dbVars, session, fatal>>
  PROVE  Inv'
  <1>0. Typed /\ Placed(t) /\ op[t] # "drop" BY DEF Inv, Settled, Ends
  <1>1. CASE t \in Clients BY <1>0, <1>1, ReturnKeeps
  <1>2. CASE t \in Droppers BY <1>0, <1>2 DEF Placed
  <1>3. CASE t = Sweeper
    <2>1. /\ pc' = [pc EXCEPT ![t] = "sweep"] /\ op' = [op EXCEPT ![t] = "none"]
          /\ who' = [who EXCEPT ![t] = None] /\ room' = [room EXCEPT ![t] = None]
          /\ obj' = [obj EXCEPT ![t] = None]
          /\ todo' = [todo EXCEPT ![t] = {}] /\ rest' = [rest EXCEPT ![t] = {}]
      BY <1>3, ChatAssumption DEF Return, Rest, Goto
    <2>2. UNCHANGED <<rooms, members, clientRooms, user, sid, clients, limiters, typing,
                      dbRooms, dbMembers, invited, session, fatal>>
      BY DEF roomVars, clientVars, dbVars
    <2>3. pc'[t] = "sweep" /\ op'[t] = "none" BY <1>0, <2>1 DEF Typed, ThreadTyped
    <2>4. SameRooms /\ Shrinks({t}) BY <2>2 DEF SameRooms, Shrinks
    <2>5. ThreadTyped' BY <1>0, <2>1 DEF Typed, ThreadTyped, Labels
    <2>6. Typed' /\ StorePrivate'
      BY <1>0, <2>2, <2>5 DEF Inv, Typed, RoomTyped, ClientTyped, StoreTyped, StorePrivate
    <2>7. Others({t}) BY <1>0, <2>1 DEF Others, Typed, ThreadTyped
    <2>8. Settled(t)' BY <1>3, <2>3, ChatAssumption DEF Settled, Placed, DropLabels, InRoom
    <2>9. NoneNew BY <2>3, <2>7 DEF Others, NoneNew
    <2> QED BY <2>4, <2>6, <2>7, <2>8, <2>9, ControlKeeps
  <1> QED BY <1>1, <1>2, <1>3 DEF Threads

\* A goroutine moves within a broadcast, or on from it.
LEMMA BroadcastMoves ==
  ASSUME Inv, NEW t \in Threads, NEW label \in {"range", "unroom", "send"},
         pc[t] \in {"bcast", "range"}, pc' = [pc EXCEPT ![t] = label],
         op' = op, who' = who, room' = room, todo' = todo,
         obj' \in [Threads -> Objects \cup {None}], \A u \in Threads \ {t} : obj'[u] = obj[u],
         rest' \in [Threads -> SUBSET Clients],
         label = "range" => obj'[t] # None,
         label = "unroom" => op[t] = "drop", label = "send" => ~Ends(t) /\ op[t] # "drop",
         UNCHANGED <<roomVars, clientVars, dbVars, session, fatal>>
  PROVE  Inv'
  <1>0. Typed /\ Placed(t) BY DEF Inv, Settled
  <1>1. UNCHANGED <<rooms, members, clientRooms, user, sid, clients, limiters, typing,
                    dbRooms, dbMembers, invited, session, fatal>>
    BY DEF roomVars, clientVars, dbVars
  <1>2. pc'[t] = label BY <1>0 DEF Typed, ThreadTyped
  <1>3. SameRooms /\ Shrinks({t}) BY <1>1 DEF SameRooms, Shrinks
  <1>4. ThreadTyped' BY <1>0 DEF Typed, ThreadTyped, Labels
  <1>5. Typed' /\ StorePrivate'
    BY <1>0, <1>1, <1>4 DEF Inv, Typed, RoomTyped, ClientTyped, StoreTyped, StorePrivate
  <1>6. Others({t}) BY <1>0 DEF Others, Typed, ThreadTyped
  <1>7. NoneNew BY <1>2, <1>6 DEF Others, NoneNew
  <1>8. t \in Droppers => pc'[who[t]] # "new"
    BY <1>0, <1>7 DEF Placed, NoneNew, Threads
  <1>9. Placed(t)'
    <2>1. t = Sweeper => label = "range"
      BY <1>0, ChatAssumption DEF Placed, Ends
    <2>2. t \in Droppers => op[t] = "drop" /\ who[t] \in Clients BY <1>0 DEF Placed
    <2> QED BY <1>0, <1>2, <1>8, <2>1, <2>2, ChatAssumption DEF Placed, DropLabels, InRoom
  <1>10. Settled(t)' BY <1>2, <1>3, <1>9, BroadcastSettled
  <1> QED BY <1>3, <1>5, <1>6, <1>7, <1>10, ControlKeeps

\* A write fails: the client that it was for is registered, and another
\* goroutine disconnects it.
LEMMA WriteFailsKeeps ==
  ASSUME Inv, NEW t \in Threads, NEW g \in Droppers, NEW d \in Clients, pc[t] = "range",
         Spawn(t, "range", d, g), pc[d] # "new", rest' \in [Threads -> SUBSET Clients],
         UNCHANGED <<room, obj, todo, roomVars, clientVars, dbVars, session, fatal>>
  PROVE  Inv'
  <1>0. Typed /\ t # g /\ g \in Threads /\ pc[g] = "idle" /\ Placed(t) /\ Placed(g)
    BY DEF Inv, Settled, Spawn, Threads
  <1>1. /\ pc' = [pc EXCEPT ![t] = "range", ![g] = "start"]
        /\ op' = [op EXCEPT ![g] = "drop"]
        /\ who' = [who EXCEPT ![g] = d]
        /\ room' = room /\ obj' = obj /\ todo' = todo
    BY DEF Spawn
  <1>2. UNCHANGED <<rooms, members, clientRooms, user, sid, clients, limiters, typing,
                    dbRooms, dbMembers, invited, session, fatal>>
    BY DEF roomVars, clientVars, dbVars
  <1>3. SameRooms /\ Shrinks({t, g}) BY <1>2 DEF SameRooms, Shrinks
  <1>4. ThreadTyped' BY <1>0, <1>1 DEF Typed, ThreadTyped, Labels
  <1>5. Typed' /\ StorePrivate'
    BY <1>0, <1>2, <1>4 DEF Inv, Typed, RoomTyped, ClientTyped, StoreTyped, StorePrivate
  <1>6. Others({t, g}) BY <1>0, <1>1 DEF Others, Typed, ThreadTyped
  <1>7. /\ pc'[t] = "range" /\ op'[t] = op[t] /\ who'[t] = who[t]
        /\ pc'[g] = "start" /\ op'[g] = "drop" /\ who'[g] = d
    BY <1>0, <1>1 DEF Typed, ThreadTyped
  <1>8. NoneNew BY <1>6, <1>7 DEF Others, NoneNew
  <1>9. pc'[d] # "new" BY <1>8 DEF NoneNew, Threads
  <1>10. Settled(g)' BY <1>7, <1>9, ChatAssumption DEF Settled, Placed, DropLabels, InRoom
  <1>11. t \in Droppers => pc'[who[t]] # "new"
    BY <1>0, <1>8 DEF Placed, NoneNew, Threads
  <1>12. Placed(t)' BY <1>0, <1>1, <1>7, <1>11 DEF Placed
  <1>13. Settled(t)' BY <1>1, <1>3, <1>7, <1>12, BroadcastSettled
  <1> QED BY <1>0, <1>3, <1>5, <1>6, <1>8, <1>10, <1>13, ControlKeeps

\* The steps of broadcastToRoom.
LEMMA BroadcastKeeps ==
  ASSUME Inv, NEW t \in Threads, BroadcastStep(t)
  PROVE  Inv'
  <1>0. Typed /\ Placed(t) BY DEF Inv, Settled
  <1> DEFINE same == UNCHANGED <<roomVars, clientVars, dbVars, session, fatal>>
  <1>1. ~Ends(t) => AfterBroadcast(t) \in {"unroom", "send"}
                    /\ (AfterBroadcast(t) = "unroom" <=> op[t] = "drop")
    BY DEF AfterBroadcast
  <1>2. CASE BroadcastNone(t)
    <2>1. pc[t] = "bcast" /\ same BY <1>2 DEF BroadcastNone
    <2>2. CASE Ends(t) BY <1>2, <2>1, <2>2, EndsKeeps DEF BroadcastNone
    <2>3. CASE ~Ends(t)
      <3>1. /\ pc' = [pc EXCEPT ![t] = AfterBroadcast(t)]
            /\ op' = op /\ who' = who /\ room' = room /\ obj' = obj /\ todo' = todo /\ rest' = rest
        BY <1>2, <2>3 DEF BroadcastNone, Advance, Goto
      <3>2. /\ obj' \in [Threads -> Objects \cup {None}]
            /\ rest' \in [Threads -> SUBSET Clients]
        BY <1>0, <3>1 DEF Typed, ThreadTyped
      <3> QED BY <1>1, <2>1, <2>3, <3>1, <3>2, BroadcastMoves
    <2> QED BY <2>2, <2>3
  <1>3. CASE Broadcast(t)
    <2>1. /\ pc[t] = "bcast" /\ rooms[room[t]] # None /\ same
          /\ pc' = [pc EXCEPT ![t] = "range"]
          /\ op' = op /\ who' = who /\ room' = room /\ todo' = todo
          /\ obj' = [obj EXCEPT ![t] = rooms[room[t]]]
          /\ rest' = [rest EXCEPT ![t] = Clients \ (IF op[t] = "say" THEN {} ELSE {who[t]})]
      BY <1>3 DEF Broadcast, Goto
    <2>2. rooms[room[t]] \in Objects
      BY <1>0, <2>1 DEF Placed, InRoom, Typed, RoomTyped
    <2>3. /\ obj' \in [Threads -> Objects \cup {None}] /\ obj'[t] # None
          /\ \A u \in Threads \ {t} : obj'[u] = obj[u]
          /\ rest' \in [Threads -> SUBSET Clients]
      BY <1>0, <2>1, <2>2 DEF Typed, ThreadTyped
    <2> QED BY <2>1, <2>3, BroadcastMoves
  <1>4. CASE Write(t)
    <2>1. PICK d \in rest[t] \cap members[obj[t]] :
            /\ rest' = [rest EXCEPT ![t] = @ \ {d}]
            /\ \/ UNCHANGED <<pc, op, who>>
               \/ \E g \in Droppers : Spawn(t, "range", d, g)
      BY <1>4 DEF Write
    <2>2. pc[t] = "range" /\ UNCHANGED <<room, obj, todo>> /\ same BY <1>4 DEF Write
    <2>3. /\ rest' \in [Threads -> SUBSET Clients] /\ d \in Clients
          /\ obj[t] \in Objects /\ obj \in [Threads -> Objects \cup {None}]
      BY <1>0, <2>1, <2>2 DEF Typed, ThreadTyped, Placed
    <2>4. pc[d] # "new"
      BY <2>1, <2>3 DEF Inv, Settled, Registered, Threads
    <2>5. CASE UNCHANGED <<pc, op, who>>
      <3>1. pc' = [pc EXCEPT ![t] = "range"]
        BY <1>0, <2>2, <2>5 DEF Typed, ThreadTyped
      <3>2. obj[t] # None BY <1>0, <2>2 DEF Placed
      <3> QED BY <2>2, <2>3, <2>5, <3>1, <3>2, BroadcastMoves
    <2>6. CASE \E g \in Droppers : Spawn(t, "range", d, g)
      BY <2>2, <2>3, <2>4, <2>6, WriteFailsKeeps
    <2> QED BY <2>1, <2>5, <2>6
  <1>5. CASE Written(t)
    <2>1. pc[t] = "range" /\ same BY <1>5 DEF Written
    <2>2. CASE Ends(t) BY <1>5, <2>1, <2>2, EndsKeeps DEF Written
    <2>3. CASE ~Ends(t)
      <3>1. /\ pc' = [pc EXCEPT ![t] = AfterBroadcast(t)]
            /\ op' = op /\ who' = who /\ room' = room /\ todo' = todo
            /\ obj' = [obj EXCEPT ![t] = None]
            /\ rest' = [rest EXCEPT ![t] = {}]
        BY <1>5, <2>3 DEF Written, Goto
      <3>2. /\ obj' \in [Threads -> Objects \cup {None}]
            /\ \A u \in Threads \ {t} : obj'[u] = obj[u]
            /\ rest' \in [Threads -> SUBSET Clients]
        BY <1>0, <3>1 DEF Typed, ThreadTyped
      <3> QED BY <1>1, <2>1, <2>3, <3>1, <3>2, BroadcastMoves
    <2> QED BY <2>2, <2>3
  <1> QED BY <1>2, <1>3, <1>4, <1>5 DEF BroadcastStep

-----------------------------------------------------------------------------
(* handleClientDisconnect, but for the removal from a room                 *)

\* A disconnect goes on to its next step.
LEMMA DropMoves ==
  ASSUME Inv, NEW t \in Clients \cup Droppers, NEW label \in DropLabels \cup {"bcast"},
         pc[t] \in DropLabels, pc' = [pc EXCEPT ![t] = label],
         op' = op, who' = who, obj' = obj, rest' = rest,
         room' \in [Threads -> RoomIds \cup {None}], \A u \in Threads \ {t} : room'[u] = room[u],
         label \in InRoom => room'[t] \in RoomIds,
         todo' \in [Threads -> SUBSET RoomIds], \A u \in Threads \ {t} : todo'[u] = todo[u],
         SameRooms, Shrinks({}), ClientTyped', UNCHANGED <<dbVars, session, fatal>>,
         t \in Clients => Leaving(t)'
  PROVE  Inv'
  <1> USE DEF Threads
  <1>0. Typed /\ Settled(t) BY DEF Inv
  <1>1. pc'[t] = label BY <1>0 DEF Typed, ThreadTyped
  <1>2. ThreadTyped' BY <1>0 DEF Typed, ThreadTyped, Labels, DropLabels
  <1>3. Typed' /\ StorePrivate'
    BY <1>0, <1>2 DEF Inv, Typed, RoomTyped, SameRooms, StoreTyped, StorePrivate, dbVars
  <1>4. Others({t}) BY <1>0 DEF Others, Typed, ThreadTyped
  <1>5. NoneNew BY <1>1, <1>4 DEF Others, NoneNew, DropLabels
  <1>6. t \in Droppers => pc'[who[t]] # "new"
    BY <1>0, <1>5 DEF Settled, Placed, NoneNew, DropLabels
  <1>7. Placed(t)'
    BY <1>0, <1>1, <1>6, ChatAssumption DEF Settled, Placed, DropLabels
  <1>8. ASSUME t \in Clients PROVE Registered(t)' /\ Findable(t)' /\ Admitted(t)'
    <2>1. Registered(t) /\ Findable(t) /\ Admitted(t) BY <1>0, <1>8 DEF Settled
    <2>2. \A r \in RoomIds : Has(t, r)' <=> Has(t, r) BY DEF SameRooms, Has
    <2>3. Registered(t)' BY <1>1, <2>1 DEF Registered, SameRooms, DropLabels
    <2>4. Findable(t)' BY <1>1, <2>1, <2>2 DEF Findable, SameRooms, DropLabels
    <2>5. Admitted(t)' BY <1>1, <2>1, <2>2 DEF Admitted, SameRooms, DropLabels, RoomIds, Private
    <2> QED BY <2>3, <2>4, <2>5
  <1>9. Settled(t)' BY <1>7, <1>8 DEF Settled
  <1>10. Shrinks({t}) BY DEF Shrinks
  <1> QED BY <1>3, <1>4, <1>5, <1>9, <1>10, ControlKeeps

\* The session is stored, and the goroutine ends.
LEMMA DropSessionKeeps ==
  ASSUME Inv, NEW t \in Clients \cup Droppers, DropSession(t)
  PROVE  Inv'
  <1> USE DEF Threads
  <1>0. Typed /\ Settled(t) /\ t \in Threads BY DEF Inv
  <1>1. /\ pc[t] = "dsession" /\ Return(t) /\ Store(EmptyID, who[t])
        /\ UNCHANGED <<roomVars, clientVars, dbVars, fatal>>
    BY DEF DropSession
  <1>2. op[t] = "drop" /\ who[t] \in Clients /\ pc[who[t]] # "new"
    BY <1>0, <1>1 DEF Settled, Placed, DropLabels
  <1>3. StoreTyped' /\ StorePrivate' BY <1>1, <1>2, StoreKeeps
  <1>4. PICK label \in {"gone", "idle"} :
          /\ pc' = [pc EXCEPT ![t] = label] /\ (label = "gone" <=> t \in Clients)
    BY <1>1, <1>2, ChatAssumption DEF Return, Rest, Goto
  <1>5. /\ op' = [op EXCEPT ![t] = "none"]
        /\ who' = [who EXCEPT ![t] = IF t \in Clients THEN t ELSE None]
        /\ room' = [room EXCEPT ![t] = None]
        /\ obj' = [obj EXCEPT ![t] = None]
        /\ todo' = [todo EXCEPT ![t] = {}] /\ rest' = [rest EXCEPT ![t] = {}]
    BY <1>1 DEF Return
  <1>6. UNCHANGED <<rooms, members, clientRooms, user, sid, clients, limiters, typing, invited>>
    BY <1>1 DEF roomVars, clientVars, dbVars
  <1>7. pc'[t] = label /\ op'[t] = "none" /\ (t \in Clients => who'[t] = t)
    BY <1>0, <1>4, <1>5 DEF Typed, ThreadTyped
  <1>8. SameRooms /\ Shrinks({t}) BY <1>6 DEF SameRooms, Shrinks
  <1>9. ThreadTyped' BY <1>0, <1>4, <1>5 DEF Typed, ThreadTyped, Labels
  <1>10. Typed' BY <1>0, <1>3, <1>6, <1>9 DEF Typed, RoomTyped, ClientTyped
  <1>11. Others({t}) BY <1>0, <1>4, <1>5 DEF Others, Typed, ThreadTyped
  <1>12. NoneNew BY <1>7, <1>11 DEF Others, NoneNew
  <1>13. Placed(t)' BY <1>4, <1>7, ChatAssumption DEF Placed, DropLabels, InRoom
  <1>14. ASSUME t \in Clients PROVE Registered(t)' /\ Findable(t)' /\ Admitted(t)' /\ Leaving(t)'
    <2>1. Registered(t) /\ Findable(t) /\ Admitted(t) /\ Leaving(t) BY <1>0, <1>14 DEF Settled
    <2>2. \A r \in RoomIds : Has(t, r)' <=> Has(t, r) BY <1>6 DEF Has
    <2>3. Registered(t)' BY <1>1, <1>6, <1>7, <2>1 DEF Registered
    <2>4. Findable(t)' BY <1>1, <1>6, <1>7, <2>1, <2>2 DEF Findable
    <2>5. Admitted(t)' BY <1>1, <1>6, <1>7, <2>1, <2>2 DEF Admitted, RoomIds, Private
    <2>6. Leaving(t)' BY <1>1, <1>6, <1>7, <2>1, <2>2 DEF Leaving
    <2> QED BY <2>3, <2>4, <2>5, <2>6
  <1>15. Settled(t)' BY <1>13, <1>14 DEF Settled
  <1> QED BY <1>3, <1>8, <1>10, <1>11, <1>12, <1>15, ControlKeeps

\* The range over client.Rooms leaves out no room that has the client, and
\* the later steps clear what they are for.
LEMMA DropKeeps ==
  ASSUME Inv, NEW t \in Clients \cup Droppers,
         \/ DropStart(t) \/ DropNext(t) \/ DropRoomsDone(t)
         \/ DropTyping(t) \/ DropClient(t) \/ DropLimiter(t)
  PROVE  Inv'
  <1> USE DEF Threads
  <1>0. Typed /\ Settled(t) BY DEF Inv
  <1>1. UNCHANGED <<rooms, members, clientRooms, user, sid, dbVars, session, fatal>>
    BY DEF DropStart, DropNext, DropRoomsDone, DropTyping, DropClient, DropLimiter,
           roomVars, clientVars
  <1>2. SameRooms BY <1>1 DEF SameRooms, dbVars
  <1>3. \A r \in RoomIds : Has(t, r)' <=> Has(t, r) BY <1>1 DEF Has
  <1>4. t \in Clients => who[t] = t /\ Leaving(t) /\ Findable(t)
    BY <1>0 DEF Settled, Placed
  <1>5. CASE DropStart(t)
    <2>1. /\ pc[t] = "start" /\ pc' = [pc EXCEPT ![t] = "drooms"]
          /\ op' = op /\ who' = who /\ obj' = obj /\ rest' = rest /\ room' = room
          /\ todo' = [todo EXCEPT ![t] = RoomIds]
          /\ UNCHANGED <<clients, limiters, typing>>
      BY <1>5 DEF DropStart, Goto, clientVars
    <2>2. /\ todo' \in [Threads -> SUBSET RoomIds] /\ \A u \in Threads \ {t} : todo'[u] = todo[u]
          /\ todo'[t] = RoomIds /\ pc'[t] = "drooms"
          /\ room' \in [Threads -> RoomIds \cup {None}]
      BY <1>0, <2>1 DEF Typed, ThreadTyped
    <2>3. Leaving(t)' BY <2>2 DEF Leaving
    <2>4. Shrinks({}) /\ ClientTyped'
      BY <1>0, <1>1, <2>1 DEF Shrinks, Typed, ClientTyped
    <2> QED BY <1>1, <1>2, <2>1, <2>2, <2>3, <2>4, DropMoves DEF DropLabels, InRoom
  <1>6. CASE DropNext(t)
    <2>1. PICK r \in todo[t] \cap clientRooms[who[t]] :
            /\ room' = [room EXCEPT ![t] = r]
            /\ todo' = [todo EXCEPT ![t] = @ \ {r}]
      BY <1>6 DEF DropNext
    <2>2. /\ pc[t] = "drooms" /\ pc' = [pc EXCEPT ![t] = "bcast"]
          /\ op' = op /\ who' = who /\ obj' = obj /\ rest' = rest
          /\ UNCHANGED <<clients, limiters, typing>>
      BY <1>6 DEF DropNext, Goto, clientVars
    <2>3. r \in RoomIds BY <1>0, <2>1 DEF Typed, ThreadTyped
    <2>4. /\ todo' \in [Threads -> SUBSET RoomIds] /\ \A u \in Threads \ {t} : todo'[u] = todo[u]
          /\ todo'[t] = todo[t] \ {r} /\ pc'[t] = "bcast"
          /\ room' \in [Threads -> RoomIds \cup {None}] /\ \A u \in Threads \ {t} : room'[u] = room[u]
          /\ room'[t] = r
      BY <1>0, <2>1, <2>2, <2>3 DEF Typed, ThreadTyped
    <2>5. op[t] = "drop" BY <1>0, <2>2 DEF Settled, Placed, DropLabels
    <2>6. t \in Clients => Leaving(t)'
      BY <1>3, <1>4, <2>2, <2>4, <2>5 DEF Leaving
    <2>7. Shrinks({}) /\ ClientTyped'
      BY <1>0, <1>1, <2>2 DEF Shrinks, Typed, ClientTyped
    <2> QED BY <1>1, <1>2, <2>2, <2>3, <2>4, <2>6, <2>7, DropMoves DEF DropLabels
  <1>7. CASE DropRoomsDone(t)
    <2>1. /\ pc[t] = "drooms" /\ pc' = [pc EXCEPT ![t] = "dtyping"]
          /\ todo[t] \cap clientRooms[who[t]] = {}
          /\ op' = op /\ who' = who /\ obj' = obj /\ rest' = rest /\ room' = room
          /\ todo' = [todo EXCEPT ![t] = {}]
          /\ UNCHANGED <<clients, limiters, typing>>
      BY <1>7 DEF DropRoomsDone, Goto, clientVars
    <2>2. /\ todo' \in [Threads -> SUBSET RoomIds] /\ \A u \in Threads \ {t} : todo'[u] = todo[u]
          /\ pc'[t] = "dtyping" /\ room' \in [Threads -> RoomIds \cup {None}]
      BY <1>0, <2>1 DEF Typed, ThreadTyped
    <2>3. op[t] = "drop" BY <1>0, <2>1 DEF Settled, Placed, DropLabels
    <2>4. t \in Clients => \A r \in RoomIds : ~Has(t, r)
      BY <1>4, <2>1, <2>3 DEF Leaving, Findable
    <2>5. t \in Clients => Leaving(t)' BY <1>3, <2>2, <2>4 DEF Leaving
    <2>6. Shrinks({}) /\ ClientTyped'
      BY <1>0, <1>1, <2>1 DEF Shrinks, Typed, ClientTyped
    <2> QED BY <1>1, <1>2, <2>1, <2>2, <2>5, <2>6, DropMoves DEF DropLabels, InRoom
  <1>8. CASE DropTyping(t) \/ DropClient(t) \/ DropLimiter(t)
    <2>1. PICK from, label : /\ Advance(t, from, label)
                             /\ \/ from = "dtyping" /\ label = "dclient" /\ DropTyping(t)
                                \/ from = "dclient" /\ label = "dlimiter" /\ DropClient(t)
                                \/ from = "dlimiter" /\ label = "dsession" /\ DropLimiter(t)
      BY <1>8 DEF DropTyping, DropClient, DropLimiter
    <2>2. /\ pc[t] = from /\ pc' = [pc EXCEPT ![t] = label]
          /\ op' = op /\ who' = who /\ obj' = obj /\ rest' = rest /\ room' = room /\ todo' = todo
      BY <2>1 DEF Advance, Goto
    <2>3. /\ pc'[t] = label
          /\ room' \in [Threads -> RoomIds \cup {None}] /\ todo' \in [Threads -> SUBSET RoomIds]
      BY <1>0, <2>2 DEF Typed, ThreadTyped
    <2>4. /\ \/ typing' = [r \in RoomIds |-> typing[r] \ {who[t]}] /\ from = "dtyping"
             \/ typing' = typing /\ from # "dtyping"
          /\ \/ clients' = clients \ {who[t]} /\ from = "dclient"
             \/ clients' = clients /\ from # "dclient"
          /\ \/ limiters' = limiters \ {who[t]} /\ from = "dlimiter"
             \/ limiters' = limiters /\ from # "dlimiter"
      BY <2>1 DEF DropTyping, DropClient, DropLimiter
    <2>5. Shrinks({}) /\ ClientTyped'
      BY <1>0, <1>1, <2>4 DEF Shrinks, Typed, ClientTyped
    <2>6. t \in Clients => Leaving(t)'
      BY <1>3, <1>4, <2>1, <2>2, <2>3, <2>4 DEF Leaving
    <2> QED BY <1>1, <1>2, <2>1, <2>2, <2>3, <2>5, <2>6, DropMoves DEF DropLabels, InRoom
  <1> QED BY <1>5, <1>6, <1>7, <1>8

\* Disconnects begin: in the reader, or in a goroutine of the keep-alive.
LEMMA DropBegins ==
  ASSUME Inv, NEW c \in Clients, ReaderEnds(c) \/ PingFails(c)
  PROVE  Inv'
  <1> USE DEF Threads
  <1>0. Typed /\ Settled(c) BY DEF Inv
  <1>1. UNCHANGED <<rooms, members, clientRooms, user, sid, clients, limiters, typing,
                    dbRooms, dbMembers, invited, session, fatal>>
    BY DEF ReaderEnds, PingFails, roomVars, clientVars, dbVars
  <1>2. SameRooms /\ \A S \in SUBSET Threads : Shrinks(S) BY <1>1 DEF SameRooms, Shrinks
  <1>3. /\ RoomTyped' /\ ClientTyped' /\ StoreTyped' /\ StorePrivate'
    BY <1>0, <1>1 DEF Inv, Typed, RoomTyped, ClientTyped, StoreTyped, StorePrivate
  <1>4. CASE ReaderEnds(c)
    <2>1. /\ pc[c] = "idle" /\ pc' = [pc EXCEPT ![c] = "start"] /\ op' = [op EXCEPT ![c] = "drop"]
          /\ who' = who /\ obj' = obj /\ rest' = rest /\ room' = room /\ todo' = todo
      BY <1>4 DEF ReaderEnds, Goto
    <2>2. Typed' BY <1>0, <1>3, <2>1 DEF Typed, ThreadTyped, Labels
    <2>3. pc'[c] = "start" /\ op'[c] = "drop" BY <1>0, <2>1 DEF Typed, ThreadTyped
    <2>4. Others({c}) BY <1>0, <2>1 DEF Others, Typed, ThreadTyped
    <2>5. NoneNew BY <2>3, <2>4 DEF Others, NoneNew
    <2>6. Placed(c)' BY <1>0, <2>1, <2>3, ChatAssumption DEF Settled, Placed, DropLabels, InRoom
    <2>7. \A r \in RoomIds : Has(c, r)' <=> Has(c, r) BY <1>1 DEF Has
    <2>8. Registered(c)' BY <1>0, <1>1, <2>1, <2>3 DEF Settled, Registered
    <2>9. Findable(c)' BY <1>0, <1>1, <2>1, <2>3, <2>7 DEF Settled, Findable
    <2>10. Admitted(c)' BY <1>0, <1>1, <2>1, <2>3, <2>7 DEF Settled, Admitted, RoomIds, Private
    <2>11. Leaving(c)' BY <2>3 DEF Leaving
    <2>12. Settled(c)' BY <2>6, <2>8, <2>9, <2>10, <2>11 DEF Settled
    <2> QED BY <1>2, <1>3, <2>2, <2>4, <2>5, <2>12, ControlKeeps
  <1>5. CASE PingFails(c)
    <2>1. PICK g \in Droppers : Spawn(c, pc[c], c, g) BY <1>5 DEF PingFails
    <2>2. /\ pc[g] = "idle" /\ pc[c] # "new" /\ c # g
          /\ pc' = [pc EXCEPT ![c] = pc[c], ![g] = "start"] /\ op' = [op EXCEPT ![g] = "drop"]
          /\ who' = [who EXCEPT ![g] = c]
          /\ obj' = obj /\ rest' = rest /\ room' = room /\ todo' = todo
      BY <1>5, <2>1, ChatAssumption DEF Spawn, PingFails
    <2>3. Typed' BY <1>0, <1>3, <2>2 DEF Typed, ThreadTyped, Labels
    <2>4. pc'[g] = "start" /\ op'[g] = "drop" /\ who'[g] = c BY <1>0, <2>2 DEF Typed, ThreadTyped
    <2>5. Others({g}) BY <1>0, <2>2 DEF Others, Typed, ThreadTyped
    <2>6. NoneNew BY <2>4, <2>5 DEF Others, NoneNew
    <2>7. pc'[c] # "new" BY <2>2, <2>6 DEF NoneNew
    <2>8. Settled(g)' BY <2>4, <2>7, ChatAssumption DEF Settled, Placed, DropLabels, InRoom
    <2> QED BY <1>2, <1>3, <2>3, <2>5, <2>6, <2>8, ControlKeeps
  <1> QED BY <1>4, <1>5

-----------------------------------------------------------------------------
(* cleanupTypingIndicators                                                 *)

LEMMA SweepKeeps ==
  ASSUME Inv, SweepStart \/ SweepNext \/ SweepEnd
  PROVE  Inv'
  <1> USE DEF Threads
  <1>0. Typed /\ Placed(Sweeper) BY DEF Inv, Settled
  <1>1. UNCHANGED <<op, obj, todo, rest, rooms, members, clientRooms, user, sid, clients, limiters,
                    dbRooms, dbMembers, invited, session, fatal>>
    BY DEF SweepStart, SweepNext, SweepEnd, Advance, roomVars, clientVars, dbVars
  <1>2. PICK label \in {"idle", "sweep", "bcast"} :
          /\ pc' = [pc EXCEPT ![Sweeper] = label]
          /\ \/ who' = who /\ room' = room /\ label # "bcast"
             \/ \E c \in Clients, r \in RoomIds :
                  /\ who' = [who EXCEPT ![Sweeper] = c] /\ room' = [room EXCEPT ![Sweeper] = r]
                  /\ label = "bcast"
    <2>1. CASE SweepStart \/ SweepEnd BY <2>1 DEF SweepStart, SweepEnd, Advance, Goto
    <2>2. CASE SweepNext
      <3>0. PICK r \in RoomIds : \E c \in typing[r] :
              IF c \in clients
              THEN /\ Goto(Sweeper, "bcast")
                   /\ who' = [who EXCEPT ![Sweeper] = c]
                   /\ room' = [room EXCEPT ![Sweeper] = r]
              ELSE UNCHANGED <<pc, who, room>>
        BY <2>2 DEF SweepNext
      <3>1. PICK c \in typing[r] :
              IF c \in clients
              THEN /\ Goto(Sweeper, "bcast")
                   /\ who' = [who EXCEPT ![Sweeper] = c]
                   /\ room' = [room EXCEPT ![Sweeper] = r]
              ELSE UNCHANGED <<pc, who, room>>
        BY <3>0
      <3>2. c \in Clients BY <1>0 DEF Typed, ClientTyped
      <3>3. pc[Sweeper] = "sweep" BY <2>2 DEF SweepNext
      <3>4. pc = [pc EXCEPT ![Sweeper] = "sweep"] BY <1>0, <3>3 DEF Typed, ThreadTyped
      <3> QED BY <3>1, <3>2, <3>4 DEF Goto
    <2> QED BY <2>1, <2>2
  <1>3. typing' \in [RoomIds -> SUBSET Clients] /\ \A r \in RoomIds : typing'[r] \subseteq typing[r]
    BY <1>0 DEF SweepStart, SweepNext, SweepEnd, Typed, ClientTyped, clientVars
  <1>4. ThreadTyped' BY <1>0, <1>1, <1>2 DEF Typed, ThreadTyped, Labels
  <1>5. Typed' /\ StorePrivate'
    BY <1>0, <1>1, <1>3, <1>4 DEF Inv, Typed, RoomTyped, ClientTyped, StoreTyped, StorePrivate
  <1>6. Others({Sweeper}) BY <1>0, <1>1, <1>2 DEF Others, Typed, ThreadTyped
  <1>7. pc'[Sweeper] = label /\ op'[Sweeper] = "none"
        /\ (label = "bcast" => room'[Sweeper] \in RoomIds)
    BY <1>0, <1>1, <1>2 DEF Typed, ThreadTyped, Placed
  <1>8. Settled(Sweeper)' BY <1>7, ChatAssumption DEF Settled, Placed, DropLabels, InRoom
  <1>9. NoneNew BY <1>6, <1>7 DEF Others, NoneNew
  <1>10. SameRooms /\ Shrinks({Sweeper}) BY <1>1, <1>3 DEF SameRooms, Shrinks
  <1> QED BY <1>5, <1>6, <1>8, <1>9, <1>10, ControlKeeps

-----------------------------------------------------------------------------
(* Steps that change the rooms                                             *)

\* A step of S that changes rooms keeps the invariant if the goroutines in
\* S are settled again.
LEMMA RoomStepKeeps ==
  ASSUME Inv, NEW S \in SUBSET Threads, Others(S), NoneNew, Shrinks(S), RoomsShrink(S),
         Typed', StorePrivate', Distinct', \A u \in S : Settled(u)'
  PROVE  Inv'
  <1>1. \A u \in Threads \ S : Settled(u)' BY OthersSettled
  <1> QED BY <1>1 DEF Inv

\* handleNewConnectionWithUser: the rooms of a session are as private as the
\* session.
LEMMA ConnectKeeps ==
  ASSUME Inv, NEW c \in Clients, Connect(c)
  PROVE  Inv'
  <1> USE DEF Threads
  <1>0. Typed /\ Settled(c) /\ StorePrivate /\ Distinct BY DEF Inv
  <1>1. /\ pc[c] = "new" /\ pc' = [pc EXCEPT ![c] = "register"]
        /\ op' = op /\ who' = who /\ room' = room /\ obj' = obj /\ todo' = todo /\ rest' = rest
        /\ UNCHANGED <<rooms, members, clients, limiters, typing, dbRooms, dbMembers, invited,
                       session, fatal>>
    BY DEF Connect, Goto, dbVars
  <1>2. clientRooms[c] = {} /\ \A o \in Objects : c \notin members[o]
    BY <1>0, <1>1 DEF Settled, Registered
  <1>3. PICK k \in Sessions, u \in ServerMade, rs \in SUBSET RoomIds :
          /\ sid' = [sid EXCEPT ![c] = k]
          /\ user' = [user EXCEPT ![c] = u]
          /\ clientRooms' = [clientRooms EXCEPT ![c] = rs]
          /\ \A r \in Private \cap rs : u \in invited[r]
    <2>1. PICK k \in Sessions, u \in ServerMade :
            /\ sid' = [sid EXCEPT ![c] = k]
            /\ \/ /\ session[k] # None
                  /\ user' = [user EXCEPT ![c] = session[k].user]
                  /\ clientRooms' = [clientRooms EXCEPT ![c] = session[k].rooms]
               \/ /\ user' = [user EXCEPT ![c] = u]
                  /\ UNCHANGED clientRooms
      BY DEF Connect
    <2>2. CASE /\ session[k] # None
               /\ user' = [user EXCEPT ![c] = session[k].user]
               /\ clientRooms' = [clientRooms EXCEPT ![c] = session[k].rooms]
      <3>1. session[k].user \in ServerMade /\ session[k].rooms \in SUBSET RoomIds
        BY <1>0, <2>2 DEF Typed, StoreTyped
      <3>2. \A r \in Private \cap session[k].rooms : session[k].user \in invited[r]
        BY <1>0, <2>2 DEF StorePrivate
      <3> QED BY <2>1, <2>2, <3>1, <3>2
    <2>3. CASE user' = [user EXCEPT ![c] = u] /\ UNCHANGED clientRooms
      <3>1. clientRooms' = [clientRooms EXCEPT ![c] = {}]
        BY <1>0, <1>2, <2>3 DEF Typed, RoomTyped
      <3>2. {} \in SUBSET RoomIds /\ \A r \in Private \cap {} : u \in invited[r]
        OBVIOUS
      <3> QED BY <2>1, <2>3, <3>1, <3>2
    <2> QED BY <2>1, <2>2, <2>3
  <1>4. /\ pc'[c] = "register" /\ user'[c] = u /\ sid'[c] = k /\ clientRooms'[c] = rs
    BY <1>0, <1>1, <1>3 DEF Typed, ThreadTyped, RoomTyped, ClientTyped
  <1>5. ThreadTyped' BY <1>0, <1>1 DEF Typed, ThreadTyped, Labels
  <1>6. RoomTyped' BY <1>0, <1>1, <1>3 DEF Typed, RoomTyped
  <1>7. ClientTyped' BY <1>0, <1>1, <1>3 DEF Typed, ClientTyped
  <1>8. Typed' /\ StorePrivate' /\ Distinct'
    BY <1>0, <1>1, <1>5, <1>6, <1>7 DEF Typed, StoreTyped, StorePrivate, Distinct
  <1>9. Others({c}) BY <1>0, <1>1 DEF Others, Typed, ThreadTyped
  <1>10. NoneNew BY <1>4, <1>9 DEF Others, NoneNew
  <1>11. Shrinks({c}) BY <1>1 DEF Shrinks
  <1>12. RoomsShrink({c})
    BY <1>0, <1>1, <1>3 DEF RoomsShrink, Has, Typed, RoomTyped, ClientTyped
  <1>13. \A r \in RoomIds : ~Has(c, r)'
    BY <1>0, <1>1, <1>2 DEF Has, Typed, RoomTyped
  <1>14. op[c] # "drop" BY <1>0, <1>1 DEF Settled, Placed, DropLabels
  <1>15. Placed(c)' BY <1>0, <1>1, <1>4, <1>14, ChatAssumption DEF Settled, Placed, DropLabels, InRoom
  <1>16. Registered(c)' BY <1>4 DEF Registered
  <1>17. Findable(c)' BY <1>4, <1>13 DEF Findable
  <1>18. Admitted(c)' BY <1>1, <1>3, <1>4, <1>13 DEF Admitted, RoomIds, Private
  <1>19. Leaving(c)' BY <1>4, <1>1, <1>14 DEF Leaving
  <1>20. Settled(c)' BY <1>15, <1>16, <1>17, <1>18, <1>19 DEF Settled
  <1> QED BY <1>8, <1>9, <1>10, <1>11, <1>12, <1>20, RoomStepKeeps

\* getOrCreateRoom: the new *Room is empty and nobody else's.
LEMMA CreateKeeps ==
  ASSUME Inv, NEW c \in Clients, Create(c)
  PROVE  Inv'
  <1> USE DEF Threads
  <1>0. Typed /\ Settled(c) /\ StorePrivate /\ Distinct BY DEF Inv
  <1>1. PICK o \in Fresh : /\ rooms' = [rooms EXCEPT ![room[c]] = o]
                           /\ members' = [members EXCEPT ![o] = {}]
                           /\ obj' = [obj EXCEPT ![c] = o]
    BY DEF Create
  <1>2. PICK label \in {"permit", "enter"} :
          pc' = [pc EXCEPT ![c] = label] /\ label = Admit(room[c])
    BY DEF Create, Goto, Admit
  <1>3. /\ pc[c] = "create"
        /\ op' = op /\ who' = who /\ room' = room /\ todo' = todo /\ rest' = rest
        /\ UNCHANGED <<clientRooms, user, sid, clients, limiters, typing,
                       dbRooms, dbMembers, invited, session, fatal>>
    BY DEF Create, clientVars, dbVars
  <1>4. room[c] \in RoomIds /\ op[c] # "drop"
    BY <1>0, <1>3 DEF Settled, Placed, DropLabels, InRoom
  <1>5. /\ o \in Objects /\ o # None /\ (\A r \in RoomIds : rooms[r] # o)
        /\ \A t \in Threads : obj[t] # o
    BY <1>1, ChatAssumption DEF Fresh
  <1>6. /\ pc'[c] = label /\ obj'[c] = o
        /\ \A r \in RoomIds : rooms'[r] = IF r = room[c] THEN o ELSE rooms[r]
        /\ \A p \in Objects : members'[p] = IF p = o THEN {} ELSE members[p]
    BY <1>0, <1>1, <1>2, <1>4, <1>5 DEF Typed, ThreadTyped, RoomTyped
  <1>7. ThreadTyped' BY <1>0, <1>1, <1>2, <1>3, <1>5 DEF Typed, ThreadTyped, Labels
  <1>8. RoomTyped' BY <1>0, <1>1, <1>3, <1>5 DEF Typed, RoomTyped
  <1>9. Typed' /\ StorePrivate'
    BY <1>0, <1>3, <1>7, <1>8 DEF Typed, ClientTyped, StoreTyped, StorePrivate
  <1>10. Distinct' BY <1>0, <1>5, <1>6 DEF Distinct
  <1>11. Others({c}) BY <1>0, <1>1, <1>2, <1>3 DEF Others, Typed, ThreadTyped
  <1>12. NoneNew BY <1>6, <1>11 DEF Others, NoneNew
  <1>13. Shrinks({c}) BY <1>3 DEF Shrinks
  <1>14. \A d, r : r \in RoomIds /\ Has(d, r)' => Has(d, r) /\ r # room[c]
    BY <1>0, <1>5, <1>6 DEF Has, Typed, RoomTyped
  <1>15. RoomsShrink({c})
    BY <1>3, <1>5, <1>6, <1>14 DEF RoomsShrink
  <1>16. Placed(c)' BY <1>0, <1>3, <1>4, <1>5, <1>6, ChatAssumption DEF Settled, Placed, DropLabels, InRoom
  <1>17. Registered(c)' BY <1>0, <1>3, <1>6 DEF Settled, Registered
  <1>18. Findable(c)' BY <1>0, <1>3, <1>5, <1>6, <1>14 DEF Settled, Findable
  <1>19. label = "enter" => room[c] \notin Private BY <1>2 DEF Admit
  <1>20. Admitted(c)' BY <1>0, <1>3, <1>6, <1>14, <1>19 DEF Settled, Admitted, RoomIds, Private
  <1>21. Leaving(c)' BY <1>3, <1>4, <1>6 DEF Leaving
  <1>22. Settled(c)' BY <1>16, <1>17, <1>18, <1>20, <1>21 DEF Settled
  <1> QED BY <1>9, <1>10, <1>11, <1>12, <1>13, <1>15, <1>22, RoomStepKeeps

\* room.Clients[client.ID] = client
LEMMA EnterKeeps ==
  ASSUME Inv, NEW c \in Clients, Enter(c)
  PROVE  Inv'
  <1> USE DEF Threads
  <1>0. Typed /\ Settled(c) /\ StorePrivate /\ Distinct BY DEF Inv
  <1>1. /\ pc[c] = "enter" /\ pc' = [pc EXCEPT ![c] = "own"]
        /\ op' = op /\ who' = who /\ room' = room /\ obj' = obj /\ todo' = todo
        /\ members' = [members EXCEPT ![obj[c]] = @ \cup {c}]
        /\ UNCHANGED <<rooms, clientRooms, user, sid, clients, limiters, typing,
                       dbRooms, dbMembers, invited, session, fatal>>
    BY DEF Enter, Goto, clientVars, dbVars
  <1>2. rest' \in [Threads -> SUBSET Clients]
    <2>1. PICK ts : rest' = [t \in Threads |-> IF t \in ts THEN rest[t] \ {c} ELSE rest[t]]
      BY DEF Enter
    <2> QED BY <1>0, <2>1 DEF Typed, ThreadTyped
  <1>3. room[c] \in RoomIds /\ obj[c] \in Objects /\ op[c] # "drop"
        /\ \A r \in RoomIds : rooms[r] = obj[c] => r = room[c]
    BY <1>0, <1>1 DEF Settled, Placed, DropLabels, InRoom, Typed, ThreadTyped, Findable
  <1>4. /\ pc'[c] = "own"
        /\ \A o \in Objects : members'[o] = IF o = obj[c] THEN members[o] \cup {c} ELSE members[o]
    BY <1>0, <1>1, <1>3 DEF Typed, ThreadTyped, RoomTyped
  <1>5. ThreadTyped' BY <1>0, <1>1, <1>2 DEF Typed, ThreadTyped, Labels
  <1>6. RoomTyped' BY <1>0, <1>1, <1>3 DEF Typed, RoomTyped
  <1>7. Typed' /\ StorePrivate' /\ Distinct'
    BY <1>0, <1>1, <1>5, <1>6 DEF Typed, ClientTyped, StoreTyped, StorePrivate, Distinct
  <1>8. Others({c}) BY <1>0, <1>1 DEF Others, Typed, ThreadTyped
  <1>9. NoneNew BY <1>4, <1>8 DEF Others, NoneNew
  <1>10. Shrinks({c}) BY <1>1 DEF Shrinks
  <1>11. \A d, r : r \in RoomIds /\ Has(d, r)' => Has(d, r) \/ (d = c /\ r = room[c])
    BY <1>0, <1>1, <1>3, <1>4 DEF Has, Typed, RoomTyped
  <1>12. RoomsShrink({c}) BY <1>1, <1>4, <1>11 DEF RoomsShrink
  <1>13. Placed(c)' BY <1>0, <1>1, <1>3, <1>4, ChatAssumption DEF Settled, Placed, DropLabels, InRoom
  <1>14. Registered(c)' BY <1>0, <1>1, <1>4 DEF Settled, Registered
  <1>15. Findable(c)' BY <1>0, <1>1, <1>4, <1>11 DEF Settled, Findable
  <1>16. Admitted(c)' BY <1>0, <1>1, <1>4, <1>11 DEF Settled, Admitted, RoomIds, Private
  <1>17. Leaving(c)' BY <1>1, <1>3, <1>4 DEF Leaving
  <1>18. Settled(c)' BY <1>13, <1>14, <1>15, <1>16, <1>17 DEF Settled
  <1> QED BY <1>7, <1>8, <1>9, <1>10, <1>12, <1>18, RoomStepKeeps

\* client.Rooms[roomID] = true
LEMMA OwnKeeps ==
  ASSUME Inv, NEW c \in Clients, Own(c)
  PROVE  Inv'
  <1> USE DEF Threads
  <1>0. Typed /\ Settled(c) /\ StorePrivate /\ Distinct BY DEF Inv
  <1>1. PICK label \in {"dbadd", "history"} : pc' = [pc EXCEPT ![c] = label]
    BY DEF Own, Goto
  <1>2. /\ pc[c] = "own"
        /\ op' = op /\ who' = who /\ room' = room /\ obj' = obj /\ rest' = rest
        /\ clientRooms' = [clientRooms EXCEPT ![c] = @ \cup {room[c]}]
        /\ UNCHANGED <<rooms, members, user, sid, clients, limiters, typing,
                       dbRooms, dbMembers, invited, session, fatal>>
    BY DEF Own, clientVars, dbVars
  <1>3. todo' \in [Threads -> SUBSET RoomIds] /\ \A u \in Clients : todo'[u] = todo[u]
    <2>1. PICK ts \in SUBSET {g \in Droppers : who[g] = c} :
            todo' = [t \in Threads |-> IF t \in ts THEN todo[t] \ {room[c]} ELSE todo[t]]
      BY DEF Own
    <2> QED BY <1>0, <2>1, ChatAssumption DEF Typed, ThreadTyped
  <1>4. room[c] \in RoomIds /\ op[c] # "drop"
    BY <1>0, <1>2 DEF Settled, Placed, DropLabels, InRoom
  <1>5. pc'[c] = label /\ clientRooms'[c] = clientRooms[c] \cup {room[c]}
    BY <1>0, <1>1, <1>2 DEF Typed, ThreadTyped, RoomTyped
  <1>6. ThreadTyped' BY <1>0, <1>1, <1>2, <1>3 DEF Typed, ThreadTyped, Labels
  <1>7. RoomTyped' BY <1>0, <1>2, <1>4 DEF Typed, RoomTyped
  <1>8. Typed' /\ StorePrivate' /\ Distinct'
    BY <1>0, <1>2, <1>6, <1>7 DEF Typed, ClientTyped, StoreTyped, StorePrivate, Distinct
  <1>9. Others({c}) BY <1>0, <1>1, <1>2, <1>3 DEF Others, Typed, ThreadTyped
  <1>10. NoneNew BY <1>5, <1>9 DEF Others, NoneNew
  <1>11. Shrinks({c}) BY <1>2 DEF Shrinks
  <1>12. \A d, r : r \in RoomIds => (Has(d, r)' <=> Has(d, r)) BY <1>2 DEF Has
  <1>13. RoomsShrink({c}) BY <1>0, <1>2, <1>12 DEF RoomsShrink, Typed, RoomTyped
  <1>14. Placed(c)' BY <1>0, <1>2, <1>4, <1>5, ChatAssumption DEF Settled, Placed, DropLabels, InRoom
  <1>15. Registered(c)' BY <1>0, <1>2, <1>5 DEF Settled, Registered
  <1>16. Findable(c)' BY <1>0, <1>2, <1>5, <1>12 DEF Settled, Findable
  <1>17. Admitted(c)' BY <1>0, <1>2, <1>5, <1>12 DEF Settled, Admitted, RoomIds, Private
  <1>18. Leaving(c)' BY <1>2, <1>4, <1>5 DEF Leaving
  <1>19. Settled(c)' BY <1>14, <1>15, <1>16, <1>17, <1>18 DEF Settled
  <1> QED BY <1>8, <1>9, <1>10, <1>11, <1>13, <1>19, RoomStepKeeps

\* delete(client.Rooms, roomID)
LEMMA DisownKeeps ==
  ASSUME Inv, NEW c \in Clients, Disown(c)
  PROVE  Inv'
  <1> USE DEF Threads
  <1>0. Typed /\ Settled(c) /\ StorePrivate /\ Distinct BY DEF Inv
  <1>1. PICK label \in {"dbremove", "bcast"} : pc' = [pc EXCEPT ![c] = label]
    BY DEF Disown, Advance, Goto
  <1>2. /\ pc[c] = "disown"
        /\ op' = op /\ who' = who /\ room' = room /\ obj' = obj /\ rest' = rest /\ todo' = todo
        /\ clientRooms' = [clientRooms EXCEPT ![c] = @ \ {room[c]}]
        /\ UNCHANGED <<rooms, members, user, sid, clients, limiters, typing,
                       dbRooms, dbMembers, invited, session, fatal>>
    BY DEF Disown, Advance, clientVars, dbVars
  <1>3. room[c] \in RoomIds /\ op[c] # "drop" /\ ~Has(c, room[c])
    BY <1>0, <1>2 DEF Settled, Placed, DropLabels, InRoom, Findable
  <1>4. pc'[c] = label /\ clientRooms'[c] = clientRooms[c] \ {room[c]}
    BY <1>0, <1>1, <1>2 DEF Typed, ThreadTyped, RoomTyped
  <1>5. ThreadTyped' BY <1>0, <1>1, <1>2 DEF Typed, ThreadTyped, Labels
  <1>6. RoomTyped' BY <1>0, <1>2 DEF Typed, RoomTyped
  <1>7. Typed' /\ StorePrivate' /\ Distinct'
    BY <1>0, <1>2, <1>5, <1>6 DEF Typed, ClientTyped, StoreTyped, StorePrivate, Distinct
  <1>8. Others({c}) BY <1>0, <1>1, <1>2 DEF Others, Typed, ThreadTyped
  <1>9. NoneNew BY <1>4, <1>8 DEF Others, NoneNew
  <1>10. Shrinks({c}) BY <1>2 DEF Shrinks
  <1>11. \A d, r : r \in RoomIds => (Has(d, r)' <=> Has(d, r)) BY <1>2 DEF Has
  <1>12. RoomsShrink({c}) BY <1>0, <1>2, <1>11 DEF RoomsShrink, Typed, RoomTyped
  <1>13. Placed(c)' BY <1>0, <1>2, <1>3, <1>4, ChatAssumption DEF Settled, Placed, DropLabels, InRoom
  <1>14. Registered(c)' BY <1>0, <1>2, <1>4 DEF Settled, Registered
  <1>15. Findable(c)' BY <1>0, <1>2, <1>3, <1>4, <1>11 DEF Settled, Findable
  <1>16. Admitted(c)' BY <1>0, <1>2, <1>4, <1>11 DEF Settled, Admitted, RoomIds, Private
  <1>17. Leaving(c)' BY <1>2, <1>3, <1>4 DEF Leaving
  <1>18. Settled(c)' BY <1>13, <1>14, <1>15, <1>16, <1>17 DEF Settled
  <1> QED BY <1>7, <1>8, <1>9, <1>10, <1>12, <1>18, RoomStepKeeps

\* What the removal of c from room r does: no member is added anywhere, no
\* *Room is mapped anew, and c is out.
LEMMA RemoveFromDoes ==
  ASSUME RoomTyped, Distinct, NEW r \in RoomIds, NEW c \in Clients, RemoveFrom(r, c)
  PROVE  /\ rooms' \in [RoomIds -> Objects \cup {None}]
         /\ members' \in [Objects -> SUBSET Clients]
         /\ \A q \in RoomIds : rooms'[q] # None => rooms'[q] = rooms[q]
         /\ \A o \in Objects : members'[o] \subseteq members[o]
         /\ ~Has(c, r)'
         /\ Distinct'
         /\ \A d, q : q \in RoomIds /\ Has(d, q)' => Has(d, q)
  <1>1. CASE rooms[r] = None
    <2>1. rooms' = rooms /\ members' = members BY <1>1 DEF RemoveFrom
    <2> QED BY <1>1, <2>1 DEF Has, Distinct, RoomTyped
  <1>2. CASE rooms[r] # None
    <2>0. rooms[r] \in Objects BY <1>2 DEF RoomTyped
    <2>1. /\ members' = [members EXCEPT ![rooms[r]] = @ \ {c}]
          /\ \/ rooms' = [rooms EXCEPT ![r] = None]
             \/ rooms' = [rooms EXCEPT ![r] = rooms[r]]
      BY <1>2 DEF RemoveFrom
    <2>2. /\ rooms' \in [RoomIds -> Objects \cup {None}]
          /\ members' \in [Objects -> SUBSET Clients]
      BY <2>0, <2>1 DEF RoomTyped
    <2>3. /\ \A q \in RoomIds : rooms'[q] # None => rooms'[q] = rooms[q]
          /\ \A o \in Objects : members'[o] \subseteq members[o]
          /\ c \notin members'[rooms[r]]
      BY <2>0, <2>1 DEF RoomTyped
    <2>4. ~Has(c, r)' BY <2>3 DEF Has
    <2>5. Distinct' BY <2>3 DEF Distinct
    <2>6. \A d, q : q \in RoomIds /\ Has(d, q)' => Has(d, q)
      BY <2>2, <2>3, ChatAssumption DEF Has
    <2> QED BY <2>2, <2>3, <2>4, <2>5, <2>6
  <1> QED BY <1>1, <1>2

\* handleLeaveRoom and handleClientDisconnect remove the client from a room.
LEMMA RemoveKeeps ==
  ASSUME Inv, NEW t \in Clients \cup Droppers, (t \in Clients /\ Leave(t)) \/ Unroom(t)
  PROVE  Inv'
  <1> USE DEF Threads
  <1>0. Typed /\ Settled(t) /\ StorePrivate /\ Distinct BY DEF Inv
  <1>1. PICK from, label : /\ Advance(t, from, label)
                           /\ \/ from = "leave" /\ label = "disown" /\ t \in Clients
                              \/ from = "unroom" /\ label = "drooms"
    BY DEF Leave, Unroom
  <1>2. /\ pc[t] = from /\ pc' = [pc EXCEPT ![t] = label]
        /\ op' = op /\ who' = who /\ room' = room /\ obj' = obj /\ rest' = rest /\ todo' = todo
    BY <1>1 DEF Advance, Goto
  <1>3. UNCHANGED <<clientRooms, user, sid, clients, limiters, typing,
                    dbRooms, dbMembers, invited, session, fatal>>
    BY DEF Leave, Unroom, clientVars, dbVars
  <1>4. room[t] \in RoomIds /\ who[t] \in Clients /\ (t \in Clients => who[t] = t)
        /\ (from = "leave" => op[t] # "drop") /\ (from = "unroom" => op[t] = "drop")
    BY <1>0, <1>1, <1>2 DEF Settled, Placed, DropLabels, InRoom
  <1>5. RemoveFrom(room[t], who[t])
    <2>1. CASE t \in Clients /\ Leave(t) BY <1>4, <2>1 DEF Leave
    <2>2. CASE Unroom(t) BY <2>2 DEF Unroom
    <2> QED BY <2>1, <2>2
  <1>c. PICK c \in Clients, r \in RoomIds : who[t] = c /\ room[t] = r BY <1>4
  <1>6. /\ rooms' \in [RoomIds -> Objects \cup {None}]
        /\ members' \in [Objects -> SUBSET Clients]
        /\ \A q \in RoomIds : rooms'[q] # None => rooms'[q] = rooms[q]
        /\ \A o \in Objects : members'[o] \subseteq members[o]
        /\ ~Has(c, r)'
        /\ Distinct'
        /\ \A d, q : q \in RoomIds /\ Has(d, q)' => Has(d, q)
    BY <1>0, <1>c, <1>5, RemoveFromDoes DEF Typed
  <1>7. pc'[t] = label BY <1>0, <1>2 DEF Typed, ThreadTyped
  <1>8. ThreadTyped' BY <1>0, <1>1, <1>2 DEF Typed, ThreadTyped, Labels
  <1>9. Typed' /\ StorePrivate'
    BY <1>0, <1>3, <1>6, <1>8 DEF Typed, RoomTyped, ClientTyped, StoreTyped, StorePrivate
  <1>10. Others({t}) BY <1>0, <1>2 DEF Others, Typed, ThreadTyped
  <1>11. NoneNew BY <1>1, <1>7, <1>10 DEF Others, NoneNew
  <1>12. Shrinks({t}) BY <1>3 DEF Shrinks
  <1>13. RoomsShrink({t})
    <2>1. ASSUME NEW d \in Clients \ {t}, pc[d] \in {"permit", "enter"}, NEW q \in RoomIds,
                 rooms'[q] = obj[d]
          PROVE  rooms[q] = obj[d]
      <3>1. obj[d] # None BY <2>1 DEF Inv, Settled, Placed
      <3> QED BY <1>6, <2>1, <3>1
    <2> QED BY <1>3, <1>6, <2>1 DEF RoomsShrink
  <1>14. Placed(t)'
    <2>1. t \in Droppers => pc'[who[t]] # "new"
      BY <1>0, <1>1, <1>2, <1>11, ChatAssumption DEF Settled, Placed, NoneNew
    <2> QED BY <1>0, <1>1, <1>2, <1>4, <1>7, <2>1, ChatAssumption
            DEF Settled, Placed, DropLabels, InRoom
  <1>15. ASSUME t \in Clients PROVE Registered(t)' /\ Findable(t)' /\ Admitted(t)' /\ Leaving(t)'
    <2>0. Registered(t) /\ Findable(t) /\ Admitted(t) /\ Leaving(t) BY <1>0, <1>15 DEF Settled
    <2>1. ~Has(t, room[t])' BY <1>2, <1>4, <1>6, <1>c, <1>15 DEF Has
    <2>2. \A q \in RoomIds : Has(t, q)' => Has(t, q) BY <1>6
    <2>3. Registered(t)' BY <1>1, <1>2, <1>3, <1>7, <2>0 DEF Registered
    <2>4. Findable(t)' BY <1>1, <1>2, <1>3, <1>7, <2>0, <2>1, <2>2 DEF Findable
    <2>5. Admitted(t)' BY <1>1, <1>2, <1>3, <1>7, <2>0, <2>2 DEF Admitted, RoomIds, Private
    <2>6. Leaving(t)' BY <1>1, <1>2, <1>4, <1>7, <2>0, <2>1, <2>2 DEF Leaving
    <2> QED BY <2>3, <2>4, <2>5, <2>6
  <1>16. Settled(t)' BY <1>14, <1>15 DEF Settled
  <1> QED BY <1>6, <1>9, <1>10, <1>11, <1>12, <1>13, <1>16, RoomStepKeeps

-----------------------------------------------------------------------------
(* The theorems                                                            *)

\* At the start there are the default rooms and nobody in them.
LEMMA InitInv == Init => Inv
  <1> USE DEF Threads
  <1> SUFFICES ASSUME Init PROVE Inv OBVIOUS
  <1>1. ThreadTyped BY DEF Init, ThreadTyped, Labels
  <1>2. RoomTyped /\ ClientTyped BY DEF Init, initializeDefaultRooms, RoomTyped, ClientTyped
  <1>3. StoreTyped
    BY ChatAssumption DEF Init, initializeDefaultRooms, StoreTyped, RoomIds
  <1>4. Distinct BY DEF Init, initializeDefaultRooms, Distinct
  <1>5. StorePrivate BY DEF Init, StorePrivate
  <1>6. ASSUME NEW t \in Threads PROVE Settled(t)
    <2>1. Placed(t) BY ChatAssumption DEF Init, Placed, DropLabels, InRoom
    <2>2. \A r \in RoomIds : ~Has(t, r) BY DEF Init, initializeDefaultRooms, Has
    <2>3. ASSUME t \in Clients PROVE pc[t] = "new" /\ op[t] = "none" /\ clientRooms[t] = {}
      BY <2>3 DEF Init
    <2>4. ASSUME t \in Clients PROVE Registered(t) /\ Findable(t) /\ Admitted(t) /\ Leaving(t)
      <3>1. Registered(t) BY <2>3, <2>4 DEF Init, Registered
      <3>2. Findable(t) /\ Admitted(t) /\ Leaving(t)
        BY <2>2, <2>3, <2>4 DEF Findable, Admitted, Leaving, RoomIds, Private
      <3> QED BY <3>1, <3>2
    <2> QED BY <2>1, <2>4 DEF Settled
  <1> QED BY <1>1, <1>2, <1>3, <1>4, <1>5, <1>6 DEF Inv, Typed

\* A step that moves no goroutine, leaves rooms and clients alone and takes
\* no invitation back.
LEMMA ApartKeeps ==
  ASSUME Inv, UNCHANGED <<threadVars, roomVars, clientVars>>, StoreTyped', StorePrivate',
         \A r \in RoomIds : invited[r] \subseteq invited'[r]
  PROVE  Inv'
  <1>1. UNCHANGED <<pc, op, who, room, obj, todo, rest, rooms, members, clientRooms, user, sid,
                    clients, limiters, typing>>
    BY DEF threadVars, roomVars, clientVars
  <1>2. Typed' /\ Distinct'
    BY <1>1 DEF Inv, Typed, ThreadTyped, RoomTyped, ClientTyped, Distinct
  <1>3. Others({}) /\ NoneNew /\ Shrinks({}) /\ RoomsShrink({})
    BY <1>1 DEF Others, NoneNew, Shrinks, RoomsShrink, Has
  <1> QED BY <1>2, <1>3, RoomStepKeeps

\* Making the users us members of r, whoever the database has as members of
\* r then.
LEMMA InviteKeeps ==
  ASSUME StoreTyped, StorePrivate, NEW r \in RoomIds, NEW us \in SUBSET Users,
         NEW ms \in SUBSET (us \cup dbMembers[r]),
         dbMembers' = [dbMembers EXCEPT ![r] = ms],
         invited' = [invited EXCEPT ![r] = @ \cup us], UNCHANGED session
  PROVE  /\ dbMembers' \in [RoomIds -> SUBSET Users] /\ invited' \in [RoomIds -> SUBSET Users]
         /\ \A q \in RoomIds : invited[q] \subseteq invited'[q]
         /\ StorePrivate'
  <1>1. /\ dbMembers' \in [RoomIds -> SUBSET Users] /\ invited' \in [RoomIds -> SUBSET Users]
        /\ \A q \in RoomIds : dbMembers'[q] = IF q = r THEN ms ELSE dbMembers[q]
        /\ \A q \in RoomIds : invited'[q] = IF q = r THEN invited[q] \cup us ELSE invited[q]
    BY DEF StoreTyped
  <1>2. \A q \in RoomIds : invited[q] \subseteq invited'[q] BY <1>1
  <1>3. Private \subseteq RoomIds BY DEF Private, RoomIds
  <1>4. \A q \in Private : dbMembers'[q] \subseteq invited'[q] BY <1>1, <1>3 DEF StorePrivate
  <1> QED BY <1>1, <1>2, <1>3, <1>4 DEF StorePrivate

\* The HTTP API changes the database only.
LEMMA ApiKeeps ==
  ASSUME Inv, ApiStep
  PROVE  Inv'
  <1>0. StoreTyped /\ StorePrivate /\ Private \subseteq RoomIds
    BY DEF Inv, Typed, Private, RoomIds
  <1>1. UNCHANGED <<threadVars, roomVars, clientVars, session, fatal>>
    BY DEF ApiStep, CreateGroupRoom, CreateDMRoom, InviteUser, RemoveUser, DeleteRoom, Api
  <1>2. dbRooms' \subseteq RoomIds
    BY <1>0 DEF ApiStep, CreateGroupRoom, CreateDMRoom, InviteUser, RemoveUser, DeleteRoom,
                StoreTyped, RoomIds
  <1>3. PICK r \in RoomIds, us \in SUBSET Users, ms \in SUBSET Users :
          /\ ms \subseteq us \cup dbMembers[r]
          /\ dbMembers' = [dbMembers EXCEPT ![r] = ms]
          /\ invited' = [invited EXCEPT ![r] = @ \cup us]
    <2> DEFINE Does(r, us, ms) == /\ ms \subseteq us \cup dbMembers[r]
                                  /\ dbMembers' = [dbMembers EXCEPT ![r] = ms]
                                  /\ invited' = [invited EXCEPT ![r] = @ \cup us]
    <2>0. \A r \in RoomIds : /\ invited = [invited EXCEPT ![r] = @ \cup {}]
                             /\ dbMembers[r] \in SUBSET Users
      BY <1>0 DEF StoreTyped
    <2>1. CASE CreateGroupRoom
      <3>1. PICK r \in GroupRooms, u \in Users : Does(r, {u}, {u})
        BY <2>1 DEF CreateGroupRoom, Invite
      <3>2. r \in RoomIds /\ {u} \in SUBSET Users BY DEF RoomIds
      <3> QED BY <3>1, <3>2
    <2>2. CASE CreateDMRoom
      <3>1. PICK p \in Sorted :
              p[1] \o p[2] \in DmRooms /\ Does(p[1] \o p[2], {p[1], p[2]}, {p[1], p[2]})
        BY <2>2 DEF CreateDMRoom, Invite
      <3>2. p[1] \in Users /\ p[2] \in Users BY ChatAssumption
      <3> DEFINE r == p[1] \o p[2]
                 us == {p[1], p[2]}
      <3>3. r \in RoomIds /\ us \in SUBSET Users
        BY <3>1, <3>2 DEF RoomIds
      <3>4. Does(r, us, us) BY <3>1
      <3> HIDE DEF r, us, Does
      <3>5. \E q \in RoomIds : \E vs \in SUBSET Users : \E ms \in SUBSET Users :
              Does(q, vs, ms)
        BY <3>3, <3>4
      <3> QED BY <3>5 DEF Does
    <2>3. CASE InviteUser
      <3>1. PICK r \in Private, u \in Users : AddRoomMember(r, u) /\ Invite(r, {u})
        BY <2>3 DEF InviteUser
      <3>2. r \in RoomIds /\ {u} \in SUBSET Users
            /\ dbMembers[r] \cup {u} \in SUBSET Users
        BY <1>0, <2>0
      <3>3. Does(r, {u}, dbMembers[r] \cup {u}) BY <3>1 DEF AddRoomMember, Invite
      <3> QED BY <3>2, <3>3
    <2>4. CASE RemoveUser
      <3>1. PICK r \in Private, u \in Users : RemoveRoomMember(r, u)
        BY <2>4 DEF RemoveUser
      <3>2. r \in RoomIds /\ {} \in SUBSET Users
            /\ dbMembers[r] \ {u} \in SUBSET Users
        BY <1>0, <2>0
      <3>3. Does(r, {}, dbMembers[r] \ {u})
        BY <2>0, <2>4, <3>1, <3>2 DEF RemoveRoomMember, RemoveUser
      <3> QED BY <3>2, <3>3
    <2>5. CASE DeleteRoom
      <3>1. PICK r \in dbRooms : dbMembers' = [dbMembers EXCEPT ![r] = {}]
        BY <2>5 DEF DeleteRoom
      <3>2. r \in RoomIds /\ {} \in SUBSET Users
        BY <1>0 DEF StoreTyped
      <3>3. Does(r, {}, {}) BY <2>0, <2>5, <3>1, <3>2 DEF DeleteRoom
      <3> QED BY <3>2, <3>3
    <2> QED BY <2>1, <2>2, <2>3, <2>4, <2>5 DEF ApiStep
  <1>4. /\ dbMembers' \in [RoomIds -> SUBSET Users] /\ invited' \in [RoomIds -> SUBSET Users]
        /\ \A q \in RoomIds : invited[q] \subseteq invited'[q]
        /\ StorePrivate'
    BY <1>0, <1>1, <1>3, InviteKeeps
  <1>5. StoreTyped' BY <1>0, <1>1, <1>2, <1>4 DEF StoreTyped
  <1> QED BY <1>1, <1>4, <1>5, ApartKeeps

\* Every step keeps the invariant.
LEMMA NextKeeps == Inv /\ [Next]_vars => Inv'
  <1> SUFFICES ASSUME Inv, [Next]_vars PROVE Inv' OBVIOUS
  <1>0. StoreTyped /\ StorePrivate BY DEF Inv, Typed
  <1>1. CASE UNCHANGED vars
    <2>1. UNCHANGED <<threadVars, roomVars, clientVars, dbVars, session, fatal>>
      BY <1>1 DEF vars
    <2> QED BY <1>0, <2>1, ApartKeeps DEF StoreTyped, StorePrivate, dbVars
  <1>2. CASE RaceAbort
    BY <1>0, <1>2, ApartKeeps DEF RaceAbort, StoreTyped, StorePrivate, dbVars
  <1>3. CASE ApiStep BY <1>3, ApiKeeps
  <1>4. CASE SweepStart \/ SweepStep
    BY <1>4, SweepKeeps, BroadcastKeeps DEF SweepStep, Threads
  <1>5. ASSUME NEW t \in Clients \cup Droppers, DropStep(t) PROVE Inv'
    BY <1>5, DropKeeps, DropSessionKeeps, RemoveKeeps DEF DropStep
  <1>6. ASSUME NEW t \in Clients \cup Droppers, BroadcastStep(t) PROVE Inv'
    BY <1>6, BroadcastKeeps DEF Threads
  <1>7. ASSUME NEW c \in Clients, PeerStep(c) PROVE Inv'
    BY <1>7, ConnectKeeps, DropBegins, PlainStepsKeep, AnyRecvKeeps
       DEF PeerStep, RecvSay, RecvThreadReply, RecvShare, RecvReceipt, RecvCall, RecvSignal
  <1>8. ASSUME NEW c \in Clients, JoinStep(c) PROVE Inv'
    BY <1>8, AdmissionKeeps, HandlerKeeps, CreateKeeps, EnterKeeps, OwnKeeps DEF JoinStep
  <1>9. ASSUME NEW c \in Clients, LeaveStep(c) PROVE Inv'
    BY <1>9, RemoveKeeps, DisownKeeps, HandlerKeeps DEF LeaveStep
  <1>10. ASSUME NEW c \in Clients, ReaderStep(c) PROVE Inv'
    BY <1>5, <1>6, <1>8, <1>9, <1>10, SaveSessionKeeps, PlainStepsKeep, HandlerKeeps DEF ReaderStep
  <1> QED BY <1>1, <1>2, <1>3, <1>4, <1>5, <1>6, <1>7, <1>10 DEF Next, Step, Aborted, Quiet

LEMMA AlwaysInv == Spec => []Inv
  BY InitInv, NextKeeps, PTL DEF Spec

\* The variables of the chat server keep their types, and no goroutine of
\* handleJoinRoom or broadcastToRoom uses a nil *Room.
THEOREM TypesKept == Spec => []TypeOK
  BY AlwaysInv, InvTypeOK, PTL

\* Whoever is in a room that s.rooms maps has it in its client.Rooms, or is
\* between the two writes of handleJoinRoom.
THEOREM MembersFindRoom == Spec => []MembersHaveRoom
  <1>1. Inv => MembersHaveRoom
    <2> SUFFICES ASSUME Inv, NEW r \in RoomIds, rooms[r] # None, NEW c \in members[rooms[r]]
                 PROVE  r \in clientRooms[c] \/ (pc[c] = "own" /\ room[c] = r)
      BY DEF MembersHaveRoom
    <2>1. c \in Clients BY DEF Inv, Typed, RoomTyped
    <2> QED BY <2>1 DEF Inv, Settled, Findable, Has, Threads
  <1> QED BY <1>1, AlwaysInv, PTL

\* When handleClientDisconnect has run in the reader of a connection, no
\* trace of it is left, whatever other goroutines disconnect it as well.  A
\* reader that ends after a pong timeout does not run it.
THEOREM GoneWithoutTrace == Spec => []GoneLeavesNoTrace
  <1>1. Inv => GoneLeavesNoTrace
    BY DEF Inv, Settled, Leaving, Has, GoneLeavesNoTrace, Threads
  <1> QED BY <1>1, AlwaysInv, PTL

\* Only users that the API made members of a private room are ever in it or
\* have it among their rooms: checkRoomPermission, the members it asks for
\* and the sessions rooms are restored from let nobody else in.
THEOREM PrivateByInvitation == Spec => []PrivateRooms
  <1>1. Inv => PrivateRooms
    BY DEF Inv, Settled, Admitted, Has, PrivateRooms, Threads, Private, RoomIds
  <1> QED BY <1>1, AlwaysInv, PTL
=============================================================================
