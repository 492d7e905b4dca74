---------------------------- MODULE ChatMessages ----------------------------
(***************************************************************************)
(* The messages of the chat server (chat/server.go, chat/http.go) on their *)
(* way: the rate limiter, the database, the broadcast, the history that a  *)
(* join is answered with, and files and media, which come in a text        *)
(* message, as metadata followed by a binary message, or over HTTP.        *)
(*                                                                         *)
(* Each connection has a goroutine that reads it and handles one message   *)
(* at a time; HTTP requests run beside them.  A handler gives up the floor *)
(* between writing a file, saving, looking the room up and each write of   *)
(* its broadcast.  Times are ticks of a clock.                             *)
(*                                                                         *)
(* The rooms are public ones that Start has made, so that they neither     *)
(* appear nor go; how rooms do, the presence messages, the steps of a      *)
(* disconnect, of which only the outcome is here, and the runtime's abort  *)
(* on unlocked maps are in ChatRooms.                                      *)
(***************************************************************************)
EXTENDS Naturals, Sequences, FiniteSets

CONSTANTS
  Clients,       \* connections, all of one user
  Uploader,      \* the goroutine of FileUploadHandler
  Rooms,         \* public rooms
  NoRoom,        \* the empty room ID
  None,
  Ids,           \* message IDs that clients make up themselves
  Requests, Window,   \* of SecurityConfig.RateLimitPerSocket
  HistoryLimit,  \* messages in a history
  Workloads      \* bounds, one set of them for each behaviour: the kinds of
                 \* messages, how many of them a connection sends and how many
                 \* files a request has, how many writes to a client fail, and
                 \* how far the clock goes

Threads == Clients \cup {Uploader}
Kinds == {"message", "file", "media", "binary", "join", "leave"}

ASSUME MessagesAssumption ==
  /\ Uploader \notin Clients /\ NoRoom \notin Rooms
  /\ None \notin Clients /\ None \notin [LastReset : Nat, CurrentUsed : Nat]
  /\ Requests \in Nat \ {0} /\ Window \in Nat \ {0}
  /\ HistoryLimit \in Nat
  /\ Workloads \subseteq [kinds : SUBSET Kinds, messages : [Threads -> Nat], fails : Nat, time : Nat]

VARIABLES
  work,          \* the workload of this behaviour
  pc,            \* where a goroutine is
  msg,           \* the message it handles
  target,        \* the client that an HTTP upload has found
  rest,          \* broadcast: clients the range may still yield
  sent,          \* how many messages a connection, or files a request, had
  binaries,      \* how many of them were binary
  clients,       \* s.clients
  clientRooms,   \* client.Rooms
  members,       \* room.Clients
  fileMeta, mediaMeta,   \* s.pendingFileMeta, s.pendingMediaMeta
  limiter,       \* s.rateLimiters
  now,
  db,            \* the messages in the database, no two with one ID
  files,         \* the messages whose file is in ./uploads
  dropping,      \* clients that handleClientDisconnect is under way for
  drops,         \* how many writes to a client have failed
  \* For the properties only:
  saved,         \* messages that SaveMessage has put into the database
  inbox,         \* messages a client has been sent
  acked,         \* messages acknowledged as sent
  accepted, refused   \* times at which the rate limiter said yes, and no

threadVars == <<pc, msg, target, rest, sent>>
roomVars   == <<clients, clientRooms, members>>
metaVars   == <<binaries, fileMeta, mediaMeta>>
rateVars   == <<limiter, accepted, refused>>
storeVars  == <<db, saved, files, inbox, acked>>
dropVars   == <<dropping, drops>>
vars == <<threadVars, roomVars, metaVars, rateVars, storeVars, dropVars, now, work>>

Init ==
  /\ work \in Workloads
  /\ pc = [t \in Threads |-> IF t \in Clients THEN "new" ELSE "idle"]
  /\ msg = [t \in Threads |-> None]
  /\ target = None
  /\ rest = [t \in Threads |-> {}]
  /\ sent = [t \in Threads |-> 0]
  /\ binaries = [c \in Clients |-> 0]
  /\ clients = {}
  /\ clientRooms = [c \in Clients |-> {}]
  /\ members = [r \in Rooms |-> {}]
  /\ fileMeta = [c \in Clients |-> None] /\ mediaMeta = [c \in Clients |-> None]
  /\ limiter = [c \in Clients |-> None]
  /\ now = 0
  /\ db = {} /\ saved = {} /\ files = {} /\ acked = {} /\ inbox = [c \in Clients |-> {}]
  /\ dropping = {} /\ drops = [c \in Clients |-> 0]
  /\ accepted = [c \in Clients |-> <<>>] /\ refused = [c \in Clients |-> {}]

Tick ==
  /\ now < work.time
  /\ now' = now + 1
  /\ UNCHANGED <<threadVars, roomVars, metaVars, rateVars, storeVars, dropVars, work>>

-----------------------------------------------------------------------------
(* Connections                                                             *)

\* handleNewConnectionWithUser: the rooms are those of a restored session,
\* if there is one; room.Clients stays as it is.
Connect(c) ==
  /\ pc[c] = "new" /\ work.messages[c] > 0
  /\ pc' = [pc EXCEPT ![c] = "idle"]
  /\ \E rs \in SUBSET Rooms : clientRooms' = [clientRooms EXCEPT ![c] = rs]
  /\ clients' = clients \cup {c}
  /\ UNCHANGED <<msg, target, rest, sent, members, metaVars, rateVars, storeVars, dropVars, now, work>>

\* conn.WriteText to d, by whichever goroutine: on an error it starts
\* handleClientDisconnect.
WriteFails(d) ==
  /\ drops[d] < work.fails
  /\ drops' = [drops EXCEPT ![d] = @ + 1]
  /\ dropping' = dropping \cup {d}

WriteTo(d) == UNCHANGED dropVars \/ WriteFails(d)

\* The connection ends: the reader calls OnError or OnClose, unless it is
\* this end that has closed it, as after a ping without a pong.
ReaderEnds(c) ==
  /\ pc[c] = "idle"
  /\ pc' = [pc EXCEPT ![c] = "gone"]
  /\ dropping' = dropping \cup {c} \/ UNCHANGED dropping
  /\ UNCHANGED <<msg, target, rest, sent, roomVars, metaVars, rateVars, storeVars, drops, now, work>>

\* handleClientDisconnect: out of the rooms of client.Rooms, of s.clients and
\* of s.rateLimiters.  A reader that has not ended reads on.
Disconnect(c) ==
  /\ c \in dropping
  /\ dropping' = dropping \ {c}
  /\ members' = [r \in Rooms |-> IF r \in clientRooms[c] THEN members[r] \ {c} ELSE members[r]]
  /\ clients' = clients \ {c}
  /\ limiter' = [limiter EXCEPT ![c] = None]
  /\ UNCHANGED <<threadVars, clientRooms, metaVars, accepted, refused, storeVars, drops, now, work>>

-----------------------------------------------------------------------------
(* checkRateLimit, under rateMu                                            *)

Fresh == [LastReset |-> now, CurrentUsed |-> 0]

\* Mutant of Limiter: a window that has passed keeps its count.
LimiterKeeps(c) ==
  IF limiter[c] = None THEN Fresh
  ELSE IF now - limiter[c].LastReset >= Window THEN [limiter[c] EXCEPT !.LastReset = now]
  ELSE limiter[c]

\* The client's limiter, made when there is none, with its window begun
\* anew when it has passed.
Limiter(c) ==
  IF limiter[c] = None \/ now - limiter[c].LastReset >= Window THEN Fresh ELSE limiter[c]

Allowed(c) == Limiter(c).CurrentUsed < Requests

\* Mutant of Count: the message is not counted.
CountNot(c) == Limiter(c)

Count(c) ==
  IF Allowed(c) THEN [Limiter(c) EXCEPT !.CurrentUsed = @ + 1] ELSE Limiter(c)

checkRateLimit(c) ==
  /\ limiter' = [limiter EXCEPT ![c] = Count(c)]
  /\ accepted' = [accepted EXCEPT ![c] = IF Allowed(c) THEN Append(@, now) ELSE @]
  /\ refused' = [refused EXCEPT ![c] = IF Allowed(c) THEN @ ELSE @ \cup {now}]

-----------------------------------------------------------------------------
(* The goroutines' control flow                                            *)

Client(t) == IF t \in Clients THEN t ELSE target

Goto(t, label) ==
  /\ pc' = [pc EXCEPT ![t] = label]
  /\ UNCHANGED <<msg, target, rest, sent>>

\* The handler returns.
Return(t) ==
  /\ pc' = [pc EXCEPT ![t] = "idle"]
  /\ msg' = [msg EXCEPT ![t] = None]
  /\ target' = IF t = Uploader THEN None ELSE target
  /\ rest' = [rest EXCEPT ![t] = {}]
  /\ UNCHANGED sent

\* generateMessageID: random, so that no two are alike.
Generated(t) == <<t, sent[t]>>

\* payload.MessageID: a client may leave it out, make one up, or repeat the
\* one of a message that is in the database.
Supplied(c) == {Generated(c)} \cup Ids \cup {m.id : m \in db}

\* A message of t to room r; an upload has the number of its binary message
\* and how many of them its client had sent before the metadata.
Message(t, r, id) ==
  [id |-> id, by |-> t, n |-> sent[t], room |-> r, upload |-> FALSE, binary |-> 0, after |-> 0]

Upload(c, meta) ==
  [id |-> Generated(c), by |-> c, n |-> sent[c], room |-> meta.room, upload |-> TRUE,
   binary |-> binaries[c], after |-> meta.after]

\* The connection's reader has the next message, and goes to label with m,
\* or is done with it.
Recv(c, kind) == pc[c] = "idle" /\ sent[c] < work.messages[c] /\ kind \in work.kinds

Handle(c, m, label) ==
  /\ pc' = [pc EXCEPT ![c] = label]
  /\ msg' = [msg EXCEPT ![c] = IF label = "idle" THEN None ELSE m]
  /\ sent' = [sent EXCEPT ![c] = @ + 1]
  /\ UNCHANGED <<target, rest>>

-----------------------------------------------------------------------------
(* Text messages: the OnMessage handler and handleMessage                  *)

\* A room ID that is missing in the metadata is replaced by one of the
\* client's rooms, if it has any.
MetaRooms(c, q) == IF q = NoRoom /\ clientRooms[c] # {} THEN clientRooms[c] ELSE {q}

\* The metadata is kept for the next binary message, whatever handleMessage
\* makes of the text, unless it cannot be parsed.
KeepMeta(c, type, q) ==
  /\ \E r \in MetaRooms(c, q), parsed \in BOOLEAN :
       LET meta == [room |-> r, after |-> binaries[c]] IN
       /\ fileMeta' = [fileMeta EXCEPT ![c] = IF type = "file" /\ parsed THEN meta ELSE @]
       /\ mediaMeta' = [mediaMeta EXCEPT ![c] = IF type = "media" /\ parsed THEN meta ELSE @]
  /\ UNCHANGED binaries

\* handleChatMessage, handleThreadReply, handleFileShare, handleMediaShare:
\* the message is saved if the client is in the room, and nothing else is
\* wrong with it (too long, too large, payload); otherwise an error is sent.
RecvText(c) ==
  /\ checkRateLimit(c)
  /\ \E type \in {"message", "file", "media"}, r, q \in Rooms \cup {NoRoom} :
       /\ Recv(c, type)
       /\ KeepMeta(c, type, q)
       /\ \/ /\ Allowed(c) /\ r \in clientRooms[c]
             /\ \E id \in Supplied(c) : Handle(c, Message(c, r, id), "save")
             /\ UNCHANGED dropVars
          \/ Handle(c, None, "idle") /\ WriteTo(c)
  /\ UNCHANGED <<roomVars, storeVars, now, work>>

\* InMemoryDB.SaveMessage replaces what the ID stood for.
SaveMessage(m) ==
  /\ db' = {k \in db : k.id # m.id} \cup {m}
  /\ saved' = saved \cup {m}

\* An error of SaveMessage ends the handler, but not that of a binary message.
Save(t) ==
  /\ pc[t] = "save"
  /\ \/ SaveMessage(msg[t]) /\ Goto(t, "lookup") /\ UNCHANGED dropVars
     \/ /\ UNCHANGED <<db, saved>>
        /\ IF msg[t].upload THEN Goto(t, "lookup") /\ UNCHANGED dropVars
           ELSE Return(t) /\ WriteTo(Client(t))
  /\ UNCHANGED <<roomVars, metaVars, rateVars, files, inbox, acked, now, work>>

\* broadcastToRoom finds the room, or not, ...
Lookup(t) ==
  /\ pc[t] = "lookup"
  /\ pc' = [pc EXCEPT ![t] = IF msg[t].room \in Rooms THEN "range" ELSE "ack"]
  /\ rest' = [rest EXCEPT ![t] = Clients]
  /\ UNCHANGED <<msg, target, sent, roomVars, metaVars, rateVars, storeVars, dropVars, now, work>>

\* ... writes to its clients one after the other, the sender included, ...
Write(t) ==
  /\ pc[t] = "range"
  /\ \E d \in rest[t] \cap members[msg[t].room] :
       /\ rest' = [rest EXCEPT ![t] = @ \ {d}]
       /\ \/ inbox' = [inbox EXCEPT ![d] = @ \cup {msg[t]}] /\ UNCHANGED dropVars
          \/ UNCHANGED inbox /\ WriteFails(d)
  /\ UNCHANGED <<pc, msg, target, sent, roomVars, metaVars, rateVars, db, saved, files, acked, now, work>>

RangeEnds(t) ==
  /\ pc[t] = "range" /\ rest[t] \cap members[msg[t].room] = {}
  /\ Goto(t, "ack")
  /\ UNCHANGED <<roomVars, metaVars, rateVars, storeVars, dropVars, now, work>>

\* ... and the sender is told.
Acknowledge(t) ==
  /\ pc[t] = "ack"
  /\ Return(t)
  /\ \/ acked' = acked \cup {msg[t]} /\ UNCHANGED dropVars
     \/ UNCHANGED acked /\ WriteFails(Client(t))
  /\ UNCHANGED <<roomVars, metaVars, rateVars, db, saved, files, inbox, now, work>>

-----------------------------------------------------------------------------
(* Binary messages                                                         *)

\* Mutant of TakeMeta: metadata that is not used stays.
TakeOne(c) ==
  /\ fileMeta' = [fileMeta EXCEPT ![c] = None]
  /\ mediaMeta' = [mediaMeta EXCEPT ![c] = IF fileMeta[c] = None THEN None ELSE @]

\* Metadata of both kinds is removed, each under its lock.
TakeMeta(c) ==
  /\ fileMeta' = [fileMeta EXCEPT ![c] = None]
  /\ mediaMeta' = [mediaMeta EXCEPT ![c] = None]

\* That of a file is used before that of media; without any, an error is
\* sent.  Neither the rate limiter nor client.Rooms is asked.
RecvBinary(c) ==
  LET meta == IF fileMeta[c] # None THEN fileMeta[c] ELSE mediaMeta[c] IN
  /\ Recv(c, "binary")
  /\ TakeMeta(c)
  /\ binaries' = [binaries EXCEPT ![c] = @ + 1]
  /\ IF meta = None THEN Handle(c, None, "idle") /\ WriteTo(c)
     ELSE Handle(c, Upload(c, meta), "store") /\ UNCHANGED dropVars
  /\ UNCHANGED <<roomVars, rateVars, storeVars, now, work>>

\* Mutant of StoreFails: the handler goes on.
StoreFailsOn(c) ==
  /\ pc[c] = "store"
  /\ Goto(c, "save") /\ WriteTo(c)
  /\ UNCHANGED <<roomVars, metaVars, rateVars, storeVars, now, work>>

\* saveUploadedFile, in handleBinaryMessage and handleBinaryMediaMessage.
Store(c) ==
  /\ pc[c] = "store"
  /\ Goto(c, "save")
  /\ files' = files \cup {msg[c]}
  /\ UNCHANGED <<roomVars, metaVars, rateVars, db, saved, inbox, acked, dropVars, now, work>>

StoreFails(c) ==
  /\ pc[c] = "store"
  /\ Return(c) /\ WriteTo(c)
  /\ UNCHANGED <<roomVars, metaVars, rateVars, storeVars, now, work>>

-----------------------------------------------------------------------------
(* FileUploadHandler: the files of a request, one after the other.  One    *)
(* that cannot be read is skipped, and one that is too large ends the      *)
(* request: neither touches the server.                                    *)

\* handleFileShareFromHTTP, handleMediaShareFromHTTP: any connection of the
\* user will do; the file is dropped when there is none.
FindClient ==
  /\ pc[Uploader] = "idle" /\ sent[Uploader] < work.messages[Uploader]
  /\ sent' = [sent EXCEPT ![Uploader] = @ + 1]
  /\ \E r \in Rooms :
       \/ /\ clients = {}
          /\ UNCHANGED <<pc, msg, target>>
       \/ /\ target' \in clients
          /\ pc' = [pc EXCEPT ![Uploader] = "share"]
          /\ msg' = [msg EXCEPT ![Uploader] = Message(Uploader, r, Generated(Uploader))]
  /\ UNCHANGED <<rest, roomVars, metaVars, rateVars, storeVars, dropVars, now, work>>

\* handleFileShare, handleMediaShare for that connection, which may be gone.
Share ==
  /\ pc[Uploader] = "share"
  /\ IF msg[Uploader].room \in clientRooms[target]
     THEN Goto(Uploader, "save") /\ UNCHANGED dropVars
     ELSE Return(Uploader) /\ WriteTo(target)
  /\ UNCHANGED <<roomVars, metaVars, rateVars, storeVars, now, work>>

-----------------------------------------------------------------------------
(* handleJoinRoom and handleLeaveRoom                                      *)

\* Mutant of JoinNext: the history is read before the room is entered.
JoinNextSwapped(label) ==
  CASE label = "join"    -> "history"
    [] label = "history" -> "enter"
    [] label = "enter"   -> "own"
    [] label = "own"     -> "idle"

\* The order of the steps of a join.
JoinNext(label) ==
  CASE label = "join"    -> "enter"
    [] label = "enter"   -> "own"
    [] label = "own"     -> "history"
    [] label = "history" -> "idle"

RecvJoin(c) ==
  /\ Recv(c, "join")
  /\ checkRateLimit(c)
  /\ \E r \in Rooms :
       IF Allowed(c)
       THEN Handle(c, Message(c, r, Generated(c)), JoinNext("join")) /\ UNCHANGED dropVars
       ELSE Handle(c, None, "idle") /\ WriteTo(c)
  /\ UNCHANGED <<roomVars, metaVars, storeVars, now, work>>

JoinGoes(c, label) == IF JoinNext(label) = "idle" THEN Return(c) ELSE Goto(c, JoinNext(label))

\* A range over room.Clients that is under way may skip a new entry.
Enter(c) ==
  LET r == msg[c].room
      ranges == {t \in Threads : pc[t] = "range" /\ msg[t].room = r}
  IN
  /\ pc[c] = "enter"
  /\ members' = [members EXCEPT ![r] = @ \cup {c}]
  /\ pc' = [pc EXCEPT ![c] = JoinNext("enter")]
  /\ \E ts \in SUBSET ranges :
       /\ c \in members[r] => ts = {}
       /\ rest' = [t \in Threads |-> IF t \in ts THEN rest[t] \ {c} ELSE rest[t]]
  /\ UNCHANGED <<msg, target, sent, clients, clientRooms, metaVars, rateVars, storeVars,
                 dropVars, now, work>>

Own(c) ==
  /\ pc[c] = "own"
  /\ clientRooms' = [clientRooms EXCEPT ![c] = @ \cup {msg[c].room}]
  /\ JoinGoes(c, "own")
  /\ UNCHANGED <<clients, members, metaVars, rateVars, storeVars, dropVars, now, work>>

\* InMemoryDB.GetMessages, without an offset: any of the room's messages,
\* up to the limit.
GetMessages(r) ==
  LET ms == {m \in db : m.room = r} IN
  {h \in SUBSET ms : h = ms \/ Cardinality(h) = HistoryLimit}

\* The history, if there is any, and the acknowledgment of the join are sent.
History(c) ==
  /\ pc[c] = "history"
  /\ JoinGoes(c, "history")
  /\ \E h \in GetMessages(msg[c].room) :
       \/ inbox' = [inbox EXCEPT ![c] = @ \cup h] /\ WriteTo(c)
       \/ h # {} /\ UNCHANGED inbox /\ WriteFails(c)
  /\ UNCHANGED <<roomVars, metaVars, rateVars, db, saved, files, acked, now, work>>

RecvLeave(c) ==
  /\ Recv(c, "leave")
  /\ checkRateLimit(c)
  /\ \E r \in Rooms :
       IF Allowed(c) /\ r \in clientRooms[c]
       THEN Handle(c, Message(c, r, Generated(c)), "leave") /\ UNCHANGED dropVars
       ELSE Handle(c, None, "idle") /\ WriteTo(c)
  /\ UNCHANGED <<roomVars, metaVars, storeVars, now, work>>

Leave(c) ==
  /\ pc[c] = "leave"
  /\ members' = [members EXCEPT ![msg[c].room] = @ \ {c}]
  /\ Goto(c, "disown")
  /\ UNCHANGED <<clients, clientRooms, metaVars, rateVars, storeVars, dropVars, now, work>>

Disown(c) ==
  /\ pc[c] = "disown"
  /\ clientRooms' = [clientRooms EXCEPT ![c] = @ \ {msg[c].room}]
  /\ Return(c)
  /\ UNCHANGED <<clients, members, metaVars, rateVars, storeVars, dropVars, now, work>>

-----------------------------------------------------------------------------

Reader(c) ==
  \/ Connect(c) \/ ReaderEnds(c) \/ RecvText(c) \/ RecvBinary(c) \/ Store(c) \/ StoreFails(c)
  \/ RecvJoin(c) \/ Enter(c) \/ Own(c) \/ History(c) \/ RecvLeave(c) \/ Leave(c) \/ Disown(c)

Deliver(t) == Save(t) \/ Lookup(t) \/ Write(t) \/ RangeEnds(t) \/ Acknowledge(t)

Next ==
  \/ Tick \/ FindClient \/ Share
  \/ \E c \in Clients : Reader(c) \/ Disconnect(c)
  \/ \E t \in Threads : Deliver(t)

Spec == Init /\ [][Next]_vars

-----------------------------------------------------------------------------
(* Properties                                                              *)

Delivering(m) == \E t \in Threads : msg[t] = m /\ pc[t] \in {"save", "lookup", "range"}

\* A client that has joined a room, and that no write has failed for since,
\* has been sent every message of the room that is in the database and whose
\* broadcast is over: from the history if it was saved before, by the
\* broadcast if after, unless more messages of the room were saved than a
\* history holds.  It rests on handleJoinRoom entering the room before it
\* reads the history and the handlers saving a message before they look up
\* who is in the room.
JoinedMissNothing ==
  \A c \in Clients, r \in Rooms :
    /\ pc[c] = "idle" /\ c \in members[r] /\ c \notin dropping
    /\ Cardinality({m \in saved : m.room = r}) <= HistoryLimit
    => \A m \in {k \in db : k.room = r} : Delivering(m) \/ m \in inbox[c]

\* An upload goes out under metadata that its client sent after its previous
\* binary message: neither what an earlier upload has used nor what it has
\* passed over (the file was preferred to the media) is left for a later one.
PairedFresh == \A m \in files : m.after = m.binary

\* What a client has been sent, and what a sender has been told is sent, is
\* there to be fetched, whatever fails on the way.  An upload is in ./uploads,
\* where its URL says it is.  Any other message was saved, and the database
\* has a message under its ID: this one, until somebody sends another with
\* the same ID, which SaveMessage takes for the same message.
SharedIsKept ==
  \A m \in acked \cup UNION {inbox[c] : c \in Clients} :
    IF m.upload THEN m \in files
    ELSE m \in saved /\ \E k \in db : k.id = m.id

AcceptedIn(c, from, to) ==
  Cardinality({i \in DOMAIN accepted[c] : from <= accepted[c][i] /\ accepted[c][i] < to})

\* The window of checkRateLimit begins when the last has passed, so a span of
\* WindowSize sees at most two of them: no more than twice Requests messages
\* of a connection are handled in it, and Requests more for each disconnect
\* of it that was handled while it was still being read, which makes its
\* limiter anew.
RateBound ==
  \A c \in Clients, t \in 0..work.time :
    AcceptedIn(c, t, t + Window) <= (2 + drops[c]) * Requests

\* A message is refused only if Requests messages of the connection were
\* handled less than WindowSize ago: who keeps to the rate is never refused.
RefusedWithCause ==
  \A c \in Clients, t \in 0..work.time :
    t \in refused[c] =>
      Cardinality({i \in DOMAIN accepted[c] : accepted[c][i] <= t /\ t < accepted[c][i] + Window})
        >= Requests
=============================================================================
