------------------------- MODULE ChatMessagesProofs -------------------------
(***************************************************************************)
(* For any number of connections, rooms, messages, files and failed        *)
(* writes: uploads go out under fresh metadata, what is shared is kept,    *)
(* who joins a room misses none of its messages, and the rate limiter      *)
(* neither lets too many messages through nor refuses one without cause.   *)
(*                                                                         *)
(* None of these properties is inductive.  There are three strengthenings: *)
(*   Inv      what a handler has seen to by the time it is at a label      *)
(*            (Carried), which metadata waits for a binary message         *)
(*            (MetaFresh), that no message refers to a missing file        *)
(*            (Stored), and what the database has of the messages that     *)
(*            were saved (Held);                                           *)
(*   JoinInv  what a member of a room is promised (Promised), and where a  *)
(*            disconnect will find it (Enrolled);                          *)
(*   RateInv  what the window under way has to do with any span of its     *)
(*            length (Spent), and with what it has accepted (Used).        *)
(***************************************************************************)
EXTENDS ChatMessages, FiniteSetTheorems, TLAPS

-----------------------------------------------------------------------------
(* Uploads, and what is shared.                                            *)

\* The variables that are functions have their domains.
Shaped ==
  /\ DOMAIN pc = Threads /\ DOMAIN msg = Threads
  /\ DOMAIN fileMeta = Clients /\ DOMAIN mediaMeta = Clients
  /\ DOMAIN binaries = Clients /\ DOMAIN inbox = Clients

\* Metadata that waits came after the client's last binary message.
MetaFresh ==
  \A c \in Clients :
    /\ fileMeta[c] # None => fileMeta[c].after = binaries[c]
    /\ mediaMeta[c] # None => mediaMeta[c].after = binaries[c]

\* From the first of these labels on the file of an upload is written, and
\* from the second on another message has been saved.
Carried(t) ==
  /\ pc[t] = "store" => msg[t].after = msg[t].binary
  /\ pc[t] = "share" => ~msg[t].upload
  /\ pc[t] \in {"save", "lookup", "range", "ack"} /\ msg[t].upload => msg[t] \in files
  /\ pc[t] \in {"lookup", "range", "ack"} /\ ~msg[t].upload => msg[t] \in saved

Stored == \A m \in saved : m.upload => m \in files

\* What was shared was stored or saved, ...
SharedSaved ==
  \A m \in acked \cup UNION {inbox[c] : c \in Clients} :
    IF m.upload THEN m \in files ELSE m \in saved

\* ... and under the ID of what was saved there is a message still, though it
\* may be a later one.
Held == db \subseteq saved /\ \A m \in saved : \E k \in db : k.id = m.id

\* The inductive invariant.
Inv ==
  /\ Shaped
  /\ MetaFresh
  /\ \A t \in Threads : Carried(t)
  /\ Stored
  /\ PairedFresh
  /\ SharedSaved
  /\ Held

\* What a step of goroutine t leaves alone in the others.
Others(t) == \A u \in Threads \ {t} : pc'[u] = pc[u] /\ msg'[u] = msg[u]

\* Labels at which a handler has nothing in hand that it may yet share.
Quiet == {"idle", "gone", "enter", "own", "history", "leave", "disown"}

\* The variables of the invariant, other than those of the goroutines.
dataVars == <<fileMeta, mediaMeta, binaries, inbox, db, saved, files, acked>>

\* At the start there are no messages.
LEMMA InitInv == Init => Inv
  <1> SUFFICES ASSUME Init PROVE Inv OBVIOUS
  <1>1. Shaped BY DEF Init, Shaped
  <1>2. MetaFresh BY DEF Init, MetaFresh
  <1>3. ASSUME NEW t \in Threads PROVE Carried(t)
    BY DEF Init, Carried
  <1>4. Stored /\ PairedFresh /\ Held BY DEF Init, Stored, PairedFresh, Held
  <1>5. SharedSaved BY DEF Init, SharedSaved
  <1> QED BY <1>1, <1>2, <1>3, <1>4, <1>5 DEF Inv

\* What Goto, Return and Handle do to the goroutine, and leave alone.
LEMMA GotoDoes ==
  ASSUME Shaped, NEW t \in Threads, NEW label, Goto(t, label)
  PROVE  /\ DOMAIN pc' = Threads /\ DOMAIN msg' = Threads /\ Others(t)
         /\ pc'[t] = label /\ msg'[t] = msg[t]
  BY DEF Shaped, Goto, Others

LEMMA ReturnDoes ==
  ASSUME Shaped, NEW t \in Threads, Return(t)
  PROVE  /\ DOMAIN pc' = Threads /\ DOMAIN msg' = Threads /\ Others(t)
         /\ pc'[t] = "idle"
  BY DEF Shaped, Return, Others

LEMMA HandleDoes ==
  ASSUME Shaped, NEW c \in Clients, NEW m, NEW label, Handle(c, m, label)
  PROVE  /\ DOMAIN pc' = Threads /\ DOMAIN msg' = Threads /\ Others(c)
         /\ pc'[c] = label /\ (label # "idle" => msg'[c] = m)
  BY DEF Shaped, Handle, Others, Threads

\* What was saved or written to ./uploads stays so, and a step of t cannot
\* undo what the others have seen to.
LEMMA OthersCarry ==
  ASSUME Inv, NEW t \in Threads, Others(t), Carried(t)',
         saved \subseteq saved', files \subseteq files'
  PROVE  \A u \in Threads : Carried(u)'
  <1> SUFFICES ASSUME NEW u \in Threads PROVE Carried(u)' OBVIOUS
  <1>1. CASE u = t BY <1>1
  <1>2. CASE u # t
    <2>1. pc'[u] = pc[u] /\ msg'[u] = msg[u] BY <1>2 DEF Others
    <2>2. Carried(u) BY DEF Inv
    <2> QED BY <2>1, <2>2 DEF Carried
  <1> QED BY <1>1, <1>2

\* A step of t that leaves the data alone keeps the invariant, if t has seen
\* to what its new label asks for.
LEMMA ThreadKeeps ==
  ASSUME Inv, NEW t \in Threads, DOMAIN pc' = Threads, DOMAIN msg' = Threads,
         Others(t), Carried(t)', UNCHANGED dataVars
  PROVE  Inv'
  <1> USE DEF dataVars
  <1>1. \A u \in Threads : Carried(u)' BY OthersCarry
  <1>2. Shaped' BY DEF Inv, Shaped
  <1>3. MetaFresh' BY DEF Inv, MetaFresh
  <1>4. Stored' /\ PairedFresh' /\ Held' BY DEF Inv, Stored, PairedFresh, Held
  <1>5. SharedSaved' BY DEF Inv, SharedSaved
  <1> QED BY <1>1, <1>2, <1>3, <1>4, <1>5 DEF Inv

\* So does one that ends at a label that asks for nothing.
LEMMA QuietKeeps ==
  ASSUME Inv, NEW t \in Threads, DOMAIN pc' = Threads, DOMAIN msg' = Threads,
         Others(t), pc'[t] \in Quiet, UNCHANGED dataVars
  PROVE  Inv'
  <1>1. Carried(t)' BY DEF Carried, Quiet
  <1> QED BY <1>1, ThreadKeeps

\* And one that moves no goroutine and leaves the data alone.
LEMMA StutterKeeps ==
  ASSUME Inv, UNCHANGED <<pc, msg, dataVars>>
  PROVE  Inv'
  <1> USE DEF dataVars
  <1>1. ASSUME NEW t \in Threads PROVE Carried(t)' BY DEF Inv, Carried
  <1>2. Shaped' BY DEF Inv, Shaped
  <1>3. MetaFresh' BY DEF Inv, MetaFresh
  <1>4. Stored' /\ PairedFresh' /\ Held' BY DEF Inv, Stored, PairedFresh, Held
  <1>5. SharedSaved' BY DEF Inv, SharedSaved
  <1> QED BY <1>1, <1>2, <1>3, <1>4, <1>5 DEF Inv

\* A step that keeps metadata or takes it: the data but the metadata is left
\* alone.
LEMMA MetaKeeps ==
  ASSUME Inv, NEW t \in Threads, DOMAIN pc' = Threads, DOMAIN msg' = Threads,
         Others(t), Carried(t)', MetaFresh',
         DOMAIN fileMeta' = Clients, DOMAIN mediaMeta' = Clients, DOMAIN binaries' = Clients,
         UNCHANGED storeVars
  PROVE  Inv'
  <1> USE DEF storeVars
  <1>1. \A u \in Threads : Carried(u)' BY OthersCarry
  <1>2. Shaped' BY DEF Inv, Shaped
  <1>4. Stored' /\ PairedFresh' /\ Held' BY DEF Inv, Stored, PairedFresh, Held
  <1>5. SharedSaved' BY DEF Inv, SharedSaved
  <1> QED BY <1>1, <1>2, <1>4, <1>5 DEF Inv

\* A text message: metadata is kept with the number of binary messages so
\* far, and what goes on to be saved is not an upload.
LEMMA RecvTextKeeps ==
  ASSUME Inv, NEW c \in Clients, RecvText(c)
  PROVE  Inv'
  <1> USE DEF Threads
  <1>0. Shaped BY DEF Inv
  <1>1. PICK type, r, q, id :
          /\ KeepMeta(c, type, q)
          /\ \/ Handle(c, Message(c, r, id), "save")
             \/ Handle(c, None, "idle")
    BY DEF RecvText
  <1>2. /\ binaries' = binaries
        /\ \E m : /\ m.after = binaries[c]
                 /\ \/ fileMeta' = [fileMeta EXCEPT ![c] = m]
                    \/ fileMeta' = [fileMeta EXCEPT ![c] = @]
                 /\ \/ mediaMeta' = [mediaMeta EXCEPT ![c] = m]
                    \/ mediaMeta' = [mediaMeta EXCEPT ![c] = @]
    <2>1. PICK room \in MetaRooms(c, q), parsed \in BOOLEAN :
            /\ fileMeta' = [fileMeta EXCEPT ![c] = IF type = "file" /\ parsed
                              THEN [room |-> room, after |-> binaries[c]] ELSE @]
            /\ mediaMeta' = [mediaMeta EXCEPT ![c] = IF type = "media" /\ parsed
                              THEN [room |-> room, after |-> binaries[c]] ELSE @]
      BY <1>1, Zenon DEF KeepMeta
    <2>2. PICK m : m = [room |-> room, after |-> binaries[c]] OBVIOUS
    <2>3. m.after = binaries[c] BY <2>2
    <2> QED BY <1>1, <2>1, <2>2, <2>3 DEF KeepMeta
  <1>3. DOMAIN fileMeta' = Clients /\ DOMAIN mediaMeta' = Clients /\ DOMAIN binaries' = Clients
    BY <1>0, <1>2 DEF Shaped
  <1>4. MetaFresh' BY <1>0, <1>2 DEF Inv, MetaFresh, Shaped
  <1>5. UNCHANGED storeVars BY DEF RecvText
  <1>6. CASE Handle(c, Message(c, r, id), "save")
    <2>1. pc'[c] = "save" /\ msg'[c] = Message(c, r, id) BY <1>0, <1>6, HandleDoes
    <2>2. ~Message(c, r, id).upload BY DEF Message
    <2>3. Carried(c)' BY <2>1, <2>2 DEF Carried
    <2> QED BY <1>0, <1>3, <1>4, <1>5, <1>6, <2>3, HandleDoes, MetaKeeps
  <1>7. CASE Handle(c, None, "idle")
    <2>1. pc'[c] = "idle" BY <1>0, <1>7, HandleDoes
    <2>2. Carried(c)' BY <2>1 DEF Carried
    <2> QED BY <1>0, <1>3, <1>4, <1>5, <1>7, <2>2, HandleDoes, MetaKeeps
  <1> QED BY <1>1, <1>6, <1>7

\* A binary message: the metadata it takes is fresh, and none is left.
LEMMA RecvBinaryKeeps ==
  ASSUME Inv, NEW c \in Clients, RecvBinary(c)
  PROVE  Inv'
  <1> USE DEF Threads
  <1> DEFINE meta == IF fileMeta[c] # None THEN fileMeta[c] ELSE mediaMeta[c]
  <1>0. Shaped BY DEF Inv
  <1>1. /\ fileMeta' = [fileMeta EXCEPT ![c] = None]
        /\ mediaMeta' = [mediaMeta EXCEPT ![c] = None]
        /\ binaries' = [binaries EXCEPT ![c] = @ + 1]
        /\ UNCHANGED storeVars
    BY DEF RecvBinary, TakeMeta
  <1>2. \/ meta # None /\ Handle(c, Upload(c, meta), "store")
        \/ Handle(c, None, "idle")
    BY DEF RecvBinary
  <1>3. DOMAIN fileMeta' = Clients /\ DOMAIN mediaMeta' = Clients /\ DOMAIN binaries' = Clients
    BY <1>0, <1>1 DEF Shaped
  <1>4. MetaFresh' BY <1>0, <1>1 DEF Inv, MetaFresh, Shaped
  <1>5. CASE meta # None /\ Handle(c, Upload(c, meta), "store")
    <2>1. pc'[c] = "store" /\ msg'[c] = Upload(c, meta)
      BY <1>0, <1>5, HandleDoes
    <2>2. meta.after = binaries[c] BY <1>5 DEF Inv, MetaFresh
    <2> HIDE DEF meta
    <2>3. msg'[c].after = msg'[c].binary BY <2>1, <2>2 DEF Upload
    <2>4. Carried(c)' BY <2>1, <2>3 DEF Carried
    <2> QED BY <1>0, <1>1, <1>3, <1>4, <1>5, <2>4, HandleDoes, MetaKeeps
  <1>6. CASE Handle(c, None, "idle")
    <2>1. pc'[c] = "idle" BY <1>0, <1>6, HandleDoes
    <2>2. Carried(c)' BY <2>1 DEF Carried
    <2> QED BY <1>0, <1>1, <1>3, <1>4, <1>6, <2>2, HandleDoes, MetaKeeps
  <1> QED BY <1>2, <1>5, <1>6

\* saveUploadedFile: an upload whose file is written has fresh metadata.
LEMMA StoreKeeps ==
  ASSUME Inv, NEW c \in Clients, Store(c)
  PROVE  Inv'
  <1> USE DEF Threads
  <1>0. Shaped /\ Carried(c) BY DEF Inv
  <1>1. /\ pc[c] = "store" /\ Goto(c, "save")
        /\ files' = files \cup {msg[c]}
        /\ UNCHANGED <<fileMeta, mediaMeta, binaries, inbox, db, saved, acked>>
    BY DEF Store, metaVars
  <1>2. /\ DOMAIN pc' = Threads /\ DOMAIN msg' = Threads /\ Others(c)
        /\ pc'[c] = "save" /\ msg'[c] = msg[c]
    BY <1>0, <1>1, GotoDoes
  <1>3. Carried(c)' BY <1>1, <1>2 DEF Carried
  <1>4. \A u \in Threads : Carried(u)' BY <1>1, <1>2, <1>3, OthersCarry
  <1>5. Shaped' BY <1>0, <1>1, <1>2 DEF Shaped
  <1>6. MetaFresh' BY <1>1 DEF Inv, MetaFresh
  <1>7. Stored' /\ Held' BY <1>1 DEF Inv, Stored, Held
  <1>8. PairedFresh' BY <1>0, <1>1 DEF Inv, PairedFresh, Carried
  <1>9. SharedSaved' BY <1>1 DEF Inv, SharedSaved
  <1> QED BY <1>4, <1>5, <1>6, <1>7, <1>8, <1>9 DEF Inv

\* SaveMessage: an upload that is saved has its file; a message that cannot
\* be saved is given up, unless it is an upload.
LEMMA SaveKeeps ==
  ASSUME Inv, NEW t \in Threads, Save(t)
  PROVE  Inv'
  <1>0. Shaped /\ Carried(t) BY DEF Inv
  <1>1. /\ pc[t] = "save"
        /\ UNCHANGED <<fileMeta, mediaMeta, binaries, inbox, files, acked>>
    BY DEF Save, metaVars
  <1>2. \/ /\ db' = {k \in db : k.id # msg[t].id} \cup {msg[t]}
           /\ saved' = saved \cup {msg[t]} /\ Goto(t, "lookup")
        \/ UNCHANGED <<db, saved>> /\ msg[t].upload /\ Goto(t, "lookup")
        \/ UNCHANGED <<db, saved>> /\ Return(t)
    BY DEF Save, SaveMessage
  <1>3. CASE /\ db' = {k \in db : k.id # msg[t].id} \cup {msg[t]}
             /\ saved' = saved \cup {msg[t]} /\ Goto(t, "lookup")
    <2>1. /\ DOMAIN pc' = Threads /\ DOMAIN msg' = Threads /\ Others(t)
          /\ pc'[t] = "lookup" /\ msg'[t] = msg[t]
      BY <1>0, <1>3, GotoDoes
    <2>2. Carried(t)' BY <1>0, <1>1, <1>3, <2>1 DEF Carried
    <2>3. \A u \in Threads : Carried(u)' BY <1>1, <1>3, <2>1, <2>2, OthersCarry
    <2>4. Shaped' BY <1>0, <1>1, <2>1 DEF Shaped
    <2>5. MetaFresh' BY <1>1 DEF Inv, MetaFresh
    <2>6. Stored' BY <1>0, <1>1, <1>3 DEF Inv, Stored, Carried
    <2>7. PairedFresh' BY <1>1 DEF Inv, PairedFresh
    <2>8. SharedSaved' BY <1>1, <1>3 DEF Inv, SharedSaved
    <2>9. Held'
      <3>1. db' \subseteq saved' BY <1>3 DEF Inv, Held
      <3>2. ASSUME NEW m \in saved' PROVE \E k \in db' : k.id = m.id
        <4>1. CASE m.id = msg[t].id BY <1>3, <4>1
        <4>2. CASE m.id # msg[t].id
          <5>1. m \in saved BY <1>3, <4>2
          <5>2. PICK k \in db : k.id = m.id BY <5>1 DEF Inv, Held
          <5>3. k \in db' BY <1>3, <4>2, <5>2
          <5> QED BY <5>2, <5>3
        <4> QED BY <4>1, <4>2
      <3> QED BY <3>1, <3>2 DEF Held
    <2> QED BY <2>3, <2>4, <2>5, <2>6, <2>7, <2>8, <2>9 DEF Inv
  <1>4. CASE UNCHANGED <<db, saved>> /\ msg[t].upload /\ Goto(t, "lookup")
    <2>1. /\ DOMAIN pc' = Threads /\ DOMAIN msg' = Threads /\ Others(t)
          /\ pc'[t] = "lookup" /\ msg'[t] = msg[t]
      BY <1>0, <1>4, GotoDoes
    <2>2. Carried(t)' BY <1>0, <1>1, <1>4, <2>1 DEF Carried
    <2> QED BY <1>1, <1>4, <2>1, <2>2, ThreadKeeps DEF dataVars
  <1>5. CASE UNCHANGED <<db, saved>> /\ Return(t)
    <2>1. pc'[t] \in Quiet BY <1>0, <1>5, ReturnDoes DEF Quiet
    <2> QED BY <1>0, <1>1, <1>5, <2>1, ReturnDoes, QuietKeeps DEF dataVars
  <1> QED BY <1>2, <1>3, <1>4, <1>5

\* broadcastToRoom and the acknowledgment share what is kept.
LEMMA BroadcastKeeps ==
  ASSUME Inv, NEW t \in Threads, Lookup(t) \/ Write(t) \/ RangeEnds(t) \/ Acknowledge(t)
  PROVE  Inv'
  <1>0. Shaped /\ Carried(t) BY DEF Inv
  <1>1. CASE Lookup(t)
    <2>1. /\ DOMAIN pc' = Threads /\ DOMAIN msg' = Threads /\ Others(t)
          /\ pc'[t] \in {"range", "ack"} /\ msg'[t] = msg[t]
      BY <1>0, <1>1 DEF Lookup, Shaped, Others
    <2>2. pc[t] = "lookup" /\ UNCHANGED dataVars
      BY <1>1 DEF Lookup, dataVars, metaVars, storeVars
    <2>3. Carried(t)' BY <1>0, <2>1, <2>2 DEF Carried, dataVars
    <2> QED BY <2>1, <2>2, <2>3, ThreadKeeps
  <1>2. CASE Write(t)
    <2>1. /\ pc[t] = "range"
          /\ UNCHANGED <<pc, msg, fileMeta, mediaMeta, binaries, db, saved, files, acked>>
      BY <1>2 DEF Write, metaVars
    <2>2. CASE UNCHANGED inbox
      BY <2>1, <2>2, StutterKeeps DEF dataVars
    <2>3. CASE \E d : inbox' = [inbox EXCEPT ![d] = @ \cup {msg[t]}]
      <3>1. PICK d : inbox' = [inbox EXCEPT ![d] = @ \cup {msg[t]}] BY <2>3
      <3>2. DOMAIN inbox' = Clients /\ \A c \in Clients : inbox'[c] \subseteq inbox[c] \cup {msg[t]}
        BY <1>0, <3>1 DEF Shaped
      <3>3. IF msg[t].upload THEN msg[t] \in files ELSE msg[t] \in saved
        BY <1>0, <2>1 DEF Carried
      <3>4. SharedSaved' BY <2>1, <3>2, <3>3 DEF Inv, SharedSaved
      <3>5. Shaped' BY <1>0, <2>1, <3>2 DEF Shaped
      <3>6. ASSUME NEW u \in Threads PROVE Carried(u)' BY <2>1 DEF Inv, Carried
      <3>7. MetaFresh' BY <2>1 DEF Inv, MetaFresh
      <3>8. Stored' /\ PairedFresh' /\ Held' BY <2>1 DEF Inv, Stored, PairedFresh, Held
      <3> QED BY <3>4, <3>5, <3>6, <3>7, <3>8 DEF Inv
    <2>4. UNCHANGED inbox \/ \E d : inbox' = [inbox EXCEPT ![d] = @ \cup {msg[t]}]
      BY <1>2 DEF Write
    <2> QED BY <2>2, <2>3, <2>4
  <1>3. CASE RangeEnds(t)
    <2>1. /\ DOMAIN pc' = Threads /\ DOMAIN msg' = Threads /\ Others(t)
          /\ pc'[t] = "ack" /\ msg'[t] = msg[t]
      BY <1>0, <1>3, GotoDoes DEF RangeEnds
    <2>2. pc[t] = "range" /\ UNCHANGED dataVars
      BY <1>3 DEF RangeEnds, dataVars, metaVars, storeVars
    <2>3. Carried(t)' BY <1>0, <2>1, <2>2 DEF Carried, dataVars
    <2> QED BY <2>1, <2>2, <2>3, ThreadKeeps
  <1>4. CASE Acknowledge(t)
    <2>1. /\ pc[t] = "ack" /\ Return(t) /\ acked' \subseteq acked \cup {msg[t]}
          /\ UNCHANGED <<fileMeta, mediaMeta, binaries, inbox, db, saved, files>>
      BY <1>4 DEF Acknowledge, metaVars
    <2>2. /\ DOMAIN pc' = Threads /\ DOMAIN msg' = Threads /\ Others(t)
          /\ pc'[t] = "idle"
      BY <1>0, <2>1, ReturnDoes
    <2>3. IF msg[t].upload THEN msg[t] \in files ELSE msg[t] \in saved
      BY <1>0, <2>1 DEF Carried
    <2>4. SharedSaved' BY <2>1, <2>3 DEF Inv, SharedSaved
    <2>5. Carried(t)' BY <2>2 DEF Carried
    <2>6. \A u \in Threads : Carried(u)' BY <2>1, <2>2, <2>5, OthersCarry
    <2>7. Shaped' BY <1>0, <2>1, <2>2 DEF Shaped
    <2>8. MetaFresh' BY <2>1 DEF Inv, MetaFresh
    <2>9. Stored' /\ PairedFresh' /\ Held' BY <2>1 DEF Inv, Stored, PairedFresh, Held
    <2> QED BY <2>4, <2>6, <2>7, <2>8, <2>9 DEF Inv
  <1> QED BY <1>1, <1>2, <1>3, <1>4

\* The history of a join is taken from the database.
LEMMA HistoryKeeps ==
  ASSUME Inv, NEW c \in Clients, History(c)
  PROVE  Inv'
  <1> USE DEF Threads
  <1>0. Shaped BY DEF Inv
  <1>1. UNCHANGED <<fileMeta, mediaMeta, binaries, db, saved, files, acked>>
    BY DEF History, metaVars
  <1>2. Return(c) BY DEF History, JoinGoes, JoinNext
  <1>3. /\ DOMAIN pc' = Threads /\ DOMAIN msg' = Threads /\ Others(c)
        /\ pc'[c] = "idle"
    BY <1>0, <1>2, ReturnDoes
  <1>4. Carried(c)' BY <1>3 DEF Carried
  <1>5. \A u \in Threads : Carried(u)' BY <1>1, <1>3, <1>4, OthersCarry
  <1>6. PICK h \in SUBSET db :
          \/ inbox' = [inbox EXCEPT ![c] = @ \cup h]
          \/ UNCHANGED inbox
    BY DEF History, GetMessages
  <1>7. DOMAIN inbox' = Clients /\ \A d \in Clients : inbox'[d] \subseteq inbox[d] \cup db
    BY <1>0, <1>6 DEF Shaped
  <1>8. SharedSaved' BY <1>1, <1>7 DEF Inv, SharedSaved, Stored, Held
  <1>9. Shaped' BY <1>0, <1>1, <1>3, <1>7 DEF Shaped
  <1>10. MetaFresh' BY <1>1 DEF Inv, MetaFresh
  <1>11. Stored' /\ PairedFresh' /\ Held' BY <1>1 DEF Inv, Stored, PairedFresh, Held
  <1> QED BY <1>5, <1>8, <1>9, <1>10, <1>11 DEF Inv

\* The rest of a join and of a leave.
LEMMA JoinLeaveKeeps ==
  ASSUME Inv, NEW c \in Clients,
         RecvJoin(c) \/ Enter(c) \/ Own(c) \/ RecvLeave(c) \/ Leave(c) \/ Disown(c)
  PROVE  Inv'
  <1> USE DEF Threads
  <1>0. Shaped BY DEF Inv
  <1>1. UNCHANGED dataVars
    BY DEF RecvJoin, Enter, Own, RecvLeave, Leave, Disown, dataVars, metaVars, storeVars
  <1>2. \/ \E m, label : label \in Quiet /\ Handle(c, m, label)
        \/ \E label \in Quiet : Goto(c, label)
        \/ Return(c)
        \/ pc' = [pc EXCEPT ![c] = "own"] /\ UNCHANGED msg
    BY DEF RecvJoin, Enter, Own, RecvLeave, Leave, Disown, JoinGoes, JoinNext, Quiet
  <1>3. DOMAIN pc' = Threads /\ DOMAIN msg' = Threads /\ Others(c) /\ pc'[c] \in Quiet
    <2>1. CASE \E m, label : label \in Quiet /\ Handle(c, m, label)
      BY <1>0, <2>1, HandleDoes
    <2>2. CASE \E label \in Quiet : Goto(c, label) BY <1>0, <2>2, GotoDoes
    <2>3. CASE Return(c) BY <1>0, <2>3, ReturnDoes DEF Quiet
    <2>4. CASE pc' = [pc EXCEPT ![c] = "own"] /\ UNCHANGED msg
      BY <1>0, <2>4 DEF Shaped, Others, Quiet
    <2> QED BY <1>2, <2>1, <2>2, <2>3, <2>4
  <1> QED BY <1>1, <1>3, QuietKeeps

\* The goroutine of FileUploadHandler shares what is not an upload.
LEMMA UploaderKeeps ==
  ASSUME Inv, FindClient \/ Share
  PROVE  Inv'
  <1> USE DEF Threads
  <1>0. Shaped /\ Carried(Uploader) BY DEF Inv
  <1>1. UNCHANGED dataVars BY DEF FindClient, Share, dataVars, metaVars, storeVars
  <1>2. CASE FindClient
    <2>1. PICK r, id : \/ UNCHANGED <<pc, msg>>
                       \/ /\ pc' = [pc EXCEPT ![Uploader] = "share"]
                          /\ msg' = [msg EXCEPT ![Uploader] = Message(Uploader, r, id)]
      BY <1>2 DEF FindClient
    <2>2. CASE UNCHANGED <<pc, msg>> BY <1>1, <2>2, StutterKeeps
    <2>3. CASE /\ pc' = [pc EXCEPT ![Uploader] = "share"]
               /\ msg' = [msg EXCEPT ![Uploader] = Message(Uploader, r, id)]
      <3>1. /\ DOMAIN pc' = Threads /\ DOMAIN msg' = Threads /\ Others(Uploader)
            /\ pc'[Uploader] = "share" /\ msg'[Uploader] = Message(Uploader, r, id)
        BY <1>0, <2>3 DEF Shaped, Others
      <3>2. ~Message(Uploader, r, id).upload BY DEF Message
      <3>3. Carried(Uploader)' BY <3>1, <3>2 DEF Carried
      <3> QED BY <1>1, <3>1, <3>3, ThreadKeeps
    <2> QED BY <2>1, <2>2, <2>3
  <1>3. CASE Share
    <2>1. pc[Uploader] = "share" /\ (Goto(Uploader, "save") \/ Return(Uploader))
      BY <1>3 DEF Share
    <2>2. CASE Goto(Uploader, "save")
      <3>1. /\ DOMAIN pc' = Threads /\ DOMAIN msg' = Threads /\ Others(Uploader)
            /\ pc'[Uploader] = "save" /\ msg'[Uploader] = msg[Uploader]
        BY <1>0, <2>2, GotoDoes
      <3>2. Carried(Uploader)' BY <1>0, <2>1, <3>1 DEF Carried
      <3> QED BY <1>1, <3>1, <3>2, ThreadKeeps
    <2>3. CASE Return(Uploader)
      <3>1. pc'[Uploader] \in Quiet BY <1>0, <2>3, ReturnDoes DEF Quiet
      <3> QED BY <1>0, <1>1, <2>3, <3>1, ReturnDoes, QuietKeeps
    <2> QED BY <2>1, <2>2, <2>3
  <1> QED BY <1>2, <1>3

\* Every step keeps the invariant.
LEMMA NextKeeps == Inv /\ [Next]_vars => Inv'
  <1> USE DEF Threads
  <1> SUFFICES ASSUME Inv, [Next]_vars PROVE Inv' OBVIOUS
  <1>0. Shaped BY DEF Inv
  <1>1. CASE UNCHANGED vars
    BY <1>1, StutterKeeps DEF vars, threadVars, metaVars, storeVars, dataVars
  <1>2. CASE Tick
    BY <1>2, StutterKeeps DEF Tick, threadVars, metaVars, storeVars, dataVars
  <1>3. CASE FindClient \/ Share BY <1>3, UploaderKeeps
  <1>4. ASSUME NEW c \in Clients, Reader(c) PROVE Inv'
    <2>1. CASE Connect(c) \/ ReaderEnds(c)
      <3>1. UNCHANGED dataVars
        BY <2>1 DEF Connect, ReaderEnds, dataVars, metaVars, storeVars
      <3>2. UNCHANGED msg /\ \E label \in Quiet : pc' = [pc EXCEPT ![c] = label]
        BY <2>1 DEF Connect, ReaderEnds, Quiet
      <3>3. DOMAIN pc' = Threads /\ DOMAIN msg' = Threads /\ Others(c) /\ pc'[c] \in Quiet
        BY <1>0, <3>2 DEF Shaped, Others
      <3> QED BY <3>1, <3>3, QuietKeeps
    <2>2. CASE RecvText(c) BY <2>2, RecvTextKeeps
    <2>3. CASE RecvBinary(c) BY <2>3, RecvBinaryKeeps
    <2>4. CASE Store(c) BY <2>4, StoreKeeps
    <2>5. CASE StoreFails(c)
      <3>1. UNCHANGED dataVars BY <2>5 DEF StoreFails, dataVars, metaVars, storeVars
      <3>2. Return(c) BY <2>5 DEF StoreFails
      <3>3. pc'[c] \in Quiet BY <1>0, <3>2, ReturnDoes DEF Quiet
      <3> QED BY <1>0, <3>1, <3>2, <3>3, ReturnDoes, QuietKeeps
    <2>6. CASE History(c) BY <2>6, HistoryKeeps
    <2>7. CASE RecvJoin(c) \/ Enter(c) \/ Own(c) \/ RecvLeave(c) \/ Leave(c) \/ Disown(c)
      BY <2>7, JoinLeaveKeeps
    <2> QED BY <1>4, <2>1, <2>2, <2>3, <2>4, <2>5, <2>6, <2>7 DEF Reader
  <1>5. ASSUME NEW c \in Clients, Disconnect(c) PROVE Inv'
    BY <1>5, StutterKeeps DEF Disconnect, threadVars, metaVars, storeVars, dataVars
  <1>6. ASSUME NEW t \in Threads, Deliver(t) PROVE Inv'
    BY <1>6, SaveKeeps, BroadcastKeeps DEF Deliver
  <1> QED BY <1>1, <1>2, <1>3, <1>4, <1>5, <1>6 DEF Next

\* The strengthening holds of every behaviour.
LEMMA AlwaysInv == Spec => []Inv
  BY InitInv, NextKeeps, PTL DEF Spec

\* handleBinaryMessage and handleBinaryMediaMessage never store an upload
\* under metadata from before the client's previous binary message.
THEOREM UploadsPairedFresh == Spec => []PairedFresh
  <1>1. Inv => PairedFresh BY DEF Inv
  <1> QED BY <1>1, AlwaysInv, PTL

\* Whatever clients were sent, by broadcastToRoom or in a history, and
\* whatever a sender was told is sent, is in ./uploads if it is an upload; if
\* not, it was saved, and the database has it, or a later message that came
\* under the same ID, which SaveMessage puts in its place.
THEOREM SharedStaysKept == Spec => []SharedIsKept
  <1>1. Inv => SharedIsKept BY DEF Inv, SharedSaved, Held, SharedIsKept
  <1> QED BY <1>1, AlwaysInv, PTL

-----------------------------------------------------------------------------
(* Joins.  A member of a room that no write has failed for is promised the *)
(* messages of the room that are saved: it has one already, a broadcast    *)
(* will still reach it, or it is about to read the history.                *)

\* More messages were saved than a history holds.
Overfull(r) == Cardinality({m \in saved : m.room = r}) > HistoryLimit

\* The broadcast of m by t will reach c, if c stays in the room.
OnItsWay(t, c, m) ==
  /\ msg[t] = m
  /\ pc[t] = "lookup" \/ (pc[t] = "range" /\ c \in rest[t])

Joining(c, r) == pc[c] \in {"own", "history"} /\ msg[c].room = r

Promised(c, r, m) ==
  \/ m \in inbox[c] \/ c \in dropping \/ Joining(c, r) \/ Overfull(r)
  \/ \E t \in Threads : OnItsWay(t, c, m)

\* Of c and r: a member of r has it in client.Rooms, where a disconnect finds
\* it, but for the two steps of a join between which it has not.
Enrolled(c, r) ==
  /\ c \in members[r] => r \in clientRooms[c] \/ (pc[c] = "own" /\ msg[c].room = r)
  /\ pc[c] = "new" => c \notin members[r]
  /\ pc[c] = "disown" /\ msg[c].room = r => c \notin members[r]

JoinShaped ==
  /\ DOMAIN pc = Threads /\ DOMAIN msg = Threads /\ DOMAIN rest = Threads
  /\ DOMAIN inbox = Clients /\ DOMAIN clientRooms = Clients
  /\ DOMAIN members = Rooms
  /\ IsFiniteSet(saved) /\ db \subseteq saved

\* The inductive invariant of JoinedMissNothing.
JoinInv ==
  /\ JoinShaped
  /\ \A c \in Clients, r \in Rooms : Enrolled(c, r)
  /\ \A c \in Clients, r \in Rooms : \A m \in db :
       c \in members[r] /\ m.room = r => Promised(c, r, m)

\* What a step of goroutine t leaves alone in the others.
StepOf(t) ==
  /\ DOMAIN pc' = Threads /\ DOMAIN msg' = Threads /\ DOMAIN rest' = Threads
  /\ \A u \in Threads \ {t} : pc'[u] = pc[u] /\ msg'[u] = msg[u] /\ rest'[u] = rest[u]

\* A step of t that may write to clients and start disconnects, and leaves
\* the rooms, the database and client.Rooms alone.
Aside(t) ==
  /\ StepOf(t)
  /\ DOMAIN inbox' = Clients /\ \A c \in Clients : inbox[c] \subseteq inbox'[c]
  /\ dropping \subseteq dropping'
  /\ UNCHANGED <<members, clientRooms, db, saved>>

\* At the start nobody is in a room.
LEMMA InitJoin == Init => JoinInv
  <1> SUFFICES ASSUME Init PROVE JoinInv OBVIOUS
  <1>1. JoinShaped BY FS_EmptySet DEF Init, JoinShaped
  <1>2. ASSUME NEW c \in Clients, NEW r \in Rooms PROVE Enrolled(c, r)
    BY DEF Init, Enrolled, Threads
  <1>3. db = {} BY DEF Init
  <1> QED BY <1>1, <1>2, <1>3 DEF JoinInv

\* A write takes no disconnect back.
LEMMA WriteStarts ==
  ASSUME NEW d, WriteTo(d) \/ WriteFails(d) \/ UNCHANGED dropVars
  PROVE  dropping \subseteq dropping'
  BY DEF WriteTo, WriteFails, dropVars

\* Goto, Return and Handle move one goroutine.
LEMMA GotoSteps ==
  ASSUME JoinShaped, NEW t \in Threads, NEW label, Goto(t, label)
  PROVE  StepOf(t) /\ pc'[t] = label /\ msg'[t] = msg[t] /\ rest'[t] = rest[t]
  BY DEF JoinShaped, Goto, StepOf

LEMMA ReturnSteps ==
  ASSUME JoinShaped, NEW t \in Threads, Return(t)
  PROVE  StepOf(t) /\ pc'[t] = "idle"
  BY DEF JoinShaped, Return, StepOf

LEMMA HandleSteps ==
  ASSUME JoinShaped, NEW c \in Clients, NEW m, NEW label, Handle(c, m, label)
  PROVE  StepOf(c) /\ pc'[c] = label
  BY DEF JoinShaped, Handle, StepOf, Threads

\* A room stays overfull: what was saved counts, replaced or not.
LEMMA StaysOverfull ==
  ASSUME JoinShaped, IsFiniteSet(saved'), saved \subseteq saved', NEW r, Overfull(r)
  PROVE  Overfull(r)'
  <1> DEFINE old == {m \in saved : m.room = r}
             new == {m \in saved' : m.room = r}
  <1>1. old \subseteq new /\ new \subseteq saved' OBVIOUS
  <1>2. IsFiniteSet(new) BY <1>1, FS_Subset
  <1>3. IsFiniteSet(old) /\ Cardinality(old) <= Cardinality(new) BY <1>1, <1>2, FS_Subset
  <1>4. Cardinality(old) \in Nat /\ Cardinality(new) \in Nat BY <1>2, <1>3, FS_CardinalityType
  <1>5. Cardinality(old) > HistoryLimit BY DEF Overfull
  <1>6. Cardinality(new) > HistoryLimit BY <1>3, <1>4, <1>5, MessagesAssumption
  <1> QED BY <1>6 DEF Overfull

\* A goroutine that moves aside breaks no promise that did not rest on it.
LEMMA PromiseKept ==
  ASSUME JoinInv, NEW t \in Threads, StepOf(t),
         \A c \in Clients : inbox[c] \subseteq inbox'[c],
         IsFiniteSet(saved'), saved \subseteq saved',
         NEW c \in Clients, NEW r \in Rooms, NEW m,
         Promised(c, r, m), ~OnItsWay(t, c, m), ~(c = t /\ Joining(c, r)),
         c \in dropping => c \in dropping'
  PROVE  Promised(c, r, m)'
  <1>1. CASE m \in inbox[c] BY <1>1 DEF Promised
  <1>2. CASE c \in dropping BY <1>2 DEF Promised
  <1>3. CASE Joining(c, r)
    <2>1. c \in Threads \ {t} BY <1>3 DEF Threads
    <2>2. Joining(c, r)' BY <1>3, <2>1 DEF Joining, StepOf
    <2> QED BY <2>2 DEF Promised
  <1>4. CASE Overfull(r)
    <2>1. Overfull(r)' BY <1>4, StaysOverfull DEF JoinInv
    <2> QED BY <2>1 DEF Promised
  <1>5. ASSUME NEW u \in Threads, OnItsWay(u, c, m) PROVE Promised(c, r, m)'
    <2>1. u \in Threads \ {t} BY <1>5
    <2>2. OnItsWay(u, c, m)' BY <1>5, <2>1 DEF OnItsWay, StepOf
    <2> QED BY <2>2 DEF Promised
  <1> QED BY <1>1, <1>2, <1>3, <1>4, <1>5 DEF Promised

\* A step aside keeps the invariant if the promises that rest on its
\* goroutine are kept, and it stays enrolled.
LEMMA AsideKeeps ==
  ASSUME JoinInv, NEW t \in Threads, Aside(t),
         \A r \in Rooms : t \in Clients => Enrolled(t, r)',
         \A c \in Clients, r \in Rooms : \A m \in db :
           /\ c \in members[r] /\ m.room = r
           /\ OnItsWay(t, c, m) \/ (c = t /\ Joining(c, r))
           => Promised(c, r, m)'
  PROVE  JoinInv'
  <1>1. JoinShaped' BY DEF JoinInv, JoinShaped, Aside, StepOf
  <1>2. ASSUME NEW c \in Clients, NEW r \in Rooms PROVE Enrolled(c, r)'
    <2>1. CASE c = t BY <2>1
    <2>2. CASE c # t
      <3>1. Enrolled(c, r) BY DEF JoinInv
      <3>2. c \in Threads \ {t} BY <2>2 DEF Threads
      <3>3. pc'[c] = pc[c] /\ msg'[c] = msg[c] BY <3>2 DEF Aside, StepOf
      <3> QED BY <3>1, <3>3 DEF Enrolled, Aside
    <2> QED BY <2>1, <2>2
  <1>3. ASSUME NEW c \in Clients, NEW r \in Rooms, NEW m \in db',
               c \in members'[r], m.room = r
        PROVE  Promised(c, r, m)'
    <2>1. m \in db /\ c \in members[r] BY <1>3 DEF Aside
    <2>2. Promised(c, r, m) BY <1>3, <2>1 DEF JoinInv
    <2>3. CASE OnItsWay(t, c, m) \/ (c = t /\ Joining(c, r)) BY <1>3, <2>1, <2>3
    <2>4. CASE ~OnItsWay(t, c, m) /\ ~(c = t /\ Joining(c, r))
      <3>1. IsFiniteSet(saved') BY <1>1 DEF JoinShaped
      <3> QED BY <2>2, <2>4, <3>1, PromiseKept DEF Aside
    <2> QED BY <2>3, <2>4
  <1> QED BY <1>1, <1>2, <1>3 DEF JoinInv

\* It is so for the steps from and to labels that nothing rests on.
Plain == {"idle", "gone", "store", "share", "save", "ack", "enter", "leave"}

LEMMA PlainKeeps ==
  ASSUME JoinInv, NEW t \in Threads, Aside(t), pc[t] \in Plain, pc'[t] \in Plain
  PROVE  JoinInv'
  <1>1. ASSUME NEW r \in Rooms, t \in Clients PROVE Enrolled(t, r)'
    <2>1. Enrolled(t, r) BY <1>1 DEF JoinInv
    <2>2. pc[t] # "own" /\ pc'[t] # "own" /\ pc'[t] # "new" /\ pc'[t] # "disown" BY DEF Plain
    <2> QED BY <2>1, <2>2 DEF Enrolled, Aside
  <1>2. ASSUME NEW c \in Clients, NEW r \in Rooms, NEW m
        PROVE  ~OnItsWay(t, c, m) /\ ~(c = t /\ Joining(c, r))
    BY DEF OnItsWay, Joining, Plain
  <1> QED BY <1>1, <1>2, AsideKeeps

\* broadcastToRoom reaches everyone who is in the room when it ends: the
\* range is over when none of them is left.
LEMMA BroadcastKeepsPromises ==
  ASSUME JoinInv, NEW t \in Threads, Lookup(t) \/ Write(t) \/ RangeEnds(t)
  PROVE  JoinInv'
  <1>0. JoinShaped BY DEF JoinInv
  <1>1. CASE Lookup(t)
    <2>1. /\ pc[t] = "lookup"
          /\ pc' = [pc EXCEPT ![t] = IF msg[t].room \in Rooms THEN "range" ELSE "ack"]
          /\ rest' = [rest EXCEPT ![t] = Clients]
          /\ UNCHANGED <<msg, members, clientRooms, inbox, db, saved, dropping>>
      BY <1>1 DEF Lookup, roomVars, storeVars, dropVars
    <2>2. Aside(t) BY <1>0, <2>1 DEF Aside, StepOf, JoinShaped
    <2>3. pc'[t] \in {"range", "ack"} /\ msg'[t] = msg[t] /\ rest'[t] = Clients
      BY <1>0, <2>1 DEF JoinShaped
    <2>4. ASSUME NEW r \in Rooms, t \in Clients PROVE Enrolled(t, r)'
      <3>1. Enrolled(t, r) BY <2>4 DEF JoinInv
      <3> QED BY <2>1, <2>3, <3>1 DEF Enrolled
    <2>5. ASSUME NEW c \in Clients, NEW r \in Rooms, NEW m \in db, m.room = r,
                 OnItsWay(t, c, m) \/ (c = t /\ Joining(c, r))
          PROVE  Promised(c, r, m)'
      <3>1. msg[t] = m BY <2>1, <2>5 DEF OnItsWay, Joining
      <3>2. pc'[t] = "range" BY <1>0, <2>1, <2>5, <3>1 DEF JoinShaped
      <3>3. OnItsWay(t, c, m)' BY <2>3, <3>1, <3>2 DEF OnItsWay
      <3> QED BY <3>3 DEF Promised
    <2> QED BY <2>2, <2>4, <2>5, AsideKeeps
  <1>2. CASE Write(t)
    <2>1. PICK d \in rest[t] \cap members[msg[t].room] :
            /\ rest' = [rest EXCEPT ![t] = @ \ {d}]
            /\ \/ inbox' = [inbox EXCEPT ![d] = @ \cup {msg[t]}] /\ UNCHANGED dropVars
               \/ UNCHANGED inbox /\ WriteFails(d)
      BY <1>2, Zenon DEF Write
    <2>2. pc[t] = "range" /\ UNCHANGED <<pc, msg, members, clientRooms, db, saved>>
      BY <1>2 DEF Write, roomVars
    <2>3. dropping \subseteq dropping' BY <2>1, WriteStarts
    <2>4. DOMAIN inbox' = Clients /\ \A c \in Clients : inbox[c] \subseteq inbox'[c]
      BY <1>0, <2>1 DEF JoinShaped
    <2>5. Aside(t) BY <1>0, <2>1, <2>2, <2>3, <2>4 DEF Aside, StepOf, JoinShaped
    <2>6. rest'[t] = rest[t] \ {d} BY <1>0, <2>1 DEF JoinShaped
    <2>7. ASSUME NEW r \in Rooms, t \in Clients PROVE Enrolled(t, r)'
      <3>1. Enrolled(t, r) BY <2>7 DEF JoinInv
      <3> QED BY <2>2, <3>1 DEF Enrolled
    <2>8. ASSUME NEW c \in Clients, NEW r \in Rooms, NEW m \in db,
                 OnItsWay(t, c, m) \/ (c = t /\ Joining(c, r))
          PROVE  Promised(c, r, m)'
      <3>1. msg[t] = m /\ c \in rest[t] BY <2>2, <2>8 DEF OnItsWay, Joining
      <3>2. CASE c = d
        <4>1. CASE inbox' = [inbox EXCEPT ![d] = @ \cup {msg[t]}]
          <5>1. m \in inbox'[c] BY <1>0, <3>1, <3>2, <4>1 DEF JoinShaped
          <5> QED BY <5>1 DEF Promised
        <4>2. CASE WriteFails(d)
          <5>1. c \in dropping' BY <3>2, <4>2 DEF WriteFails
          <5> QED BY <5>1 DEF Promised
        <4> QED BY <2>1, <4>1, <4>2
      <3>3. CASE c # d
        <4>1. OnItsWay(t, c, m)' BY <2>2, <2>6, <3>1, <3>3 DEF OnItsWay
        <4> QED BY <4>1 DEF Promised
      <3> QED BY <3>2, <3>3
    <2> QED BY <2>5, <2>7, <2>8, AsideKeeps
  <1>3. CASE RangeEnds(t)
    <2>1. /\ pc[t] = "range" /\ rest[t] \cap members[msg[t].room] = {}
          /\ Goto(t, "ack")
          /\ UNCHANGED <<members, clientRooms, inbox, db, saved, dropping>>
      BY <1>3 DEF RangeEnds, roomVars, storeVars, dropVars
    <2>2. StepOf(t) /\ pc'[t] = "ack" BY <1>0, <2>1, GotoSteps
    <2>3. Aside(t) BY <1>0, <2>1, <2>2 DEF Aside, JoinShaped
    <2>4. ASSUME NEW r \in Rooms, t \in Clients PROVE Enrolled(t, r)'
      <3>1. Enrolled(t, r) BY <2>4 DEF JoinInv
      <3> QED BY <2>1, <2>2, <3>1 DEF Enrolled
    <2>5. ASSUME NEW c \in Clients, NEW r \in Rooms, NEW m \in db,
                 c \in members[r], m.room = r
          PROVE  ~OnItsWay(t, c, m) /\ ~(c = t /\ Joining(c, r))
      BY <2>1, <2>5 DEF OnItsWay, Joining
    <2> QED BY <2>3, <2>4, <2>5, AsideKeeps
  <1> QED BY <1>1, <1>2, <1>3

\* SaveMessage: who is in the room is promised the message, as the room is
\* looked up later.
LEMMA SaveKeepsPromises ==
  ASSUME JoinInv, NEW t \in Threads, Save(t)
  PROVE  JoinInv'
  <1>0. JoinShaped BY DEF JoinInv
  <1>1. pc[t] = "save" /\ UNCHANGED <<members, clientRooms, inbox>>
    BY DEF Save, roomVars
  <1>2. \/ /\ db' = {k \in db : k.id # msg[t].id} \cup {msg[t]}
           /\ saved' = saved \cup {msg[t]}
           /\ Goto(t, "lookup") /\ UNCHANGED dropVars
        \/ UNCHANGED <<db, saved>> /\ Goto(t, "lookup") /\ UNCHANGED dropVars
        \/ UNCHANGED <<db, saved>> /\ Return(t) /\ WriteTo(Client(t))
    BY DEF Save, SaveMessage
  <1>3. dropping \subseteq dropping' BY <1>2, WriteStarts
  <1>4. StepOf(t) /\ pc'[t] \in {"idle", "lookup"} BY <1>0, <1>2, GotoSteps, ReturnSteps
  <1>5. \/ db' = db /\ saved' = saved
        \/ /\ db' \subseteq db \cup {msg[t]} /\ saved' = saved \cup {msg[t]}
           /\ pc'[t] = "lookup" /\ msg'[t] = msg[t]
    BY <1>0, <1>2, GotoSteps
  <1>6. IsFiniteSet(saved') /\ saved \subseteq saved' /\ db' \subseteq saved'
    BY <1>0, <1>5, FS_AddElement DEF JoinShaped
  <1>7. JoinShaped' BY <1>0, <1>1, <1>4, <1>6 DEF JoinShaped, StepOf
  <1>8. ASSUME NEW c \in Clients, NEW r \in Rooms PROVE Enrolled(c, r)'
    <2>1. Enrolled(c, r) BY DEF JoinInv
    <2>2. CASE c = t BY <1>1, <1>4, <2>1, <2>2 DEF Enrolled
    <2>3. CASE c # t
      <3>1. c \in Threads \ {t} BY <2>3 DEF Threads
      <3>2. pc'[c] = pc[c] /\ msg'[c] = msg[c] BY <1>4, <3>1 DEF StepOf
      <3> QED BY <1>1, <2>1, <3>2 DEF Enrolled
    <2> QED BY <2>2, <2>3
  <1>9. ASSUME NEW c \in Clients, NEW r \in Rooms, NEW m \in db',
               c \in members'[r], m.room = r
        PROVE  Promised(c, r, m)'
    <2>1. CASE m \in db
      <3>1. Promised(c, r, m) BY <1>1, <1>9, <2>1 DEF JoinInv
      <3>2. ~OnItsWay(t, c, m) /\ ~(c = t /\ Joining(c, r))
        BY <1>1 DEF OnItsWay, Joining
      <3> QED BY <1>1, <1>3, <1>4, <1>6, <3>1, <3>2, PromiseKept
    <2>2. CASE m \notin db
      <3>1. OnItsWay(t, c, m)' BY <1>5, <1>9, <2>2 DEF OnItsWay
      <3> QED BY <3>1 DEF Promised
    <2> QED BY <2>1, <2>2
  <1> QED BY <1>7, <1>8, <1>9 DEF JoinInv

\* A history that leaves nothing out, for what GetMessages may return.
LEMMA HistoryIsAll ==
  ASSUME JoinShaped, NEW r, ~Overfull(r), NEW h \in GetMessages(r)
  PROVE  h = {m \in db : m.room = r}
  <1> DEFINE ms == {m \in db : m.room = r}
             all == {m \in saved : m.room = r}
  <1>1. h \in SUBSET ms /\ (h = ms \/ Cardinality(h) = HistoryLimit) BY DEF GetMessages
  <1>2. IsFiniteSet(all) /\ ms \in SUBSET all BY FS_Subset DEF JoinShaped
  <1>3. /\ IsFiniteSet(ms) /\ Cardinality(ms) <= Cardinality(all)
        /\ IsFiniteSet(h) /\ Cardinality(h) <= Cardinality(ms)
        /\ Cardinality(ms) = Cardinality(h) => ms = h
    <2> HIDE DEF ms, all
    <2>1. IsFiniteSet(ms) /\ Cardinality(ms) <= Cardinality(all) BY <1>2, FS_Subset
    <2> QED BY <1>1, <2>1, FS_Subset
  <1>4. Cardinality(h) \in Nat /\ Cardinality(ms) \in Nat /\ Cardinality(all) \in Nat
    <2> HIDE DEF ms, all
    <2> QED BY <1>2, <1>3, FS_CardinalityType
  <1>5. ~(Cardinality(all) > HistoryLimit) BY DEF Overfull
  <1> HIDE DEF ms, all
  <1>6. h = ms BY <1>1, <1>3, <1>4, <1>5, MessagesAssumption
  <1> QED BY <1>6 DEF ms

\* The steps of a join: the room is entered before the history is read.
LEMMA JoinKeepsPromises ==
  ASSUME JoinInv, NEW c \in Clients, Enter(c) \/ Own(c) \/ History(c)
  PROVE  JoinInv'
  <1>0. JoinShaped /\ c \in Threads BY DEF JoinInv, Threads
  <1>1. CASE Enter(c)
    <2> DEFINE room == msg[c].room
    <2>1. /\ pc[c] = "enter"
          /\ members' = [members EXCEPT ![room] = @ \cup {c}]
          /\ pc' = [pc EXCEPT ![c] = "own"]
          /\ UNCHANGED <<msg, clientRooms, inbox, db, saved, dropping>>
      BY <1>1 DEF Enter, JoinNext, storeVars, dropVars
    <2>2. PICK ts \in SUBSET {t \in Threads : pc[t] = "range" /\ msg[t].room = room} :
            rest' = [t \in Threads |-> IF t \in ts THEN rest[t] \ {c} ELSE rest[t]]
      BY <1>1 DEF Enter
    <2>3. JoinShaped' BY <1>0, <2>1, <2>2 DEF JoinShaped
    <2>4. pc'[c] = "own" /\ \A u \in Threads \ {c} : pc'[u] = pc[u]
      BY <1>0, <2>1 DEF JoinShaped
    <2>5. \A r \in Rooms : members'[r] = IF r = room THEN members[r] \cup {c} ELSE members[r]
      BY <1>0, <2>1 DEF JoinShaped
    <2>6. ASSUME NEW d \in Clients, NEW r \in Rooms PROVE Enrolled(d, r)'
      <3>1. Enrolled(d, r) BY DEF JoinInv
      <3>2. CASE d = c BY <2>1, <2>4, <2>5, <3>1, <3>2 DEF Enrolled
      <3>3. CASE d # c
        <4>1. pc'[d] = pc[d] BY <2>4, <3>3 DEF Threads
        <4> QED BY <2>1, <2>5, <3>1, <3>3, <4>1 DEF Enrolled
      <3> QED BY <3>2, <3>3
    <2>7. ASSUME NEW d \in Clients, NEW r \in Rooms, NEW m \in db',
                 d \in members'[r], m.room = r
          PROVE  Promised(d, r, m)'
      <3>1. CASE d = c /\ r = room
        <4>1. Joining(d, r)' BY <2>1, <2>4, <3>1 DEF Joining
        <4> QED BY <4>1 DEF Promised
      <3>2. CASE d # c \/ r # room
        <4>1. Promised(d, r, m) BY <2>1, <2>5, <2>7, <3>2 DEF JoinInv
        <4>2. CASE m \in inbox[d] \/ d \in dropping BY <2>1, <4>2 DEF Promised
        <4>3. CASE Joining(d, r)
          <5>1. d # c BY <2>1, <4>3 DEF Joining
          <5>2. Joining(d, r)' BY <2>1, <2>4, <4>3, <5>1 DEF Joining, Threads
          <5> QED BY <5>2 DEF Promised
        <4>4. CASE Overfull(r)
          <5>1. Overfull(r)' BY <2>1, <4>4 DEF Overfull
          <5> QED BY <5>1 DEF Promised
        <4>5. ASSUME NEW t \in Threads, OnItsWay(t, d, m) PROVE Promised(d, r, m)'
          <5>1. t # c BY <2>1, <4>5 DEF OnItsWay
          <5>2. pc'[t] = pc[t] /\ msg'[t] = m /\ msg[t] = m BY <2>1, <2>4, <4>5, <5>1 DEF OnItsWay
          <5>3. pc[t] = "range" => d \in rest'[t]
            BY <2>2, <2>7, <3>2, <4>5, <5>2 DEF OnItsWay
          <5>4. OnItsWay(t, d, m)' BY <4>5, <5>2, <5>3 DEF OnItsWay
          <5> QED BY <5>4 DEF Promised
        <4> QED BY <4>1, <4>2, <4>3, <4>4, <4>5 DEF Promised
      <3> QED BY <3>1, <3>2
    <2> QED BY <2>3, <2>6, <2>7 DEF JoinInv
  <1>2. CASE Own(c)
    <2>1. /\ pc[c] = "own" /\ Goto(c, "history")
          /\ clientRooms' = [clientRooms EXCEPT ![c] = @ \cup {msg[c].room}]
          /\ UNCHANGED <<members, inbox, db, saved, dropping>>
      BY <1>2 DEF Own, JoinGoes, JoinNext, storeVars, dropVars
    <2>2. StepOf(c) /\ pc'[c] = "history" /\ msg'[c] = msg[c] BY <1>0, <2>1, GotoSteps
    <2>3. JoinShaped' BY <1>0, <2>1, <2>2 DEF JoinShaped, StepOf
    <2>4. \A d \in Clients : clientRooms'[d] =
            IF d = c THEN clientRooms[d] \cup {msg[c].room} ELSE clientRooms[d]
      BY <1>0, <2>1 DEF JoinShaped
    <2>5. ASSUME NEW d \in Clients, NEW r \in Rooms PROVE Enrolled(d, r)'
      <3>1. Enrolled(d, r) BY DEF JoinInv
      <3>2. CASE d = c BY <2>1, <2>2, <2>4, <3>1, <3>2 DEF Enrolled
      <3>3. CASE d # c
        <4>1. pc'[d] = pc[d] /\ msg'[d] = msg[d] BY <2>2, <3>3 DEF Threads, StepOf
        <4> QED BY <2>1, <2>4, <3>1, <3>3, <4>1 DEF Enrolled
      <3> QED BY <3>2, <3>3
    <2>6. ASSUME NEW d \in Clients, NEW r \in Rooms, NEW m \in db',
                 d \in members'[r], m.room = r
          PROVE  Promised(d, r, m)'
      <3>1. Promised(d, r, m) /\ IsFiniteSet(saved') BY <1>0, <2>1, <2>6 DEF JoinInv, JoinShaped
      <3>2. ~OnItsWay(c, d, m) BY <2>1 DEF OnItsWay
      <3>3. CASE d = c /\ Joining(d, r)
        <4>1. Joining(d, r)' BY <2>2, <3>3 DEF Joining
        <4> QED BY <4>1 DEF Promised
      <3>4. CASE ~(d = c /\ Joining(d, r))
        BY <1>0, <2>1, <2>2, <3>1, <3>2, <3>4, PromiseKept
      <3> QED BY <3>3, <3>4
    <2> QED BY <2>3, <2>5, <2>6 DEF JoinInv
  <1>3. CASE History(c)
    <2> DEFINE room == msg[c].room
    <2>1. pc[c] = "history" /\ Return(c) /\ UNCHANGED <<members, clientRooms, db, saved>>
      BY <1>3 DEF History, JoinGoes, JoinNext, roomVars
    <2>2. PICK h \in GetMessages(room) :
            \/ inbox' = [inbox EXCEPT ![c] = @ \cup h] /\ WriteTo(c)
            \/ UNCHANGED inbox /\ WriteFails(c)
      BY <1>3, Zenon DEF History
    <2>3. dropping \subseteq dropping' BY <2>2, WriteStarts
    <2>4. StepOf(c) /\ pc'[c] = "idle" BY <1>0, <2>1, ReturnSteps
    <2>5. DOMAIN inbox' = Clients /\ \A d \in Clients : inbox[d] \subseteq inbox'[d]
      BY <1>0, <2>2 DEF JoinShaped
    <2>6. Aside(c) BY <2>1, <2>3, <2>4, <2>5 DEF Aside
    <2>7. ASSUME NEW r \in Rooms PROVE Enrolled(c, r)'
      <3>1. Enrolled(c, r) BY DEF JoinInv
      <3> QED BY <2>1, <2>4, <3>1 DEF Enrolled
    <2>8. ASSUME NEW d \in Clients, NEW r \in Rooms, NEW m \in db, m.room = r,
                 OnItsWay(c, d, m) \/ (d = c /\ Joining(d, r))
          PROVE  Promised(d, r, m)'
      <3>1. d = c /\ r = room BY <2>1, <2>8 DEF OnItsWay, Joining
      <3>2. CASE Overfull(r)
        <4>1. Overfull(r)' BY <2>1, <3>2 DEF Overfull
        <4> QED BY <4>1 DEF Promised
      <3>3. CASE ~Overfull(r)
        <4>1. m \in h BY <1>0, <2>8, <3>1, <3>3, HistoryIsAll
        <4>2. CASE inbox' = [inbox EXCEPT ![c] = @ \cup h]
          <5>1. m \in inbox'[d] BY <1>0, <3>1, <4>1, <4>2 DEF JoinShaped
          <5> QED BY <5>1 DEF Promised
        <4>3. CASE WriteFails(c)
          <5>1. d \in dropping' BY <3>1, <4>3 DEF WriteFails
          <5> QED BY <5>1 DEF Promised
        <4> QED BY <2>2, <4>2, <4>3
      <3> QED BY <3>2, <3>3
    <2> QED BY <1>0, <2>6, <2>7, <2>8, AsideKeeps
  <1> QED BY <1>1, <1>2, <1>3

\* The steps of a leave: client.Rooms is changed after the room, as a
\* disconnect goes by client.Rooms.
LEMMA LeaveKeepsPromises ==
  ASSUME JoinInv, NEW c \in Clients, Leave(c) \/ Disown(c) \/ Connect(c)
  PROVE  JoinInv'
  <1>0. JoinShaped /\ c \in Threads BY DEF JoinInv, Threads
  <1>1. UNCHANGED <<inbox, db, saved, dropping>>
    BY DEF Leave, Disown, Connect, storeVars, dropVars
  <1>2. /\ StepOf(c) /\ pc[c] \in {"leave", "disown", "new"}
        /\ pc'[c] = "disown" \/ pc'[c] = "idle"
        /\ pc'[c] = "disown" => pc[c] = "leave" /\ msg'[c] = msg[c]
    <2>1. CASE Leave(c)
      <3>1. pc[c] = "leave" /\ Goto(c, "disown") BY <2>1 DEF Leave
      <3> QED BY <1>0, <3>1, GotoSteps
    <2>2. CASE Disown(c)
      <3>1. pc[c] = "disown" /\ Return(c) BY <2>2 DEF Disown
      <3> QED BY <1>0, <3>1, ReturnSteps
    <2>3. CASE Connect(c) BY <1>0, <2>3 DEF Connect, JoinShaped, StepOf
    <2> QED BY <2>1, <2>2, <2>3
  <1>3. /\ DOMAIN members' = Rooms /\ \A r \in Rooms : members'[r] \subseteq members[r]
        /\ pc[c] = "leave" => \A r \in Rooms : msg[c].room = r => c \notin members'[r]
    BY <1>0 DEF Leave, Disown, Connect, JoinShaped
  <1>4. /\ DOMAIN clientRooms' = Clients
        /\ \A d \in Clients \ {c} : clientRooms'[d] = clientRooms[d]
    BY <1>0 DEF Leave, Disown, Connect, JoinShaped
  <1>5. /\ pc[c] = "leave" => clientRooms' = clientRooms
        /\ pc[c] = "disown" => clientRooms'[c] = clientRooms[c] \ {msg[c].room}
    BY <1>0 DEF Leave, Disown, Connect, JoinShaped
  <1>6. JoinShaped' BY <1>0, <1>1, <1>2, <1>3, <1>4 DEF JoinShaped, StepOf
  <1>7. ASSUME NEW d \in Clients, NEW r \in Rooms PROVE Enrolled(d, r)'
    <2>1. Enrolled(d, r) BY DEF JoinInv
    <2>2. CASE d = c
      <3>1. c \in members'[r] => r \in clientRooms'[c]
        BY <1>2, <1>3, <1>5, <2>1, <2>2 DEF Enrolled
      <3>2. pc'[c] = "disown" /\ msg'[c].room = r => c \notin members'[r] BY <1>2, <1>3
      <3> QED BY <1>2, <2>2, <3>1, <3>2 DEF Enrolled
    <2>3. CASE d # c
      <3>1. pc'[d] = pc[d] /\ msg'[d] = msg[d] BY <1>2, <2>3 DEF Threads, StepOf
      <3>2. clientRooms'[d] = clientRooms[d] BY <1>4, <2>3
      <3> QED BY <1>3, <2>1, <3>1, <3>2 DEF Enrolled
    <2> QED BY <2>2, <2>3
  <1>8. ASSUME NEW d \in Clients, NEW r \in Rooms, NEW m \in db',
               d \in members'[r], m.room = r
        PROVE  Promised(d, r, m)'
    <2>1. Promised(d, r, m) /\ IsFiniteSet(saved')
      BY <1>0, <1>1, <1>3, <1>8 DEF JoinInv, JoinShaped
    <2>2. ~OnItsWay(c, d, m) /\ ~(d = c /\ Joining(d, r)) BY <1>2 DEF OnItsWay, Joining
    <2> QED BY <1>0, <1>1, <1>2, <2>1, <2>2, PromiseKept
  <1> QED BY <1>6, <1>7, <1>8 DEF JoinInv

\* handleClientDisconnect: who was dropped leaves every room that it is in
\* for longer than the first steps of a join.
LEMMA DisconnectKeepsPromises ==
  ASSUME JoinInv, NEW c \in Clients, Disconnect(c)
  PROVE  JoinInv'
  <1>0. JoinShaped BY DEF JoinInv
  <1>1. /\ dropping' = dropping \ {c}
        /\ members' = [r \in Rooms |-> IF r \in clientRooms[c] THEN members[r] \ {c} ELSE members[r]]
        /\ UNCHANGED <<pc, msg, rest, clientRooms, inbox, db, saved>>
    BY DEF Disconnect, threadVars, storeVars
  <1>2. JoinShaped' BY <1>0, <1>1 DEF JoinShaped
  <1>3. ASSUME NEW d \in Clients, NEW r \in Rooms PROVE Enrolled(d, r)'
    <2>1. Enrolled(d, r) BY DEF JoinInv
    <2>2. members'[r] \subseteq members[r] BY <1>1
    <2> QED BY <1>1, <2>1, <2>2 DEF Enrolled
  <1>4. ASSUME NEW d \in Clients, NEW r \in Rooms, NEW m \in db',
               d \in members'[r], m.room = r
        PROVE  Promised(d, r, m)'
    <2>1. d \in members[r] BY <1>1, <1>4
    <2>2. CASE d = c
      <3>1. r \notin clientRooms[c] BY <1>1, <1>4, <2>2
      <3>2. pc[d] = "own" /\ msg[d].room = r BY <2>1, <2>2, <3>1 DEF JoinInv, Enrolled
      <3>3. Joining(d, r)' BY <1>1, <3>2 DEF Joining
      <3> QED BY <3>3 DEF Promised
    <2>3. CASE d # c
      <3>1. Promised(d, r, m) BY <1>1, <1>4, <2>1 DEF JoinInv
      <3> QED BY <1>1, <2>3, <3>1 DEF Promised, Joining, Overfull, OnItsWay
    <2> QED BY <2>2, <2>3
  <1> QED BY <1>2, <1>3, <1>4 DEF JoinInv

\* The steps that no promise rests on.
LEMMA RestKeepsPromises ==
  ASSUME JoinInv, NEW t \in Threads,
         \/ /\ t \in Clients
            /\ \/ ReaderEnds(t) \/ RecvText(t) \/ RecvBinary(t) \/ Store(t)
               \/ StoreFails(t) \/ RecvJoin(t) \/ RecvLeave(t)
         \/ t = Uploader /\ (FindClient \/ Share)
         \/ Acknowledge(t)
  PROVE  JoinInv'
  <1>0. JoinShaped BY DEF JoinInv
  <1> DEFINE Calm == /\ pc[t] \in Plain /\ pc'[t] \in Plain /\ StepOf(t)
                     /\ dropping \subseteq dropping'
                     /\ UNCHANGED <<members, clientRooms, inbox, db, saved>>
  <1>1. ASSUME t \in Clients, RecvText(t) PROVE Calm
    <2>1. PICK type, r, id :
            /\ Recv(t, type)
            /\ \/ Handle(t, Message(t, r, id), "save") /\ UNCHANGED dropVars
               \/ Handle(t, None, "idle") /\ WriteTo(t)
      BY <1>1 DEF RecvText
    <2>2. StepOf(t) /\ pc'[t] \in Plain BY <1>0, <1>1, <2>1, HandleSteps DEF Plain
    <2>3. pc[t] \in Plain BY <2>1 DEF Recv, Plain
    <2>4. dropping \subseteq dropping' BY <2>1, WriteStarts
    <2> QED BY <1>1, <2>2, <2>3, <2>4 DEF RecvText, roomVars, storeVars
  <1>2. ASSUME t \in Clients, RecvBinary(t) PROVE Calm
    <2>1. /\ Recv(t, "binary")
          /\ \/ Handle(t, None, "idle") /\ WriteTo(t)
             \/ \E m : Handle(t, m, "store") /\ UNCHANGED dropVars
      BY <1>2, Zenon DEF RecvBinary
    <2>2. StepOf(t) /\ pc'[t] \in Plain BY <1>0, <1>2, <2>1, HandleSteps DEF Plain
    <2>3. pc[t] \in Plain BY <2>1 DEF Recv, Plain
    <2>4. dropping \subseteq dropping' BY <2>1, WriteStarts
    <2> QED BY <1>2, <2>2, <2>3, <2>4 DEF RecvBinary, roomVars, storeVars
  <1>3. ASSUME t \in Clients, RecvJoin(t) \/ RecvLeave(t) PROVE Calm
    <2>1. \E kind : Recv(t, kind) BY <1>3 DEF RecvJoin, RecvLeave
    <2>2. \/ Handle(t, None, "idle") /\ WriteTo(t)
          \/ \E m : \E label \in {"enter", "leave"} : Handle(t, m, label) /\ UNCHANGED dropVars
      BY <1>3 DEF RecvJoin, RecvLeave, JoinNext
    <2>3. StepOf(t) /\ pc'[t] \in Plain BY <1>0, <1>3, <2>2, HandleSteps DEF Plain
    <2>4. pc[t] \in Plain BY <2>1 DEF Recv, Plain
    <2>5. dropping \subseteq dropping' BY <2>2, WriteStarts
    <2> QED BY <1>3, <2>3, <2>4, <2>5 DEF RecvJoin, RecvLeave, roomVars, storeVars
  <1>4. ASSUME t \in Clients, Store(t) \/ StoreFails(t) PROVE Calm
    <2>1. /\ pc[t] = "store"
          /\ \/ Goto(t, "save") /\ UNCHANGED dropVars
             \/ Return(t) /\ WriteTo(t)
      BY <1>4 DEF Store, StoreFails
    <2>2. StepOf(t) /\ pc'[t] \in Plain BY <1>0, <2>1, GotoSteps, ReturnSteps DEF Plain
    <2>3. dropping \subseteq dropping' BY <2>1, WriteStarts
    <2> QED BY <1>4, <2>1, <2>2, <2>3 DEF Store, StoreFails, Plain, roomVars, storeVars
  <1>5. ASSUME t \in Clients, ReaderEnds(t) PROVE Calm
    BY <1>0, <1>5 DEF ReaderEnds, StepOf, JoinShaped, Plain, roomVars, storeVars
  <1>6. ASSUME t = Uploader, FindClient PROVE Calm
    <2>1. /\ pc[t] = "idle" /\ UNCHANGED <<rest, members, clientRooms, inbox, db, saved, dropping>>
          /\ \/ UNCHANGED <<pc, msg>>
             \/ /\ pc' = [pc EXCEPT ![t] = "share"]
                /\ \E m : msg' = [msg EXCEPT ![t] = m]
      BY <1>6 DEF FindClient, roomVars, storeVars, dropVars
    <2> QED BY <1>0, <2>1 DEF StepOf, JoinShaped, Plain
  <1>7. ASSUME t = Uploader, Share PROVE Calm
    <2>1. /\ pc[t] = "share"
          /\ \/ Goto(t, "save") /\ UNCHANGED dropVars
             \/ Return(t) /\ WriteTo(target)
      BY <1>7 DEF Share
    <2>2. StepOf(t) /\ pc'[t] \in Plain BY <1>0, <2>1, GotoSteps, ReturnSteps DEF Plain
    <2>3. dropping \subseteq dropping' BY <2>1, WriteStarts
    <2> QED BY <1>7, <2>1, <2>2, <2>3 DEF Share, Plain, roomVars, storeVars
  <1>8. ASSUME Acknowledge(t) PROVE Calm
    <2>1. /\ pc[t] = "ack" /\ Return(t)
          /\ UNCHANGED dropVars \/ WriteFails(Client(t))
      BY <1>8 DEF Acknowledge
    <2>2. StepOf(t) /\ pc'[t] \in Plain BY <1>0, <2>1, ReturnSteps DEF Plain
    <2>3. dropping \subseteq dropping' BY <2>1, WriteStarts
    <2> QED BY <1>8, <2>1, <2>2, <2>3 DEF Acknowledge, Plain, roomVars
  <1>9. Calm BY <1>1, <1>2, <1>3, <1>4, <1>5, <1>6, <1>7, <1>8
  <1>10. Aside(t) BY <1>0, <1>9 DEF Aside, JoinShaped
  <1> QED BY <1>9, <1>10, PlainKeeps

\* Every step keeps the promises.
LEMMA NextKeepsPromises == JoinInv /\ [Next]_vars => JoinInv'
  <1> SUFFICES ASSUME JoinInv, [Next]_vars PROVE JoinInv' OBVIOUS
  <1>1. CASE UNCHANGED <<pc, msg, rest, members, clientRooms, inbox, db, saved, dropping>>
    <2>1. JoinShaped' BY <1>1 DEF JoinInv, JoinShaped
    <2>2. ASSUME NEW c \in Clients, NEW r \in Rooms PROVE Enrolled(c, r)'
      BY <1>1 DEF JoinInv, Enrolled
    <2>3. ASSUME NEW c \in Clients, NEW r \in Rooms, NEW m \in db',
                 c \in members'[r], m.room = r
          PROVE  Promised(c, r, m)'
      <3>1. Promised(c, r, m) BY <1>1, <2>3 DEF JoinInv
      <3> QED BY <1>1, <3>1 DEF Promised, Joining, Overfull, OnItsWay
    <2> QED BY <2>1, <2>2, <2>3 DEF JoinInv
  <1>2. CASE UNCHANGED vars
    BY <1>1, <1>2 DEF vars, threadVars, roomVars, storeVars, dropVars
  <1>3. CASE Tick BY <1>1, <1>3 DEF Tick, threadVars, roomVars, storeVars, dropVars
  <1>4. CASE FindClient \/ Share BY <1>4, RestKeepsPromises DEF Threads
  <1>5. ASSUME NEW c \in Clients, Reader(c) PROVE JoinInv'
    <2>1. CASE Enter(c) \/ Own(c) \/ History(c) BY <2>1, JoinKeepsPromises
    <2>2. CASE Leave(c) \/ Disown(c) \/ Connect(c) BY <2>2, LeaveKeepsPromises
    <2>3. CASE \/ ReaderEnds(c) \/ RecvText(c) \/ RecvBinary(c) \/ Store(c)
               \/ StoreFails(c) \/ RecvJoin(c) \/ RecvLeave(c)
      BY <2>3, RestKeepsPromises DEF Threads
    <2> QED BY <1>5, <2>1, <2>2, <2>3 DEF Reader
  <1>6. ASSUME NEW c \in Clients, Disconnect(c) PROVE JoinInv'
    BY <1>6, DisconnectKeepsPromises
  <1>7. ASSUME NEW t \in Threads, Deliver(t) PROVE JoinInv'
    BY <1>7, SaveKeepsPromises, BroadcastKeepsPromises, RestKeepsPromises DEF Deliver
  <1> QED BY <1>2, <1>3, <1>4, <1>5, <1>6, <1>7 DEF Next

\* A client that has joined a room, and that no write has failed for since,
\* misses none of its messages: handleJoinRoom enters the room before it
\* reads the history, and the handlers save a message before they look up
\* who is in the room.
THEOREM JoinersMissNothing == Spec => []JoinedMissNothing
  <1>1. JoinInv => JoinedMissNothing
    <2> SUFFICES ASSUME JoinInv, NEW c \in Clients, NEW r \in Rooms,
                        pc[c] = "idle", c \in members[r], c \notin dropping,
                        Cardinality({m \in saved : m.room = r}) <= HistoryLimit,
                        NEW m \in db, m.room = r
                 PROVE  Delivering(m) \/ m \in inbox[c]
      BY DEF JoinedMissNothing
    <2>1. Promised(c, r, m) BY DEF JoinInv
    <2>2. ~Joining(c, r) BY DEF Joining
    <2>3. ~Overfull(r)
      <3>1. IsFiniteSet({x \in saved : x.room = r}) BY FS_Subset DEF JoinInv, JoinShaped
      <3>2. Cardinality({x \in saved : x.room = r}) \in Nat BY <3>1, FS_CardinalityType
      <3> QED BY <3>2, MessagesAssumption DEF Overfull
    <2> QED BY <2>1, <2>2, <2>3 DEF Promised, OnItsWay, Delivering
  <1> QED BY <1>1, InitJoin, NextKeepsPromises, PTL DEF Spec

-----------------------------------------------------------------------------
(* The rate limiter.                                                       *)

\* How many of the times in s are at from or later, and before to.
Times(s, from, to) == {i \in DOMAIN s : from <= s[i] /\ s[i] < to}
Within(s, from, to) == Cardinality(Times(s, from, to))

\* What k windows may accept.
Budget(k) == k * Requests

\* Disconnects of c, while it was read on, that have been handled.
Resets(c) == IF c \in dropping THEN drops[c] - 1 ELSE drops[c]

RateTyped(c) ==
  /\ drops[c] \in Nat
  /\ c \in dropping => drops[c] > 0 \/ pc[c] = "gone"
  /\ accepted[c] \in Seq(Nat) /\ \A i \in DOMAIN accepted[c] : accepted[c][i] <= now
  /\ limiter[c] # None =>
       /\ limiter[c] \in [LastReset : Nat, CurrentUsed : Nat]
       /\ limiter[c].LastReset <= now /\ limiter[c].CurrentUsed <= Requests

\* The window under way has accepted what its limiter says.
Used(c) ==
  limiter[c] # None =>
    Within(accepted[c], limiter[c].LastReset, now + 1) >= limiter[c].CurrentUsed

\* What the span of a window's length from t on has seen so far: only the
\* window under way if that began before t; otherwise the one that was under
\* way at t, the one under way, and one more for each disconnect; and when no
\* window is under way, a disconnect has ended the last.
Spent(c, t) ==
  LET n == Within(accepted[c], t, t + Window)
      l == limiter[c]
  IN  IF l = None THEN n <= Budget(1 + Resets(c))
      ELSE IF l.LastReset < t THEN n <= l.CurrentUsed
      ELSE IF l.LastReset < t + Window THEN n <= Budget(1 + Resets(c)) + l.CurrentUsed
      ELSE n <= Budget(2 + Resets(c))

\* What RateBound and RefusedWithCause say of c.
Bounded(c, t) == Within(accepted[c], t, t + Window) <= Budget(2 + drops[c])
Caused(c) == \A t \in refused[c] \cap Nat : Within(accepted[c], t - Window + 1, t + 1) >= Requests

RateOf(c) ==
  /\ RateTyped(c) /\ Used(c) /\ Caused(c)
  /\ \A t \in Nat : Bounded(c, t) /\ (pc[c] # "gone" => Spent(c, t))

\* The inductive invariant of RateBound and RefusedWithCause.
RateInv ==
  /\ work \in Workloads /\ now \in Nat
  /\ DOMAIN pc = Threads /\ DOMAIN limiter = Clients /\ DOMAIN accepted = Clients
  /\ DOMAIN refused = Clients /\ DOMAIN drops = Clients
  /\ \A c \in Clients : RateOf(c)

\* Counting times: there are finitely many.
LEMMA TimesFinite ==
  ASSUME NEW s \in Seq(Nat), NEW from \in Int, NEW to \in Int
  PROVE  IsFiniteSet(Times(s, from, to)) /\ Within(s, from, to) \in Nat
  <1>1. DOMAIN s = 1..Len(s) /\ Len(s) \in Nat OBVIOUS
  <1>2. IsFiniteSet(1..Len(s)) BY <1>1, FS_Interval
  <1>3. Times(s, from, to) \in SUBSET (1..Len(s)) BY <1>1 DEF Times
  <1>4. IsFiniteSet(Times(s, from, to)) BY <1>2, <1>3, FS_Subset
  <1> QED BY <1>4, FS_CardinalityType DEF Within

\* Wider bounds hold no fewer times.
LEMMA WithinGrows ==
  ASSUME NEW s \in Seq(Nat), NEW from \in Int, NEW to \in Int,
         NEW from2 \in Int, NEW to2 \in Int, from2 <= from, to <= to2
  PROVE  Within(s, from, to) <= Within(s, from2, to2)
  <1>1. \A i \in DOMAIN s : s[i] \in Nat OBVIOUS
  <1>2. Times(s, from, to) \in SUBSET Times(s, from2, to2) BY <1>1 DEF Times
  <1>3. IsFiniteSet(Times(s, from2, to2)) BY TimesFinite
  <1> QED BY <1>2, <1>3, FS_Subset DEF Within

\* There are none beyond the last.
LEMMA WithinNone ==
  ASSUME NEW s \in Seq(Nat), NEW from \in Int, NEW to \in Int,
         \A i \in DOMAIN s : s[i] < from
  PROVE  Within(s, from, to) = 0
  <1>1. \A i \in DOMAIN s : s[i] \in Nat OBVIOUS
  <1>2. Times(s, from, to) = {} BY <1>1 DEF Times
  <1> QED BY <1>2, FS_EmptySet DEF Within

\* One more is counted once.
LEMMA WithinAppend ==
  ASSUME NEW s \in Seq(Nat), NEW from \in Int, NEW to \in Int, NEW x \in Nat
  PROVE  Within(Append(s, x), from, to) =
           Within(s, from, to) + IF from <= x /\ x < to THEN 1 ELSE 0
  <1> DEFINE n == Len(s) + 1
             old == Times(s, from, to)
  <1>1. /\ DOMAIN s = 1..Len(s) /\ Len(s) \in Nat
        /\ DOMAIN Append(s, x) = 1..n
        /\ Append(s, x)[n] = x /\ \A i \in 1..Len(s) : Append(s, x)[i] = s[i]
    OBVIOUS
  <1>2. n \notin old BY <1>1 DEF Times
  <1>3. IsFiniteSet(old) BY TimesFinite
  <1>4. Cardinality(old \cup {n}) = Cardinality(old) + 1 BY <1>2, <1>3, FS_AddElement
  <1>5. Cardinality(old) \in Nat BY <1>3, FS_CardinalityType
  <1>6. CASE from <= x /\ x < to
    <2>1. Times(Append(s, x), from, to) = old \cup {n} BY <1>1, <1>6 DEF Times
    <2> QED BY <1>4, <1>6, <2>1 DEF Within
  <1>7. CASE ~(from <= x /\ x < to)
    <2>1. Times(Append(s, x), from, to) = old BY <1>1, <1>7 DEF Times
    <2> QED BY <1>5, <1>7, <2>1 DEF Within
  <1> QED BY <1>6, <1>7

\* The budget of one window more, and of any number more.
LEMMA BudgetGrows ==
  ASSUME NEW j \in Nat, NEW k \in Nat, j <= k
  PROVE  /\ Budget(j) \in Nat /\ Budget(j + 1) = Budget(j) + Requests
         /\ Budget(j) <= Budget(k) /\ Budget(1) = Requests
  <1>1. Requests \in Nat BY MessagesAssumption
  <1>2. PICK d \in Nat : k = j + d
    <2>1. k - j \in Nat /\ k = j + (k - j) OBVIOUS
    <2> QED BY <2>1
  <1>3. d * Requests \in Nat /\ j * Requests \in Nat BY <1>1
  <1>4. (j + d) * Requests = j * Requests + d * Requests BY <1>1
  <1>5. (j + 1) * Requests = j * Requests + Requests BY <1>1
  <1>6. 1 * Requests = Requests BY <1>1
  <1> QED BY <1>1, <1>2, <1>3, <1>4, <1>5, <1>6 DEF Budget

\* What steps other than its own disconnect do to the failed writes of c: no
\* reset is taken back.
DropsGrow(c) ==
  /\ drops'[c] \in Nat /\ drops[c] <= drops'[c]
  /\ c \in dropping' => drops'[c] > 0 \/ pc'[c] = "gone"
  /\ pc'[c] # "gone" => pc[c] # "gone" /\ Resets(c)' \in Nat /\ Resets(c) <= Resets(c)'

\* A connection that is read on has had no more resets than failed writes.
LEMMA ResetsTyped ==
  ASSUME NEW c, RateTyped(c), pc[c] # "gone"
  PROVE  Resets(c) \in Nat /\ Resets(c) <= drops[c]
  BY DEF RateTyped, Resets

\* A failed write is a reset to come, or one more than those counted.
LEMMA WriteGrows ==
  ASSUME RateInv, NEW c \in Clients, NEW d,
         WriteTo(d) \/ WriteFails(d) \/ UNCHANGED dropVars,
         pc'[c] = "gone" <=> pc[c] = "gone"
  PROVE  DropsGrow(c) /\ DOMAIN drops' = Clients
  <1>1. RateTyped(c) /\ DOMAIN drops = Clients BY DEF RateInv, RateOf
  <1>2. CASE UNCHANGED dropVars
    BY <1>1, <1>2, ResetsTyped DEF DropsGrow, RateTyped, Resets, dropVars
  <1>3. CASE WriteFails(d)
    <2>1. drops' = [drops EXCEPT ![d] = @ + 1] /\ dropping' = dropping \cup {d}
      BY <1>3 DEF WriteFails
    <2>2. CASE c = d
      <3>1. drops'[c] = drops[c] + 1 /\ c \in dropping' BY <1>1, <2>1, <2>2
      <3> QED BY <1>1, <2>1, <3>1, ResetsTyped DEF DropsGrow, RateTyped, Resets
    <2>3. CASE c # d
      <3>1. drops'[c] = drops[c] /\ (c \in dropping' <=> c \in dropping) BY <1>1, <2>1, <2>3
      <3> QED BY <1>1, <2>1, <3>1, ResetsTyped DEF DropsGrow, RateTyped, Resets
    <2> QED BY <2>2, <2>3
  <1> QED BY <1>2, <1>3 DEF WriteTo

\* What the invariant says of a span is within the bound.
LEMMA SpentBounds ==
  ASSUME NEW c, RateTyped(c), pc[c] # "gone", NEW t \in Nat, Spent(c, t)
  PROVE  Bounded(c, t)
  <1> DEFINE n == Within(accepted[c], t, t + Window)
             k == Resets(c)
  <1>1. k \in Nat /\ drops[c] \in Nat /\ k <= drops[c] BY ResetsTyped DEF RateTyped
  <1>2. n \in Nat BY TimesFinite, MessagesAssumption DEF RateTyped
  <1>3. Requests \in Nat BY MessagesAssumption
  <1>4. limiter[c] # None => limiter[c].CurrentUsed \in Nat /\ limiter[c].CurrentUsed <= Requests
    BY DEF RateTyped
  <1>5. \/ n <= Budget(1 + k) \/ n <= Requests
        \/ n <= Budget(1 + k) + Requests \/ n <= Budget(2 + k)
    <2>1. Budget(1 + k) \in Nat
      <3>1. 1 + k \in Nat BY <1>1
      <3> QED BY <3>1, BudgetGrows
    <2> HIDE DEF n, k
    <2>2. \/ n <= Budget(1 + k) \/ (limiter[c] # None /\ n <= limiter[c].CurrentUsed)
          \/ (limiter[c] # None /\ n <= Budget(1 + k) + limiter[c].CurrentUsed)
          \/ n <= Budget(2 + k)
      BY DEF Spent, n, k
    <2> QED BY <1>2, <1>3, <1>4, <2>1, <2>2
  <1> HIDE DEF n, k
  <1>6. /\ Budget(1 + k) \in Nat /\ Budget(2 + k) = Budget(1 + k) + Requests
        /\ Budget(2 + drops[c]) \in Nat /\ Budget(2 + k) <= Budget(2 + drops[c])
    <2>1. 1 + k \in Nat /\ 2 + k = (1 + k) + 1 BY <1>1
    <2>2. Budget(1 + k) \in Nat /\ Budget(2 + k) = Budget(1 + k) + Requests
      BY <2>1, BudgetGrows
    <2>3. 2 + k \in Nat /\ 2 + drops[c] \in Nat /\ 2 + k <= 2 + drops[c] BY <1>1
    <2> QED BY <2>2, <2>3, BudgetGrows
  <1>7. n <= Budget(2 + drops[c]) BY <1>2, <1>3, <1>5, <1>6
  <1> QED BY <1>7 DEF Bounded, n

\* A greater budget.
LEMMA BoundedGrows ==
  ASSUME NEW c, RateTyped(c), NEW t \in Nat, Bounded(c, t), accepted'[c] = accepted[c],
         drops'[c] \in Nat, drops[c] <= drops'[c]
  PROVE  Bounded(c, t)'
  <1> DEFINE n == Within(accepted[c], t, t + Window)
             b == Budget(2 + drops[c])
             b2 == Budget(2 + drops'[c])
  <1>1. n \in Nat BY TimesFinite, MessagesAssumption DEF RateTyped
  <1>2. 2 + drops[c] \in Nat /\ 2 + drops'[c] \in Nat /\ 2 + drops[c] <= 2 + drops'[c]
    BY DEF RateTyped
  <1>3. b \in Nat /\ b2 \in Nat /\ b <= b2 BY <1>2, BudgetGrows
  <1>4. n <= b BY DEF Bounded
  <1>5. Bounded(c, t)' <=> n <= b2 BY DEF Bounded, Within, Times, Budget
  <1> HIDE DEF n, b, b2
  <1> QED BY <1>1, <1>3, <1>4, <1>5

\* A step that asks nothing of the limiter of c, at which time may pass.
LEMMA UncheckedKeeps ==
  ASSUME RateInv, NEW c \in Clients, DropsGrow(c), now' \in Nat, now <= now',
         limiter'[c] = limiter[c], accepted'[c] = accepted[c], refused'[c] = refused[c]
  PROVE  RateOf(c)'
  <1> DEFINE s == accepted[c]
             l == limiter[c]
  <1>0. RateOf(c) /\ now \in Nat /\ Window \in Nat BY MessagesAssumption DEF RateInv
  <1>1. RateTyped(c)
    BY <1>0 DEF RateOf
  <1>2. RateTyped(c)'
    <2>1. \A i \in DOMAIN s : s[i] <= now' BY <1>0, <1>1 DEF RateTyped
    <2>2. l # None => l.LastReset <= now' BY <1>0, <1>1 DEF RateTyped
    <2> QED BY <1>1, <2>1, <2>2 DEF RateTyped, DropsGrow
  <1>3. Used(c)'
    <2> SUFFICES ASSUME l # None PROVE Within(s, l.LastReset, now' + 1) >= l.CurrentUsed
      BY DEF Used, Within, Times
    <2>1. /\ s \in Seq(Nat) /\ l.LastReset \in Int /\ l.CurrentUsed \in Nat
          /\ now + 1 \in Int /\ now' + 1 \in Int /\ now + 1 <= now' + 1 /\ l.LastReset <= l.LastReset
      BY <1>0, <1>1 DEF RateTyped
    <2>2. Within(s, l.LastReset, now + 1) <= Within(s, l.LastReset, now' + 1)
      BY <2>1, WithinGrows
    <2>3. Within(s, l.LastReset, now + 1) \in Nat /\ Within(s, l.LastReset, now' + 1) \in Nat
      BY <2>1, TimesFinite
    <2>4. Within(s, l.LastReset, now + 1) >= l.CurrentUsed BY <1>0 DEF RateOf, Used
    <2> QED BY <2>1, <2>2, <2>3, <2>4
  <1>4. Caused(c)' BY <1>0 DEF RateOf, Caused, Within, Times
  <1>5. ASSUME NEW t \in Nat PROVE Bounded(c, t)'
    BY <1>0, <1>1, BoundedGrows DEF RateOf, DropsGrow
  <1>6. ASSUME NEW t \in Nat, pc'[c] # "gone" PROVE Spent(c, t)'
    <2> DEFINE n == Within(s, t, t + Window)
               k == Resets(c)
               k2 == Resets(c)'
    <2>1. k \in Nat /\ k2 \in Nat /\ k <= k2 /\ pc[c] # "gone"
      BY <1>1, <1>6, ResetsTyped DEF DropsGrow
    <2>2. Spent(c, t) BY <1>0, <2>1 DEF RateOf
    <2>3. n \in Nat BY <1>0, <1>1, TimesFinite DEF RateTyped
    <2>4. 1 + k \in Nat /\ 1 + k2 \in Nat /\ 2 + k \in Nat /\ 2 + k2 \in Nat
          /\ 1 + k <= 1 + k2 /\ 2 + k <= 2 + k2
      BY <2>1
    <2> DEFINE b1 == Budget(1 + k)
               b2 == Budget(2 + k)
               c1 == Budget(1 + k2)
               c2 == Budget(2 + k2)
    <2>5. b1 \in Nat /\ c1 \in Nat /\ b1 <= c1 /\ b2 \in Nat /\ c2 \in Nat /\ b2 <= c2
      <3> HIDE DEF k, k2
      <3> QED BY <2>4, BudgetGrows
    <2>6. Spent(c, t)' <=> IF l = None THEN n <= c1
                           ELSE IF l.LastReset < t THEN n <= l.CurrentUsed
                           ELSE IF l.LastReset < t + Window THEN n <= c1 + l.CurrentUsed
                           ELSE n <= c2
      BY DEF Spent, Within, Times, Budget
    <2>7. IF l = None THEN n <= b1
          ELSE IF l.LastReset < t THEN n <= l.CurrentUsed
          ELSE IF l.LastReset < t + Window THEN n <= b1 + l.CurrentUsed
          ELSE n <= b2
      BY <2>2 DEF Spent
    <2>8. l # None => l.CurrentUsed \in Nat BY <1>1 DEF RateTyped
    <2> HIDE DEF n, k, k2, b1, b2, c1, c2, l
    <2> QED BY <2>3, <2>5, <2>6, <2>7, <2>8
  <1> QED BY <1>2, <1>3, <1>4, <1>5, <1>6 DEF RateOf

\* The limiter that checkRateLimit asks: a window that began less than
\* WindowSize ago, and of every span what that window has to do with it.
LEMMA LimiterGives ==
  ASSUME RateInv, NEW c \in Clients, pc[c] # "gone"
  PROVE  /\ Limiter(c) \in [LastReset : Nat, CurrentUsed : Nat]
         /\ Limiter(c).LastReset <= now /\ now < Limiter(c).LastReset + Window
         /\ Limiter(c).CurrentUsed <= Requests
         /\ Within(accepted[c], Limiter(c).LastReset, now + 1) >= Limiter(c).CurrentUsed
         /\ \A t \in Nat :
              LET n == Within(accepted[c], t, t + Window) IN
              IF Limiter(c).LastReset < t THEN n <= Limiter(c).CurrentUsed
              ELSE IF Limiter(c).LastReset < t + Window
              THEN n <= Budget(1 + Resets(c)) + Limiter(c).CurrentUsed
              ELSE n <= Budget(2 + Resets(c))
  <1> DEFINE s == accepted[c]
             l == limiter[c]
             k == Resets(c)
  <1>0. /\ RateOf(c) /\ RateTyped(c) /\ now \in Nat
        /\ Window \in Nat /\ Window > 0 /\ Requests \in Nat
    BY MessagesAssumption DEF RateInv, RateOf
  <1>1. k \in Nat BY <1>0, ResetsTyped
  <1>2. s \in Seq(Nat) /\ \A i \in DOMAIN s : s[i] \in Nat /\ s[i] <= now BY <1>0 DEF RateTyped
  <1>3. CASE l = None \/ now - l.LastReset >= Window
    <2>1. Limiter(c) = [LastReset |-> now, CurrentUsed |-> 0] BY <1>3 DEF Limiter, Fresh
    <2>2. Within(s, now, now + 1) \in Nat BY <1>0, <1>2, TimesFinite
    <2>3. ASSUME NEW t \in Nat
          PROVE  LET n == Within(s, t, t + Window) IN
                 IF now < t THEN n <= 0
                 ELSE IF now < t + Window THEN n <= Budget(1 + k) + 0
                 ELSE n <= Budget(2 + k)
      <3> DEFINE n == Within(s, t, t + Window)
      <3>1. n \in Nat BY <1>0, <1>2, TimesFinite
      <3>2. now < t => n = 0
        <4> SUFFICES ASSUME now < t PROVE n = 0 OBVIOUS
        <4>1. \A i \in DOMAIN s : s[i] < t BY <1>0, <1>2
        <4>2. t \in Int /\ t + Window \in Int BY <1>0
        <4> HIDE DEF s
        <4> QED BY <1>2, <4>1, <4>2, WithinNone
      <3>3. Spent(c, t) BY <1>0 DEF RateOf
      <3>4. IF l = None THEN n <= Budget(1 + k)
            ELSE IF l.LastReset < t THEN n <= l.CurrentUsed
            ELSE IF l.LastReset < t + Window THEN n <= Budget(1 + k) + l.CurrentUsed
            ELSE n <= Budget(2 + k)
        BY <3>3 DEF Spent
      <3>5. l # None => /\ l.CurrentUsed \in Nat /\ l.CurrentUsed <= Requests
                        /\ l.LastReset \in Nat /\ l.LastReset <= now
        BY <1>0 DEF RateTyped
      <3>6. /\ Budget(1 + k) \in Nat /\ Budget(2 + k) = Budget(1 + k) + Requests
            /\ Requests <= Budget(1 + k)
        <4>1. 1 + k \in Nat /\ 2 + k = (1 + k) + 1 /\ 1 \in Nat /\ 1 <= 1 + k BY <1>1
        <4> HIDE DEF k
        <4>2. Budget(1 + k) \in Nat /\ Budget(2 + k) = Budget(1 + k) + Requests
          BY <4>1, BudgetGrows
        <4>3. Budget(1) = Requests /\ Budget(1) <= Budget(1 + k) BY <4>1, BudgetGrows
        <4> QED BY <4>2, <4>3
      <3> HIDE DEF n, k, l
      <3>7. IF now < t THEN n <= 0
            ELSE IF now < t + Window THEN n <= Budget(1 + k) + 0
            ELSE n <= Budget(2 + k)
        BY <1>0, <1>3, <3>1, <3>2, <3>4, <3>5, <3>6
      <3> QED BY <3>7 DEF n
    <2> HIDE DEF k
    <2> QED BY <1>0, <2>1, <2>2, <2>3 DEF k
  <1>4. CASE ~(l = None \/ now - l.LastReset >= Window)
    <2>1. Limiter(c) = l BY <1>4 DEF Limiter
    <2>2. /\ l \in [LastReset : Nat, CurrentUsed : Nat]
          /\ l.LastReset <= now /\ l.CurrentUsed <= Requests
      BY <1>0, <1>4 DEF RateTyped
    <2>3. now < l.LastReset + Window BY <1>0, <1>4, <2>2
    <2>4. Within(s, l.LastReset, now + 1) >= l.CurrentUsed BY <1>0, <1>4 DEF RateOf, Used
    <2>5. ASSUME NEW t \in Nat
          PROVE  LET n == Within(s, t, t + Window) IN
                 IF l.LastReset < t THEN n <= l.CurrentUsed
                 ELSE IF l.LastReset < t + Window THEN n <= Budget(1 + k) + l.CurrentUsed
                 ELSE n <= Budget(2 + k)
      <3>1. Spent(c, t) BY <1>0 DEF RateOf
      <3> QED BY <1>4, <3>1 DEF Spent
    <2> QED BY <2>1, <2>2, <2>3, <2>4, <2>5
  <1> QED BY <1>3, <1>4

\* SpentBounds after a step.
WithinBudget ==
  \A c \in Clients : \A t \in Nat :
    RateTyped(c) /\ pc[c] # "gone" /\ Spent(c, t) => Bounded(c, t)

LEMMA SpentBoundsNext == WithinBudget'
  <1>1. WithinBudget BY SpentBounds DEF WithinBudget
  <1> QED BY <1>1, PTL

\* checkRateLimit: an accepted message is counted, and a refused one has
\* Requests accepted ones before it in the window under way.
LEMMA CheckedKeeps ==
  ASSUME RateInv, NEW c \in Clients, DropsGrow(c), now' = now,
         pc[c] # "gone", pc'[c] # "gone", checkRateLimit(c)
  PROVE  RateOf(c)'
  <1> DEFINE s == accepted[c]
             s2 == accepted'[c]
             l == Limiter(c)
             l2 == limiter'[c]
             k == Resets(c)
             k2 == Resets(c)'
  <1>0. /\ RateOf(c) /\ RateTyped(c) /\ now \in Nat /\ DOMAIN limiter = Clients
        /\ DOMAIN accepted = Clients /\ DOMAIN refused = Clients
        /\ Window \in Nat /\ Window > 0 /\ Requests \in Nat
    BY MessagesAssumption DEF RateInv, RateOf
  <1>1. s \in Seq(Nat) /\ \A i \in DOMAIN s : s[i] \in Nat /\ s[i] <= now BY <1>0 DEF RateTyped
  <1>2. /\ l \in [LastReset : Nat, CurrentUsed : Nat]
        /\ l.LastReset <= now /\ now < l.LastReset + Window
        /\ l.CurrentUsed <= Requests
        /\ Within(s, l.LastReset, now + 1) >= l.CurrentUsed
    BY LimiterGives
  <1>3. ASSUME NEW t \in Nat
        PROVE  IF l.LastReset < t THEN Within(s, t, t + Window) <= l.CurrentUsed
               ELSE IF l.LastReset < t + Window
               THEN Within(s, t, t + Window) <= Budget(1 + k) + l.CurrentUsed
               ELSE Within(s, t, t + Window) <= Budget(2 + k)
    BY LimiterGives
  <1>4. /\ l2 = IF Allowed(c) THEN [l EXCEPT !.CurrentUsed = @ + 1] ELSE l
        /\ s2 = IF Allowed(c) THEN Append(s, now) ELSE s
        /\ refused'[c] = IF Allowed(c) THEN refused[c] ELSE refused[c] \cup {now}
    BY <1>0 DEF checkRateLimit, Count
  <1>5. Allowed(c) <=> l.CurrentUsed < Requests BY DEF Allowed
  <1> HIDE DEF l
  <1>6. /\ l2 \in [LastReset : Nat, CurrentUsed : Nat] /\ l2 # None
        /\ l2.LastReset = l.LastReset /\ l2.CurrentUsed <= Requests
        /\ l2.CurrentUsed = l.CurrentUsed + (IF Allowed(c) THEN 1 ELSE 0)
    <2>1. l2 \in [LastReset : Nat, CurrentUsed : Nat]
      BY <1>2, <1>4
    <2>2. l2 # None BY <2>1, MessagesAssumption
    <2> QED BY <1>0, <1>2, <1>4, <1>5, <2>1, <2>2
  <1>7. s2 \in Seq(Nat) /\ \A i \in DOMAIN s2 : s2[i] <= now
    BY <1>0, <1>1, <1>4
  <1>8. RateTyped(c)'
    BY <1>0, <1>2, <1>6, <1>7 DEF RateTyped, DropsGrow
  <1>9. ASSUME NEW from \in Int, NEW to \in Int
        PROVE  /\ Within(s, from, to) \in Nat /\ Within(s2, from, to) \in Nat
               /\ Within(s2, from, to) = Within(s, from, to) +
                    IF Allowed(c) /\ from <= now /\ now < to THEN 1 ELSE 0
    <2>1. Within(s, from, to) \in Nat BY <1>1, TimesFinite
    <2>2. CASE Allowed(c)
      <3>1. s2 = Append(s, now) BY <1>4, <2>2
      <3> HIDE DEF s, s2
      <3> QED BY <1>0, <1>1, <2>1, <2>2, <3>1, WithinAppend
    <2>3. CASE ~Allowed(c)
      <3>1. s2 = s BY <1>4, <2>3
      <3> HIDE DEF s, s2
      <3> QED BY <2>1, <2>3, <3>1
    <2> QED BY <2>2, <2>3
  <1>10. Used(c)'
    <2>1. l2.LastReset \in Int /\ now + 1 \in Int BY <1>0, <1>6
    <2>2. Within(s2, l.LastReset, now + 1) =
            Within(s, l.LastReset, now + 1) + IF Allowed(c) THEN 1 ELSE 0
      <3>1. l.LastReset \in Int /\ l.LastReset <= now /\ now < now + 1 BY <1>0, <1>2
      <3> HIDE DEF s, s2
      <3>2. Within(s2, l.LastReset, now + 1) = Within(s, l.LastReset, now + 1) +
              IF Allowed(c) /\ l.LastReset <= now /\ now < now + 1 THEN 1 ELSE 0
        BY <1>9, <2>1, <3>1
      <3> QED BY <3>1, <3>2
    <2>3. Within(s, l.LastReset, now + 1) \in Nat BY <1>6, <1>9, <2>1
    <2>4. Within(s2, l2.LastReset, now + 1) >= l2.CurrentUsed
      BY <1>2, <1>6, <2>2, <2>3
    <2>5. Used(c)' <=> (l2 # None => Within(s2, l2.LastReset, now + 1) >= l2.CurrentUsed)
      BY DEF Used, Within, Times
    <2> QED BY <2>4, <2>5
  <1>11. Caused(c)'
    <2> SUFFICES ASSUME NEW t \in refused'[c], t \in Nat
                 PROVE  Within(s2, t - Window + 1, t + 1) >= Requests
      BY DEF Caused, Within, Times
    <2>1. t - Window + 1 \in Int /\ t + 1 \in Int BY <1>0
    <2>2. CASE t \in refused[c]
      <3>1. Within(s, t - Window + 1, t + 1) >= Requests BY <1>0, <2>2 DEF RateOf, Caused
      <3>2. /\ Within(s, t - Window + 1, t + 1) \in Nat
            /\ Within(s2, t - Window + 1, t + 1) >= Within(s, t - Window + 1, t + 1)
            /\ Within(s2, t - Window + 1, t + 1) \in Nat
        <4> DEFINE from == t - Window + 1
                   to == t + 1
        <4> HIDE DEF s, s2, from, to
        <4>1. from \in Int /\ to \in Int BY <2>1 DEF from, to
        <4>2. /\ Within(s, from, to) \in Nat /\ Within(s2, from, to) \in Nat
              /\ Within(s2, from, to) = Within(s, from, to) +
                   IF Allowed(c) /\ from <= now /\ now < to THEN 1 ELSE 0
          BY <1>9, <4>1
        <4>3. Within(s2, from, to) >= Within(s, from, to) BY <4>2
        <4> QED BY <4>2, <4>3 DEF from, to
      <3> QED BY <1>0, <3>1, <3>2
    <2>3. CASE t \notin refused[c]
      <3>1. ~Allowed(c) /\ t = now /\ s2 = s BY <1>4, <2>3
      <3>2. l.CurrentUsed = Requests /\ l.LastReset \in Int BY <1>0, <1>2, <1>5, <3>1
      <3>3. now - Window + 1 <= l.LastReset BY <1>0, <1>2
      <3>4. now - Window + 1 \in Int /\ now + 1 \in Int /\ now + 1 <= now + 1 BY <1>0
      <3> HIDE DEF s, s2
      <3>5. Within(s, l.LastReset, now + 1) <= Within(s, now - Window + 1, now + 1)
        BY <1>1, <3>2, <3>3, <3>4, WithinGrows
      <3>6. /\ Within(s, l.LastReset, now + 1) \in Nat
            /\ Within(s, now - Window + 1, now + 1) \in Nat
        BY <1>1, <3>2, <3>4, TimesFinite
      <3>7. Within(s, now - Window + 1, now + 1) >= Requests
        BY <1>0, <1>2, <3>2, <3>5, <3>6
      <3> QED BY <3>1, <3>7
    <2> QED BY <2>2, <2>3
  <1>12. ASSUME NEW t \in Nat PROVE Spent(c, t)'
    <2> DEFINE n == Within(s, t, t + Window)
               n2 == Within(s2, t, t + Window)
               b1 == Budget(1 + k)
               b2 == Budget(2 + k)
               c1 == Budget(1 + k2)
               c2 == Budget(2 + k2)
    <2>1. k \in Nat /\ k2 \in Nat /\ k <= k2
      BY <1>0, <1>12, ResetsTyped DEF DropsGrow
    <2>2. /\ b1 \in Nat /\ c1 \in Nat /\ b1 <= c1
          /\ b2 \in Nat /\ c2 \in Nat /\ b2 <= c2
      <3> HIDE DEF k, k2
      <3>1. 1 + k \in Nat /\ 1 + k2 \in Nat /\ 2 + k \in Nat /\ 2 + k2 \in Nat
            /\ 1 + k <= 1 + k2 /\ 2 + k <= 2 + k2
        BY <2>1
      <3> QED BY <3>1, BudgetGrows
    <2>3. /\ n \in Nat /\ n2 \in Nat
          /\ n2 = n + IF Allowed(c) /\ t <= now /\ now < t + Window THEN 1 ELSE 0
      <3>1. t \in Int /\ t + Window \in Int BY <1>0
      <3> HIDE DEF s, s2
      <3> QED BY <1>9, <3>1
    <2>4. IF l.LastReset < t THEN n <= l.CurrentUsed
          ELSE IF l.LastReset < t + Window THEN n <= b1 + l.CurrentUsed
          ELSE n <= b2
      BY <1>3
    <2>5. Spent(c, t)' <=> IF l2 = None THEN n2 <= c1
                           ELSE IF l2.LastReset < t THEN n2 <= l2.CurrentUsed
                           ELSE IF l2.LastReset < t + Window THEN n2 <= c1 + l2.CurrentUsed
                           ELSE n2 <= c2
      BY DEF Spent, Within, Times, Budget
    <2> HIDE DEF n, n2, b1, b2, c1, c2, l2
    <2> QED BY <1>0, <1>2, <1>6, <2>2, <2>3, <2>4, <2>5
  <1>13. ASSUME NEW t \in Nat PROVE Bounded(c, t)'
    BY <1>8, <1>12, SpentBoundsNext DEF WithinBudget
  <1> QED BY <1>8, <1>10, <1>11, <1>12, <1>13 DEF RateOf

\* handleClientDisconnect: the limiter is gone, and one more reset counts.
LEMMA DisconnectedKeeps ==
  ASSUME RateInv, NEW c \in Clients, Disconnect(c)
  PROVE  RateOf(c)'
  <1>0. /\ RateOf(c) /\ RateTyped(c) /\ DOMAIN limiter = Clients /\ Window \in Nat
        /\ Requests \in Nat
    BY MessagesAssumption DEF RateInv, RateOf
  <1>1. /\ c \in dropping /\ dropping' = dropping \ {c} /\ limiter'[c] = None
        /\ UNCHANGED <<pc, accepted, refused, drops, now>>
    BY <1>0 DEF Disconnect, threadVars
  <1>2. RateTyped(c)' BY <1>0, <1>1 DEF RateTyped
  <1>3. Used(c)' BY <1>1 DEF Used
  <1>4. Caused(c)' BY <1>0, <1>1 DEF RateOf, Caused, Within, Times
  <1>5. ASSUME NEW t \in Nat PROVE Bounded(c, t)'
    BY <1>0, <1>1 DEF RateOf, Bounded, Within, Times, Budget
  <1>6. ASSUME NEW t \in Nat, pc'[c] # "gone" PROVE Spent(c, t)'
    <2>1. drops[c] \in Nat /\ drops[c] > 0 BY <1>0, <1>1, <1>6 DEF RateTyped
    <2>2. 1 + Resets(c)' = 2 + Resets(c) BY <1>1, <2>1 DEF Resets
    <2>3. Within(accepted[c], t, t + Window) <= Budget(2 + Resets(c))
      <3> DEFINE n == Within(accepted[c], t, t + Window)
                 l == limiter[c]
                 k == Resets(c)
      <3>1. k \in Nat /\ Spent(c, t) BY <1>0, <1>1, <1>6, ResetsTyped DEF RateOf
      <3>2. n \in Nat
        <4>1. accepted[c] \in Seq(Nat) /\ t \in Int /\ t + Window \in Int BY <1>0 DEF RateTyped
        <4> QED BY <4>1, TimesFinite
      <3>3. l # None => l.CurrentUsed \in Nat /\ l.CurrentUsed <= Requests
        BY <1>0 DEF RateTyped
      <3>4. IF l = None THEN n <= Budget(1 + k)
            ELSE IF l.LastReset < t THEN n <= l.CurrentUsed
            ELSE IF l.LastReset < t + Window THEN n <= Budget(1 + k) + l.CurrentUsed
            ELSE n <= Budget(2 + k)
        BY <3>1 DEF Spent
      <3> HIDE DEF n, l, k
      <3>5. Budget(1 + k) \in Nat /\ Budget(2 + k) = Budget(1 + k) + Requests
        <4>1. 1 + k \in Nat /\ 2 + k = (1 + k) + 1 BY <3>1
        <4> QED BY <4>1, BudgetGrows
      <3>6. n <= Budget(2 + k) BY <1>0, <3>2, <3>3, <3>4, <3>5
      <3> QED BY <3>6 DEF n, k
    <2>4. Within(accepted[c], t, t + Window) <= Budget(1 + Resets(c)') BY <2>2, <2>3
    <2> QED BY <1>1, <2>4 DEF Spent, Within, Times, Budget
  <1> QED BY <1>2, <1>3, <1>4, <1>5, <1>6 DEF RateOf

\* Neither another client's nor another goroutine's step asks the limiter.
LEMMA AwayKeeps ==
  ASSUME RateInv, NEW d, WriteTo(d) \/ WriteFails(d) \/ UNCHANGED dropVars,
         now' \in Nat, now <= now', UNCHANGED rateVars,
         \A c \in Clients : pc'[c] = "gone" <=> pc[c] = "gone"
  PROVE  DOMAIN drops' = Clients /\ \A c \in Clients : RateOf(c)'
  <1>1. ASSUME NEW c \in Clients PROVE DropsGrow(c) BY WriteGrows
  <1>2. ASSUME NEW c \in Clients PROVE RateOf(c)'
    BY <1>1, UncheckedKeeps DEF rateVars
  <1>3. DOMAIN drops' = Clients BY DEF RateInv, WriteTo, WriteFails, dropVars
  <1> QED BY <1>2, <1>3

\* Nor does checkRateLimit ask or change another's limiter.
LEMMA CheckKeeps ==
  ASSUME RateInv, NEW c \in Clients, checkRateLimit(c),
         WriteTo(c) \/ UNCHANGED dropVars, UNCHANGED now, pc[c] # "gone",
         \A d \in Clients : pc'[d] = "gone" <=> pc[d] = "gone"
  PROVE  /\ DOMAIN drops' = Clients /\ DOMAIN limiter' = Clients
         /\ DOMAIN accepted' = Clients /\ DOMAIN refused' = Clients
         /\ \A d \in Clients : RateOf(d)'
  <1>1. ASSUME NEW d \in Clients PROVE DropsGrow(d) BY WriteGrows
  <1>2. ASSUME NEW d \in Clients PROVE RateOf(d)'
    <2>1. CASE d = c BY <1>1, <2>1, CheckedKeeps
    <2>2. CASE d # c
      <3>1. limiter'[d] = limiter[d] /\ accepted'[d] = accepted[d] /\ refused'[d] = refused[d]
        BY <2>2 DEF RateInv, checkRateLimit
      <3>2. now' \in Nat /\ now <= now' BY DEF RateInv
      <3> QED BY <1>1, <3>1, <3>2, UncheckedKeeps
    <2> QED BY <2>1, <2>2
  <1>3. DOMAIN drops' = Clients BY DEF RateInv, WriteTo, WriteFails, dropVars
  <1>4. DOMAIN limiter' = Clients /\ DOMAIN accepted' = Clients /\ DOMAIN refused' = Clients
    BY DEF RateInv, checkRateLimit
  <1> QED BY <1>2, <1>3, <1>4

\* No goroutine but that of ReaderEnds ends, and none that has comes back.
Going(t) ==
  /\ DOMAIN pc' = Threads /\ pc[t] # "gone"
  /\ \A u \in Threads : pc'[u] = "gone" <=> pc[u] = "gone"

\* A goroutine that moves to another label does not end.
LEMMA LabelGoes ==
  ASSUME RateInv, NEW t \in Threads, NEW label, label # "gone", pc[t] # "gone",
         pc' = [pc EXCEPT ![t] = label]
  PROVE  Going(t)
  BY DEF RateInv, Going

\* At the start every limiter is yet to be made.
LEMMA InitRate == Init => RateInv
  <1> SUFFICES ASSUME Init PROVE RateInv OBVIOUS
  <1>1. ASSUME NEW c \in Clients PROVE RateOf(c)
    <2>1. /\ drops[c] = 0 /\ dropping = {} /\ accepted[c] = << >> /\ refused[c] = {}
          /\ limiter[c] = None /\ now = 0
      BY DEF Init
    <2>2. RateTyped(c) BY <2>1 DEF RateTyped
    <2>3. Used(c) /\ Caused(c) BY <2>1 DEF Used, Caused
    <2>4. ASSUME NEW t \in Nat PROVE Bounded(c, t) /\ Spent(c, t)
      <3>1. Times(<< >>, t, t + Window) = {} BY DEF Times
      <3>2. Within(accepted[c], t, t + Window) = 0 BY <2>1, <3>1, FS_EmptySet DEF Within
      <3>3. Budget(1) \in Nat /\ Budget(2) \in Nat BY BudgetGrows
      <3>4. 1 + Resets(c) = 1 /\ 2 + drops[c] = 2 BY <2>1 DEF Resets
      <3>5. 0 <= Budget(1 + Resets(c)) /\ 0 <= Budget(2 + drops[c]) BY <3>3, <3>4
      <3> QED BY <2>1, <3>2, <3>5 DEF Bounded, Spent
    <2> QED BY <2>2, <2>3, <2>4 DEF RateOf
  <1> QED BY <1>1 DEF Init, RateInv

\* The steps that do not ask the limiter.
LEMMA UnaskedKeeps ==
  ASSUME RateInv, NEW t \in Threads,
         \/ /\ t \in Clients
            /\ \/ Connect(t) \/ RecvBinary(t) \/ Store(t) \/ StoreFails(t)
               \/ Enter(t) \/ Own(t) \/ History(t) \/ Leave(t) \/ Disown(t)
         \/ t = Uploader /\ (FindClient \/ Share)
         \/ Deliver(t)
  PROVE  RateInv'
  <1> DEFINE Writes(d) == WriteTo(d) \/ WriteFails(d) \/ UNCHANGED dropVars
  <1>1. UNCHANGED <<rateVars, now, work>>
    BY DEF Connect, RecvBinary, Store, StoreFails, Enter, Own, History, Leave, Disown,
           FindClient, Share, Deliver, Save, Lookup, Write, RangeEnds, Acknowledge
  <1>2. \E d : Writes(d)
    <2>1. CASE t \in Clients /\ RecvBinary(t)
      <3>1. UNCHANGED dropVars \/ WriteTo(t) BY <2>1 DEF RecvBinary
      <3> QED BY <3>1
    <2>2. CASE t \in Clients /\ History(t)
      <3>1. WriteTo(t) \/ WriteFails(t) BY <2>2 DEF History
      <3> QED BY <3>1
    <2>3. CASE t \in Clients /\ (StoreFails(t) \/ Connect(t) \/ Store(t) \/ Enter(t) \/ Own(t)
                                 \/ Leave(t) \/ Disown(t))
      <3>1. UNCHANGED dropVars \/ WriteTo(t)
        BY <2>3 DEF StoreFails, Connect, Store, Enter, Own, Leave, Disown
      <3> QED BY <3>1
    <2>4. CASE FindClient \/ Share
      <3>1. UNCHANGED dropVars \/ WriteTo(target) BY <2>4 DEF FindClient, Share
      <3> QED BY <3>1
    <2>5. CASE Deliver(t)
      <3>1. CASE Save(t)
        <4>1. UNCHANGED dropVars \/ WriteTo(Client(t)) BY <3>1 DEF Save
        <4> QED BY <4>1
      <3>2. CASE Write(t)
        <4>1. UNCHANGED dropVars \/ \E d : WriteFails(d) BY <3>2 DEF Write
        <4> QED BY <4>1
      <3>3. CASE Lookup(t) \/ RangeEnds(t) \/ Acknowledge(t)
        <4>1. UNCHANGED dropVars \/ WriteFails(Client(t))
          BY <3>3 DEF Lookup, RangeEnds, Acknowledge
        <4> QED BY <4>1
      <3> QED BY <2>5, <3>1, <3>2, <3>3 DEF Deliver
    <2> QED BY <2>1, <2>2, <2>3, <2>4, <2>5
  <1>3. pc[t] # "gone" /\ (UNCHANGED pc \/ \E label : label # "gone" /\ pc' = [pc EXCEPT ![t] = label])
    <2>1. CASE t \in Clients /\ RecvBinary(t)
      <3>1. \E m : \E label \in {"idle", "store"} : Handle(t, m, label)
        BY <2>1, Zenon DEF RecvBinary
      <3> QED BY <2>1, <3>1 DEF RecvBinary, Recv, Handle
    <2>2. CASE t \in Clients /\ (StoreFails(t) \/ Connect(t) \/ Store(t) \/ Enter(t))
      BY <2>2 DEF StoreFails, Connect, Store, Enter, Goto, Return, JoinNext
    <2>3. CASE t \in Clients /\ (Own(t) \/ History(t) \/ Leave(t) \/ Disown(t))
      BY <2>3 DEF Own, History, Leave, Disown, Goto, Return, JoinNext, JoinGoes
    <2>4. CASE t = Uploader /\ (FindClient \/ Share)
      BY <2>4 DEF FindClient, Share, Goto, Return
    <2>5. CASE Deliver(t)
      BY <2>5 DEF Deliver, Save, Lookup, Write, RangeEnds, Acknowledge, Goto, Return
    <2> QED BY <2>1, <2>2, <2>3, <2>4, <2>5
  <1>4. Going(t) BY <1>3, LabelGoes DEF Going, RateInv
  <1>5. now' \in Nat /\ now <= now' BY <1>1 DEF RateInv
  <1>6. \A c \in Clients : pc'[c] = "gone" <=> pc[c] = "gone" BY <1>4 DEF Going, Threads
  <1>7. DOMAIN drops' = Clients /\ \A c \in Clients : RateOf(c)'
    BY <1>1, <1>2, <1>5, <1>6, AwayKeeps
  <1> QED BY <1>1, <1>4, <1>5, <1>7 DEF RateInv, Going, rateVars

\* The steps that do.
LEMMA AskedKeeps ==
  ASSUME RateInv, NEW c \in Clients, RecvText(c) \/ RecvJoin(c) \/ RecvLeave(c)
  PROVE  RateInv'
  <1>0. c \in Threads BY DEF Threads
  <1>1. checkRateLimit(c) /\ UNCHANGED <<now, work>> BY DEF RecvText, RecvJoin, RecvLeave
  <1>2. \E kind, m : \E label \in {"save", "idle", "enter", "leave"} :
          Recv(c, kind) /\ Handle(c, m, label) /\ (WriteTo(c) \/ UNCHANGED dropVars)
    <2>1. CASE RecvText(c)
      <3>1. PICK type, r, id :
              /\ Recv(c, type)
              /\ \/ Handle(c, Message(c, r, id), "save") /\ UNCHANGED dropVars
                 \/ Handle(c, None, "idle") /\ WriteTo(c)
        BY <2>1 DEF RecvText
      <3> QED BY <3>1
    <2>2. CASE RecvJoin(c)
      <3>1. /\ Recv(c, "join")
            /\ \/ \E m : Handle(c, m, "enter") /\ UNCHANGED dropVars
               \/ Handle(c, None, "idle") /\ WriteTo(c)
        BY <2>2 DEF RecvJoin, JoinNext
      <3> QED BY <3>1
    <2>3. CASE RecvLeave(c)
      <3>1. /\ Recv(c, "leave")
            /\ \/ \E m : Handle(c, m, "leave") /\ UNCHANGED dropVars
               \/ Handle(c, None, "idle") /\ WriteTo(c)
        BY <2>3 DEF RecvLeave
      <3> QED BY <3>1
    <2> QED BY <2>1, <2>2, <2>3
  <1>3. Going(c) BY <1>0, <1>2, LabelGoes DEF Recv, Handle
  <1>4. /\ DOMAIN drops' = Clients /\ DOMAIN limiter' = Clients
        /\ DOMAIN accepted' = Clients /\ DOMAIN refused' = Clients
        /\ \A d \in Clients : RateOf(d)'
    <2>1. \A d \in Clients : pc'[d] = "gone" <=> pc[d] = "gone" BY <1>3 DEF Going, Threads
    <2> QED BY <1>1, <1>2, <1>3, <2>1, CheckKeeps DEF Going
  <1> QED BY <1>1, <1>3, <1>4 DEF RateInv, Going

\* Every step keeps the invariant of the rate limiter.
LEMMA NextKeepsRate == RateInv /\ [Next]_vars => RateInv'
  <1> SUFFICES ASSUME RateInv, [Next]_vars PROVE RateInv' OBVIOUS
  <1>1. CASE UNCHANGED vars \/ Tick
    <2>1. UNCHANGED <<pc, limiter, accepted, refused, dropping, drops, work>>
      BY <1>1 DEF vars, Tick, threadVars, rateVars, dropVars
    <2>2. now' \in Nat /\ now <= now' BY <1>1 DEF vars, Tick, RateInv
    <2>3. DOMAIN drops' = Clients /\ \A c \in Clients : RateOf(c)'
      BY <2>1, <2>2, AwayKeeps DEF dropVars, rateVars
    <2> QED BY <2>1, <2>2, <2>3 DEF RateInv
  <1>2. CASE FindClient \/ Share BY <1>2, UnaskedKeeps DEF Threads
  <1>3. ASSUME NEW c \in Clients, Reader(c) PROVE RateInv'
    <2>1. CASE RecvText(c) \/ RecvJoin(c) \/ RecvLeave(c) BY <2>1, AskedKeeps
    <2>2. CASE ReaderEnds(c)
      <3>1. /\ pc' = [pc EXCEPT ![c] = "gone"]
            /\ dropping' = dropping \cup {c} \/ UNCHANGED dropping
            /\ UNCHANGED <<limiter, accepted, refused, drops, now, work>>
        BY <2>2 DEF ReaderEnds, rateVars
      <3>2. DOMAIN pc' = Threads /\ pc'[c] = "gone"
            /\ \A d \in Clients \ {c} : pc'[d] = pc[d]
        BY <3>1 DEF RateInv, Threads
      <3>3. ASSUME NEW d \in Clients PROVE DropsGrow(d)
        <4>1. RateTyped(d) BY DEF RateInv, RateOf
        <4>2. CASE d = c BY <3>1, <3>2, <4>1, <4>2 DEF DropsGrow, RateTyped
        <4>3. CASE d # c
          <5>1. pc'[d] = pc[d] /\ (d \in dropping' <=> d \in dropping) BY <3>1, <3>2, <4>3
          <5> QED BY <3>1, <4>1, <5>1, ResetsTyped DEF DropsGrow, RateTyped, Resets
        <4> QED BY <4>2, <4>3
      <3>4. now' \in Nat /\ now <= now' BY <3>1 DEF RateInv
      <3>5. \A d \in Clients : RateOf(d)' BY <3>1, <3>3, <3>4, UncheckedKeeps
      <3> QED BY <3>1, <3>2, <3>4, <3>5 DEF RateInv
    <2>3. CASE \/ Connect(c) \/ RecvBinary(c) \/ Store(c) \/ StoreFails(c)
               \/ Enter(c) \/ Own(c) \/ History(c) \/ Leave(c) \/ Disown(c)
      BY <2>3, UnaskedKeeps DEF Threads
    <2> QED BY <1>3, <2>1, <2>2, <2>3 DEF Reader
  <1>4. ASSUME NEW c \in Clients, Disconnect(c) PROVE RateInv'
    <2>1. /\ dropping' = dropping \ {c} /\ limiter' = [limiter EXCEPT ![c] = None]
          /\ UNCHANGED <<pc, accepted, refused, drops, now, work>>
      BY <1>4 DEF Disconnect, threadVars
    <2>2. ASSUME NEW d \in Clients PROVE RateOf(d)'
      <3>1. CASE d = c BY <1>4, <3>1, DisconnectedKeeps
      <3>2. CASE d # c
        <4>1. RateTyped(d) BY DEF RateInv, RateOf
        <4>2. limiter'[d] = limiter[d] /\ (d \in dropping' <=> d \in dropping)
          BY <2>1, <3>2 DEF RateInv
        <4>3. DropsGrow(d) BY <2>1, <4>1, <4>2, ResetsTyped DEF DropsGrow, RateTyped, Resets
        <4>4. now' \in Nat /\ now <= now' BY <2>1 DEF RateInv
        <4> QED BY <2>1, <4>2, <4>3, <4>4, UncheckedKeeps
      <3> QED BY <3>1, <3>2
    <2> QED BY <2>1, <2>2 DEF RateInv
  <1>5. ASSUME NEW t \in Threads, Deliver(t) PROVE RateInv' BY <1>5, UnaskedKeeps
  <1> QED BY <1>1, <1>2, <1>3, <1>4, <1>5 DEF Next

\* The invariant of the rate limiter holds of every behaviour.
LEMMA AlwaysRate == Spec => []RateInv
  BY InitRate, NextKeepsRate, PTL DEF Spec

\* checkRateLimit lets no more than twice Requests messages of a connection
\* through in any span of WindowSize, and Requests more for each disconnect
\* that made its limiter anew.
THEOREM RateIsBounded == Spec => []RateBound
  <1>1. RateInv => RateBound
    <2> SUFFICES ASSUME RateInv, NEW c \in Clients, NEW t \in 0..work.time
                 PROVE  AcceptedIn(c, t, t + Window) <= (2 + drops[c]) * Requests
      BY DEF RateBound
    <2>1. t \in Nat BY MessagesAssumption DEF RateInv
    <2>2. Bounded(c, t) BY <2>1 DEF RateInv, RateOf
    <2> QED BY <2>2 DEF Bounded, AcceptedIn, Within, Times, Budget
  <1> QED BY <1>1, AlwaysRate, PTL

\* checkRateLimit refuses a message only if Requests messages of the
\* connection were handled less than WindowSize before.
THEOREM RefusalsHaveCause == Spec => []RefusedWithCause
  <1>1. RateInv => RefusedWithCause
    <2> SUFFICES ASSUME RateInv, NEW c \in Clients, NEW t \in 0..work.time, t \in refused[c]
                 PROVE  Cardinality({i \in DOMAIN accepted[c] :
                          accepted[c][i] <= t /\ t < accepted[c][i] + Window}) >= Requests
      BY DEF RefusedWithCause
    <2>1. t \in Nat /\ Window \in Nat BY MessagesAssumption DEF RateInv
    <2>2. Within(accepted[c], t - Window + 1, t + 1) >= Requests
      BY <2>1 DEF RateInv, RateOf, Caused
    <2>3. \A i \in DOMAIN accepted[c] : accepted[c][i] \in Nat
      BY DEF RateInv, RateOf, RateTyped
    <2>4. Times(accepted[c], t - Window + 1, t + 1) =
            {i \in DOMAIN accepted[c] : accepted[c][i] <= t /\ t < accepted[c][i] + Window}
      BY <2>1, <2>3 DEF Times
    <2> QED BY <2>2, <2>4 DEF Within
  <1> QED BY <1>1, AlwaysRate, PTL
=============================================================================
