--------------------------- MODULE WsServerProofs ---------------------------
(***************************************************************************)
(* Proofs about WsServer for any number of connections, rooms, maps and    *)
(* goroutines that broadcast: BroadcastReaches.                            *)
(*                                                                         *)
(* A broadcast ranges over the map that was its room's when it started,    *)
(* while the room may lose that map and get another one.  The invariant    *)
(* therefore speaks of the map: it is the map of no other room, holds all  *)
(* who stayed and nobody who was never there, and of those who stayed      *)
(* exactly the ones that are not to come any more were written to.         *)
(***************************************************************************)
EXTENDS WsServer, TLAPS

\* The types of the rooms and of the broadcasts.
RoomsTyped ==
  /\ rooms \in [Rooms -> Maps \cup {None}]
  /\ maps \in [Maps -> SUBSET Conns]
  /\ member \in [Rooms -> SUBSET Conns]

CastsTyped ==
  /\ range \in [Casters -> Maps \cup {None}]
  /\ must \in [Casters -> SUBSET Conns] /\ seen \in [Casters -> SUBSET Conns]
  /\ stay \in [Casters -> SUBSET Conns] /\ ever \in [Casters -> SUBSET Conns]
  /\ sent \in [Casters -> [Conns -> 0 .. 2]]
  /\ DOMAIN of = Casters

\* No map is that of two rooms.
Distinct == \A r, q \in Rooms : rooms[r] = rooms[q] /\ rooms[r] # None => r = q

\* The map of a room holds those who have joined and not left.
Mirrored ==
  \A r \in Rooms : member[r] = IF rooms[r] = None THEN {} ELSE maps[rooms[r]]

\* A goroutine that does not broadcast has nothing left of an earlier call.
Resting(b) ==
  must[b] = {} /\ seen[b] = {} /\ stay[b] = {} /\ \A c \in Conns : sent[b][c] = 0

\* The map a broadcast ranges over: of its own room or of none any more,
\* with all who stayed, and nobody who was never in the room.
Ranging(b) ==
  /\ of[b] \in Rooms
  /\ \A r \in Rooms : rooms[r] = range[b] => r = of[b]
  /\ stay[b] \subseteq maps[range[b]] /\ maps[range[b]] \subseteq ever[b]

\* Who stayed is still to come, or has come and was written to once.
Served(b) ==
  \A c \in stay[b] :
    \/ c \in must[b] /\ c \notin seen[b] /\ sent[b][c] = 0
    \/ c \notin must[b] /\ c \in seen[b] /\ sent[b][c] = 1

Casting(b) ==
  /\ range[b] = None => Resting(b)
  /\ range[b] # None => Ranging(b)
  /\ Served(b)
  /\ \A c \in Conns : sent[b][c] > 0 => c \in ever[b]

\* The inductive invariant of the rooms.
RoomsInv ==
  RoomsTyped /\ CastsTyped /\ Distinct /\ Mirrored /\ \A b \in Casters : Casting(b)

\* What a step that leaves the rooms alone keeps.
LEMMA RoomsAlone ==
  ASSUME RoomsInv, UNCHANGED roomVars
  PROVE  RoomsInv'
  <1>1. /\ rooms' = rooms /\ maps' = maps /\ range' = range /\ must' = must /\ seen' = seen
        /\ member' = member /\ of' = of /\ stay' = stay /\ ever' = ever /\ sent' = sent
    BY DEF roomVars
  <1>2. RoomsTyped' /\ CastsTyped' /\ Distinct' /\ Mirrored'
    BY <1>1 DEF RoomsInv, RoomsTyped, CastsTyped, Distinct, Mirrored
  <1>3. \A b \in Casters : Casting(b)'
    BY <1>1 DEF RoomsInv, Casting, Resting, Ranging, Served
  <1> QED BY <1>2, <1>3 DEF RoomsInv

\* JoinRoom: the map of the room, or a new one, which nobody ranges over,
\* gets an entry, and so do the broadcasts to the room.
LEMMA JoinKeeps ==
  ASSUME RoomsInv, NEW r \in Rooms, NEW c \in Conns, JoinRoom(r, c)
  PROVE  RoomsInv'
  <1>0. RoomsTyped /\ CastsTyped /\ Distinct /\ Mirrored BY DEF RoomsInv
  <1>1. /\ range' = range /\ must' = must /\ seen' = seen /\ of' = of /\ stay' = stay /\ sent' = sent
        /\ member' = [member EXCEPT ![r] = @ \cup {c}]
        /\ ever' = [b \in Casters |-> IF of[b] = r THEN ever[b] \cup {c} ELSE ever[b]]
    BY DEF JoinRoom, Joined
  <1>2. PICK m \in Maps :
          /\ rooms' = [rooms EXCEPT ![r] = m]
          /\ maps' = [maps EXCEPT ![m] = member[r] \cup {c}]
          /\ (Fresh(m) /\ rooms[r] = None) \/ rooms[r] = m
    <2>1. CASE rooms[r] = None
      <3>1. member[r] = {} BY <1>0, <2>1 DEF Mirrored
      <3>2. PICK m \in Maps : Fresh(m) /\ Put(r, m, {c}) BY <2>1 DEF JoinRoom
      <3> QED BY <2>1, <3>1, <3>2 DEF Put
    <2>2. CASE rooms[r] # None
      <3>1. member[r] = maps[rooms[r]] BY <1>0, <2>2 DEF Mirrored
      <3>2. rooms[r] \in Maps BY <1>0, <2>2 DEF RoomsTyped
      <3>3. Put(r, rooms[r], maps[rooms[r]] \cup {c}) BY <2>2 DEF JoinRoom
      <3> QED BY <3>1, <3>2, <3>3 DEF Put
    <2> QED BY <2>1, <2>2
  <1>3. \A q \in Rooms \ {r} : rooms'[q] = rooms[q] /\ rooms[q] # m
    BY <1>0, <1>2, ServerAssumption DEF RoomsTyped, Distinct, Fresh
  <1>4. rooms'[r] = m /\ maps'[m] = member[r] \cup {c} /\ m # None
    BY <1>0, <1>2, ServerAssumption DEF RoomsTyped
  <1>5. RoomsTyped' /\ CastsTyped'
    BY <1>0, <1>1, <1>2 DEF RoomsTyped, CastsTyped
  <1>6. Distinct' BY <1>3, <1>4, <1>0 DEF Distinct
  <1>7. Mirrored'
    <2>1. ASSUME NEW q \in Rooms PROVE (member[q] = IF rooms[q] = None THEN {} ELSE maps[rooms[q]])'
      <3>1. CASE q = r BY <1>0, <1>1, <1>4, <3>1 DEF RoomsTyped
      <3>2. CASE q # r
        <4>1. member'[q] = member[q] /\ rooms'[q] = rooms[q] /\ rooms[q] # m
          BY <1>0, <1>1, <1>3, <3>2 DEF RoomsTyped
        <4>2. rooms[q] # None => maps'[rooms[q]] = maps[rooms[q]]
          BY <1>0, <1>2, <4>1 DEF RoomsTyped
        <4> QED BY <1>0, <4>1, <4>2 DEF Mirrored
      <3> QED BY <3>1, <3>2
    <2> QED BY <2>1 DEF Mirrored
  <1>8. ASSUME NEW b \in Casters PROVE Casting(b)'
    <2>0. Casting(b) /\ ever[b] \subseteq ever'[b] BY <1>0, <1>1 DEF RoomsInv, CastsTyped
    <2>1. (range[b] = None => Resting(b))' BY <1>1, <2>0 DEF Casting, Resting
    <2>2. Served(b)' BY <1>1, <2>0 DEF Casting, Served
    <2>3. (\A d \in Conns : sent[b][d] > 0 => d \in ever[b])' BY <1>1, <2>0 DEF Casting
    <2>4. ASSUME range[b] # None PROVE Ranging(b)'
      <3>0. Ranging(b) /\ range[b] \in Maps BY <1>0, <2>0, <2>4 DEF Casting, CastsTyped
      <3>1. CASE range[b] = m
        <4>1. rooms[r] = m /\ of[b] = r BY <1>2, <3>0, <3>1 DEF Fresh, Ranging
        <4>2. maps'[m] = maps[m] \cup {c} BY <1>0, <1>4, <4>1 DEF Mirrored
        <4>3. ever'[b] = ever[b] \cup {c} BY <1>1, <4>1
        <4>4. \A q \in Rooms : rooms'[q] = m => q = r BY <1>3
        <4> QED BY <1>1, <3>0, <3>1, <4>1, <4>2, <4>3, <4>4 DEF Ranging
      <3>2. CASE range[b] # m
        <4>1. maps'[range[b]] = maps[range[b]] BY <1>0, <1>2, <3>0, <3>2 DEF RoomsTyped
        <4>2. \A q \in Rooms : rooms'[q] = range[b] => q = of[b]
          BY <1>3, <1>4, <3>0, <3>2 DEF Ranging
        <4> QED BY <1>1, <2>0, <3>0, <4>1, <4>2 DEF Ranging
      <3> QED BY <3>1, <3>2
    <2> QED BY <1>1, <2>1, <2>2, <2>3, <2>4 DEF Casting
  <1> QED BY <1>5, <1>6, <1>7, <1>8 DEF RoomsInv

\* LeaveRoom: the entry goes from the map and from every range over it; who
\* leaves has not stayed.
LEMMA LeaveKeeps ==
  ASSUME RoomsInv, NEW r \in Rooms, NEW c \in Conns, LeaveRoom(r, c)
  PROVE  RoomsInv'
  <1>0. RoomsTyped /\ CastsTyped /\ Distinct /\ Mirrored BY DEF RoomsInv
  <1>1. /\ range' = range /\ of' = of /\ ever' = ever /\ sent' = sent
        /\ rooms[r] # None
        /\ maps' = [maps EXCEPT ![rooms[r]] = @ \ {c}]
        /\ rooms' = [rooms EXCEPT ![r] = IF maps[rooms[r]] \subseteq {c} THEN None ELSE rooms[r]]
        /\ member' = [member EXCEPT ![r] = @ \ {c}]
        /\ must' = [b \in Casters |-> IF range[b] = rooms[r] THEN must[b] \ {c} ELSE must[b]]
        /\ seen' = [b \in Casters |-> IF range[b] = rooms[r] THEN seen[b] \ {c} ELSE seen[b]]
        /\ stay' = [b \in Casters |-> IF of[b] = r THEN stay[b] \ {c} ELSE stay[b]]
    BY <1>0 DEF LeaveRoom, RoomsTyped
  <1> DEFINE m == rooms[r]
  <1>2. m \in Maps /\ member[r] = maps[m] BY <1>0, <1>1 DEF RoomsTyped, Mirrored
  <1>3. /\ \A q \in Rooms \ {r} : rooms'[q] = rooms[q] /\ rooms[q] # m
        /\ \A q \in Rooms : rooms'[q] # None => rooms'[q] = rooms[q]
    BY <1>0, <1>1 DEF RoomsTyped, Distinct
  <1>4. /\ maps'[m] = maps[m] \ {c}
        /\ \A n \in Maps \ {m} : maps'[n] = maps[n]
    BY <1>0, <1>1, <1>2 DEF RoomsTyped
  <1>5. RoomsTyped' /\ CastsTyped'
    BY <1>0, <1>1, <1>2 DEF RoomsTyped, CastsTyped
  <1>6. Distinct' BY <1>3, <1>0 DEF Distinct
  <1>7. Mirrored'
    <2>1. ASSUME NEW q \in Rooms PROVE (member[q] = IF rooms[q] = None THEN {} ELSE maps[rooms[q]])'
      <3>1. CASE q = r
        <4>1. member'[r] = maps[m] \ {c} BY <1>0, <1>1, <1>2 DEF RoomsTyped
        <4>2. rooms'[r] = IF maps[m] \subseteq {c} THEN None ELSE m BY <1>0, <1>1 DEF RoomsTyped
        <4> QED BY <1>1, <1>4, <3>1, <4>1, <4>2
      <3>2. CASE q # r
        <4>1. member'[q] = member[q] /\ rooms'[q] = rooms[q] /\ rooms[q] # m
          BY <1>0, <1>1, <1>3, <3>2 DEF RoomsTyped
        <4>2. rooms[q] # None => maps'[rooms[q]] = maps[rooms[q]]
          BY <1>0, <1>4, <4>1 DEF RoomsTyped
        <4> QED BY <1>0, <4>1, <4>2 DEF Mirrored
      <3> QED BY <3>1, <3>2
    <2> QED BY <2>1 DEF Mirrored
  <1>8. ASSUME NEW b \in Casters PROVE Casting(b)'
    <2>0. Casting(b) BY DEF RoomsInv
    <2>1. ASSUME range[b] = None PROVE Resting(b)'
      BY <1>1, <2>0, <2>1 DEF Casting, Resting
    <2>2. (\A d \in Conns : sent[b][d] > 0 => d \in ever[b])' BY <1>1, <2>0 DEF Casting
    <2>3. ASSUME range[b] # None PROVE Ranging(b)'
      <3>0. Ranging(b) /\ range[b] \in Maps BY <1>0, <2>0, <2>3 DEF Casting, CastsTyped
      <3>1. \A q \in Rooms : rooms'[q] = range[b] => q = of[b] BY <1>3, <2>3, <3>0 DEF Ranging
      <3>2. CASE range[b] = m
        <4>1. of[b] = r /\ stay'[b] = stay[b] \ {c} BY <1>1, <3>0, <3>2 DEF Ranging
        <4> QED BY <1>1, <1>4, <3>0, <3>1, <3>2, <4>1 DEF Ranging
      <3>3. CASE range[b] # m
        <4>1. maps'[range[b]] = maps[range[b]] /\ stay'[b] \subseteq stay[b]
          BY <1>1, <1>4, <3>0, <3>3
        <4> QED BY <1>1, <3>0, <3>1, <4>1 DEF Ranging
      <3> QED BY <3>2, <3>3
    <2>4. Served(b)'
      <3>1. CASE range[b] = m
        <4>1. of[b] = r BY <1>1, <2>0, <3>1 DEF Casting, Ranging
        <4>2. stay'[b] = stay[b] \ {c} /\ must'[b] = must[b] \ {c} /\ seen'[b] = seen[b] \ {c}
          BY <1>1, <3>1, <4>1
        <4> QED BY <1>1, <2>0, <4>2 DEF Casting, Served
      <3>2. CASE range[b] # m
        <4>1. stay'[b] \subseteq stay[b] /\ must'[b] = must[b] /\ seen'[b] = seen[b]
          BY <1>1, <3>2
        <4> QED BY <1>1, <2>0, <4>1 DEF Casting, Served
      <3> QED BY <3>1, <3>2
    <2> QED BY <1>1, <2>1, <2>2, <2>3, <2>4 DEF Casting
  <1> QED BY <1>5, <1>6, <1>7, <1>8 DEF RoomsInv

\* A step of one broadcast leaves the others as they are.
LEMMA CastKeeps ==
  ASSUME RoomsInv, NEW b \in Casters, UNCHANGED <<rooms, maps, member>>, CastsTyped', Casting(b)',
         \A d \in Casters \ {b} :
           /\ range'[d] = range[d] /\ must'[d] = must[d] /\ seen'[d] = seen[d] /\ of'[d] = of[d]
           /\ stay'[d] = stay[d] /\ ever'[d] = ever[d] /\ sent'[d] = sent[d]
  PROVE  RoomsInv'
  <1>1. RoomsTyped' /\ Distinct' /\ Mirrored' BY DEF RoomsInv, RoomsTyped, Distinct, Mirrored
  <1>2. ASSUME NEW d \in Casters \ {b} PROVE Casting(d)'
    <2>1. Casting(d) BY DEF RoomsInv
    <2> QED BY <2>1 DEF Casting, Resting, Ranging, Served
  <1> QED BY <1>1, <1>2 DEF RoomsInv

\* BroadcastToRoom: at the start the map holds exactly the members.
LEMMA BroadcastKeeps ==
  ASSUME RoomsInv, NEW b \in Casters, NEW r \in Rooms, BroadcastToRoom(b, r)
  PROVE  RoomsInv'
  <1>0. RoomsTyped /\ CastsTyped /\ Distinct /\ Mirrored /\ Casting(b) BY DEF RoomsInv
  <1>1. /\ range[b] = None
        /\ range' = [range EXCEPT ![b] = rooms[r]]
        /\ must' = [must EXCEPT ![b] = IF rooms[r] = None THEN {} ELSE maps[rooms[r]]]
        /\ of' = [of EXCEPT ![b] = IF rooms[r] = None THEN None ELSE r]
        /\ stay' = [stay EXCEPT ![b] = member[r]]
        /\ ever' = [ever EXCEPT ![b] = member[r]]
        /\ rooms' = rooms /\ maps' = maps /\ member' = member /\ seen' = seen /\ sent' = sent
    BY DEF BroadcastToRoom
  <1>2. must' = [must EXCEPT ![b] = member[r]] BY <1>0, <1>1 DEF Mirrored
  <1>3. /\ range'[b] = rooms[r] /\ must'[b] = member[r] /\ stay'[b] = member[r]
        /\ ever'[b] = member[r] /\ (rooms[r] # None => of'[b] = r)
    BY <1>0, <1>1, <1>2 DEF CastsTyped
  <1>4. CastsTyped' BY <1>0, <1>1, <1>2 DEF RoomsTyped, CastsTyped
  <1>5. Resting(b) BY <1>0, <1>1 DEF Casting
  <1>6. Served(b)' BY <1>0, <1>1, <1>3, <1>5 DEF Served, Resting, RoomsTyped
  <1>7. (\A c \in Conns : sent[b][c] > 0 => c \in ever[b])' BY <1>1, <1>5 DEF Resting
  <1>8. ASSUME rooms[r] = None PROVE Resting(b)'
    BY <1>0, <1>1, <1>3, <1>5, <1>8 DEF Resting, Mirrored
  <1>9. ASSUME rooms[r] # None PROVE Ranging(b)'
    BY <1>0, <1>1, <1>3, <1>9 DEF Ranging, Mirrored, Distinct
  <1>10. Casting(b)' BY <1>3, <1>6, <1>7, <1>8, <1>9 DEF Casting
  <1> QED BY <1>0, <1>1, <1>4, <1>10, CastKeeps DEF CastsTyped

\* The range yields an entry: of those who stayed, one that is to come.
LEMMA CastNextKeeps ==
  ASSUME RoomsInv, NEW b \in Casters, CastNext(b)
  PROVE  RoomsInv'
  <1>0. RoomsTyped /\ CastsTyped /\ Casting(b) BY DEF RoomsInv
  <1>1. PICK c \in maps[range[b]] \ seen[b] :
          /\ must' = [must EXCEPT ![b] = @ \ {c}]
          /\ seen' = [seen EXCEPT ![b] = @ \cup {c}]
          /\ sent' = [sent EXCEPT ![b][c] = IF @ = 2 THEN 2 ELSE @ + 1]
    BY DEF CastNext
  <1>2. /\ range[b] # None
        /\ rooms' = rooms /\ maps' = maps /\ range' = range /\ member' = member /\ of' = of
        /\ stay' = stay /\ ever' = ever
    BY DEF CastNext
  <1>3. Ranging(b) /\ c \in Conns /\ c \in ever[b]
    BY <1>0, <1>1, <1>2 DEF Casting, Ranging, RoomsTyped, CastsTyped
  <1>4. /\ must'[b] = must[b] \ {c} /\ seen'[b] = seen[b] \cup {c}
        /\ sent'[b][c] = IF sent[b][c] = 2 THEN 2 ELSE sent[b][c] + 1
        /\ \A d \in Conns \ {c} : sent'[b][d] = sent[b][d]
    BY <1>0, <1>1, <1>3 DEF CastsTyped
  <1>5. sent' \in [Casters -> [Conns -> 0 .. 2]]
    <2>1. sent[b][c] \in 0 .. 2 BY <1>0, <1>3 DEF CastsTyped
    <2>2. (IF sent[b][c] = 2 THEN 2 ELSE sent[b][c] + 1) \in 0 .. 2 BY <2>1
    <2> QED BY <1>0, <1>1, <1>3, <2>2 DEF CastsTyped
  <1>6. CastsTyped' BY <1>0, <1>1, <1>2, <1>3, <1>5 DEF CastsTyped
  <1>7. Served(b)' BY <1>0, <1>1, <1>2, <1>4 DEF Casting, Served, CastsTyped
  <1>8. (\A d \in Conns : sent[b][d] > 0 => d \in ever[b])'
    BY <1>0, <1>2, <1>3, <1>4 DEF Casting
  <1>9. Ranging(b)' BY <1>2, <1>3 DEF Ranging
  <1>10. Casting(b)' BY <1>2, <1>7, <1>8, <1>9 DEF Casting
  <1> QED BY <1>0, <1>1, <1>2, <1>6, <1>10, CastKeeps DEF CastsTyped

\* The broadcast returns.
LEMMA CastEndsKeeps ==
  ASSUME RoomsInv, NEW b \in Casters, CastEnds(b)
  PROVE  RoomsInv'
  <1>0. RoomsTyped /\ CastsTyped /\ Casting(b) BY DEF RoomsInv
  <1>1. /\ must[b] = {}
        /\ range' = [range EXCEPT ![b] = None]
        /\ seen' = [seen EXCEPT ![b] = {}]
        /\ of' = [of EXCEPT ![b] = None]
        /\ stay' = [stay EXCEPT ![b] = {}]
        /\ ever' = [ever EXCEPT ![b] = {}]
        /\ sent' = [sent EXCEPT ![b] = [c \in Conns |-> 0]]
        /\ rooms' = rooms /\ maps' = maps /\ must' = must /\ member' = member
    BY DEF CastEnds
  <1>2. CastsTyped' BY <1>0, <1>1 DEF CastsTyped
  <1>3. /\ range'[b] = None /\ seen'[b] = {} /\ stay'[b] = {} /\ must'[b] = {}
        /\ \A c \in Conns : sent'[b][c] = 0
    BY <1>0, <1>1 DEF CastsTyped
  <1>4. Casting(b)' BY <1>3 DEF Casting, Resting, Served
  <1> QED BY <1>0, <1>1, <1>2, <1>4, CastKeeps DEF CastsTyped

\* Every step keeps the invariant.
LEMMA RoomsStep == RoomsInv /\ [Next]_vars => RoomsInv'
  <1> SUFFICES ASSUME RoomsInv, [Next]_vars PROVE RoomsInv' OBVIOUS
  <1>1. ASSUME NEW r \in Rooms, NEW c \in Conns, JoinRoom(r, c) PROVE RoomsInv'
    BY <1>1, JoinKeeps
  <1>2. ASSUME NEW r \in Rooms, NEW c \in Conns, LeaveRoom(r, c) PROVE RoomsInv'
    BY <1>2, LeaveKeeps
  <1>3. ASSUME NEW b \in Casters, NEW r \in Rooms, BroadcastToRoom(b, r) PROVE RoomsInv'
    BY <1>3, BroadcastKeeps
  <1>4. ASSUME NEW b \in Casters, CastNext(b) \/ CastEnds(b) PROVE RoomsInv'
    BY <1>4, CastNextKeeps, CastEndsKeeps
  <1>5. CASE Listen \/ ListenFails \/ Stop \/ StopPanics \/ RaceAbort \/ Crashed \/ UNCHANGED vars
    BY <1>5, RoomsAlone DEF Listen, ListenFails, Stop, StopPanics, RaceAbort, Crashed, vars
  <1>6. ASSUME NEW a \in Acceptors, AcceptorStep(a) \/ Accept(a) \/ AcceptError(a) PROVE RoomsInv'
    BY <1>6, RoomsAlone DEF AcceptorStep, AccSelect, AccLoad, AccLoadNil, AcceptClosed, Accept,
       AcceptError
  <1>7. ASSUME NEW c \in Conns, Dial(c) \/ Request(c) \/ ClientStep(c) \/ HandshakeStep(c)
        PROVE  RoomsInv'
    BY <1>7, RoomsAlone DEF Dial, Request, ClientStep, ConnectFails, ReadResponse,
       HandshakeStep, Upgrade, Refuse, UpgradeFails
  <1> QED BY <1>1, <1>2, <1>3, <1>4, <1>5, <1>6, <1>7 DEF Next

\* A broadcast that ends has written once to every connection that was in
\* the room from its start on, and to none that was never there, whatever
\* joins and leaves went on beside it.
THEOREM BroadcastDelivers == Spec => []BroadcastReaches
  <1>1. Init => RoomsInv
    <2> SUFFICES ASSUME Init PROVE RoomsInv OBVIOUS
    <2>1. RoomsTyped BY DEF Init, RoomsTyped
    <2>2. CastsTyped BY DEF Init, CastsTyped
    <2>3. Distinct /\ Mirrored BY DEF Init, Distinct, Mirrored
    <2>4. \A b \in Casters : Casting(b) BY DEF Init, Casting, Resting, Served
    <2> QED BY <2>1, <2>2, <2>3, <2>4 DEF RoomsInv
  <1>2. RoomsInv => BroadcastReaches
    BY DEF RoomsInv, BroadcastReaches, Casting, Served
  <1> QED BY <1>1, <1>2, RoomsStep, PTL DEF Spec

=============================================================================
