----------------------------- MODULE EmitBuffer -----------------------------
(***************************************************************************)
(* The byte buffers that Socket.Emit and Socket.Ping take from             *)
(* internal/bpool.  emitData fills a buffer, returns a slice of it and, by *)
(* its deferred call, puts the buffer back; send then waits for the lock   *)
(* of the socket and writes the slice.  Ping keeps the buffer of every     *)
(* tick until it returns.                                                  *)
(*                                                                         *)
(* A payload is abstracted to two halves, the header (event name, type)    *)
(* and the data: filling and reading a buffer take a step for each half.   *)
(* All payloads fit the buffer, so that a reused buffer is overwritten in  *)
(* place.                                                                  *)
(***************************************************************************)
EXTENDS Naturals, FiniteSets

CONSTANTS
  Emitters,   \* goroutines in Socket.Emit: the hub and event handlers
  Pingers,    \* Ping goroutines
  Buffers,    \* addresses of ByteBuffers
  MaxTicks,   \* bound on the ticks of one Ping goroutine
  None

ASSUME BufferAssumption ==
  /\ Emitters \cap Pingers = {}
  /\ None \notin Buffers \cup Emitters \cup Pingers
  /\ MaxTicks \in Nat

Users == Emitters \cup Pingers

VARIABLES
  pc,       \* where a goroutine is
  slice,    \* the buffer whose bytes it has in hand, or None
  owned,    \* the buffers it got and has not put back
  pool,     \* the buffers in the sync.Pool
  head,     \* per buffer: whose payload the first half is
  data,     \* per buffer: whose payload the second half is
  wire      \* per goroutine: the halves of its last message on the connection

vars == <<pc, slice, owned, pool, head, data, wire>>

Init ==
  /\ pc = [u \in Users |-> "idle"]
  /\ slice = [u \in Users |-> None]
  /\ owned = [u \in Users |-> {}]
  /\ pool = {}
  /\ head = [b \in Buffers |-> None]
  /\ data = [b \in Buffers |-> None]
  /\ wire = [u \in Users |-> <<None, None>>]

Goto(u, label) == pc' = [pc EXCEPT ![u] = label]

\* Memory nobody refers to.
Fresh == {b \in Buffers : b \notin pool /\ \A u \in Users : b \notin owned[u] /\ slice[u] # b}

\* Mutant of Get: the buffer stays in the pool.
GetShared(u, b) ==
  /\ b \in pool \cup Fresh
  /\ owned' = [owned EXCEPT ![u] = @ \cup {b}]
  /\ slice' = [slice EXCEPT ![u] = b]
  /\ UNCHANGED pool

\* Pool.Get: any buffer of the pool, or a new one when sync.Pool has none
\* for this processor.
Get(u, b) ==
  /\ b \in pool \cup Fresh
  /\ owned' = [owned EXCEPT ![u] = @ \cup {b}]
  /\ slice' = [slice EXCEPT ![u] = b]
  /\ pool' = pool \ {b}

\* Pool.Put: back to the pool, or dropped when it has grown past maxSize.
Put(u, bs) ==
  /\ owned' = [owned EXCEPT ![u] = @ \ bs]
  /\ \E kept \in SUBSET bs : pool' = pool \cup kept

-----------------------------------------------------------------------------
(* What Emit and Ping have in common: fill a buffer, write it out          *)

Start(u) ==
  /\ pc[u] = "idle"
  /\ Cardinality(owned[u]) < MaxTicks \/ u \in Emitters
  /\ \E b \in Buffers : Get(u, b)
  /\ Goto(u, "fillhead")
  /\ UNCHANGED <<head, data, wire>>

FillHead(u) ==
  /\ pc[u] = "fillhead"
  /\ head' = [head EXCEPT ![slice[u]] = u]
  /\ Goto(u, "filldata")
  /\ UNCHANGED <<slice, owned, pool, data, wire>>

\* Mutant of FillData: Ping puts its buffer back before the write.
FillDataPuts(u) ==
  /\ pc[u] = "filldata"
  /\ data' = [data EXCEPT ![slice[u]] = u]
  /\ Put(u, {slice[u]})
  /\ Goto(u, "write")
  /\ UNCHANGED <<slice, head, wire>>

\* The last bytes are in.  emitData returns buf.Bytes() and its deferred Put
\* runs; Ping goes on with the buffer it owns.
FillData(u) ==
  /\ pc[u] = "filldata"
  /\ data' = [data EXCEPT ![slice[u]] = u]
  /\ IF u \in Emitters THEN Put(u, {slice[u]}) ELSE UNCHANGED <<owned, pool>>
  /\ Goto(u, "write")
  /\ UNCHANGED <<slice, head, wire>>

\* The lock was had and WriteMessage copies the slice out, the first half ...
WriteHead(u) ==
  /\ pc[u] = "write"
  /\ wire' = [wire EXCEPT ![u] = <<head[slice[u]], None>>]
  /\ Goto(u, "writedata")
  /\ UNCHANGED <<slice, owned, pool, head, data>>

\* ... and the second.
WriteData(u) ==
  /\ pc[u] = "writedata"
  /\ wire' = [wire EXCEPT ![u] = <<@[1], data[slice[u]]>>]
  /\ Goto(u, "sent")
  /\ UNCHANGED <<slice, owned, pool, head, data>>

\* Emit returns, Ping goes back to its select.
Again(u) ==
  /\ pc[u] = "sent"
  /\ slice' = [slice EXCEPT ![u] = None]
  /\ Goto(u, "idle")
  /\ UNCHANGED <<owned, pool, head, data, wire>>

\* tickerDone: Ping returns and runs one deferred Put per tick.
PingReturns(u) ==
  /\ pc[u] = "idle"
  /\ Put(u, owned[u])
  /\ Goto(u, "done")
  /\ UNCHANGED <<slice, head, data, wire>>

\* The garbage collector empties the pool of a buffer.
Collect(b) ==
  /\ b \in pool
  /\ pool' = pool \ {b}
  /\ UNCHANGED <<pc, slice, owned, head, data, wire>>

Next ==
  \/ \E u \in Users : \/ Start(u) \/ FillHead(u) \/ FillData(u)
                      \/ WriteHead(u) \/ WriteData(u) \/ Again(u)
  \/ \E u \in Pingers : PingReturns(u)
  \/ \E b \in Buffers : Collect(b)

Spec == Init /\ [][Next]_vars

-----------------------------------------------------------------------------
(* Properties                                                              *)

TypeOK ==
  /\ pc \in [Users -> {"idle", "fillhead", "filldata", "write", "writedata", "sent", "done"}]
  /\ slice \in [Users -> Buffers \cup {None}]
  /\ owned \in [Users -> SUBSET Buffers]
  /\ pool \in SUBSET Buffers
  /\ head \in [Buffers -> Users \cup {None}]
  /\ data \in [Buffers -> Users \cup {None}]
  /\ wire \in [Users -> (Users \cup {None}) \X (Users \cup {None})]

\* Between Get and Put a buffer has one owner, and is not in the pool: two
\* goroutines never fill the same buffer at once.
OwnedByOne ==
  /\ \A u, v \in Users : u # v => owned[u] \cap owned[v] = {}
  /\ \A u \in Users : owned[u] \cap pool = {}

\* The ticks of Ping arrive as they were written, whatever Emit does in the
\* meantime, since Ping puts no buffer back before it returns.
PingIntact == \A u \in Pingers : pc[u] = "sent" => wire[u] = <<u, u>>

\* pool.go: "ByteBuffer.B mustn't be touched after returning it to the pool.
\* Otherwise data races will occur."  What Emit writes to the connection is
\* what emitData built for it.
EmitIntact == \A u \in Emitters : pc[u] = "sent" => wire[u] = <<u, u>>

-----------------------------------------------------------------------------
(* Supporting invariant, for the proofs                                    *)

\* What a goroutine has done with the buffer it owns so far.
OwnerProgress ==
  \A u \in Users :
    /\ pc[u] \notin {"idle", "done"} => slice[u] \in Buffers
    /\ pc[u] \in {"fillhead", "filldata"} => slice[u] \in owned[u]
    /\ u \in Pingers =>
         /\ pc[u] \in {"write", "writedata"} => slice[u] \in owned[u]
         /\ pc[u] \in {"filldata", "write", "writedata"} => head[slice[u]] = u
         /\ pc[u] \in {"write", "writedata"} => data[slice[u]] = u
         /\ pc[u] = "writedata" => wire[u][1] = u
=============================================================================
