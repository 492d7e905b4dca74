------------------------------ MODULE WsFrames ------------------------------
(***************************************************************************)
(* What travels on a connection of package websocket (websocket.go), in    *)
(* one direction: goroutines that call WriteMessage, WriteFragmented and   *)
(* the control writes at one end, ReadMessage and readFrame at the other.  *)
(*                                                                         *)
(* A message is a sequence of units; a unit says whose it is, so that a    *)
(* message put together from two others is told apart.  writeFrame takes   *)
(* no lock: between its start and the end of its Write to the              *)
(* bufio.Writer (label "fill") and from there to the end of Flush (label   *)
(* "flush") other goroutines do the same.  The widths of the length fields *)
(* are constants.  The bytes are "wild" when two goroutines were in the    *)
(* bufio.Writer at once, which is a data race, or when the peer is not     *)
(* this library: the reader may then find any frame.  Masking, which the   *)
(* reader undoes, the compression of an end that negotiated it, and the    *)
(* end of the connection, which is in WsConn, are left out.                *)
(***************************************************************************)
EXTENDS Integers, Sequences, FiniteSets

CONSTANTS
  Writers, Pinger,                \* goroutines of the application; keep-alive
  Types, Sizes, FragmentSizes,    \* of the messages they write
  MaxWrites,                      \* bound on the calls of a goroutine
  MaxPayload7Bit, MaxPayload16Bit,
  WordBits,                       \* of the long length field
  MaxFrameSize, MaxMessageSize,   \* of the reader's Config
  Junk                            \* a unit that nobody wrote

Threads == Writers \cup {Pinger}

ASSUME FramesAssumption ==
  /\ Pinger \notin Writers
  /\ Types \subseteq {"text", "binary"}
  /\ Sizes \subseteq Nat /\ FragmentSizes \subseteq Nat \ {0}
  /\ MaxWrites \in Nat /\ WordBits \in Nat \ {0}
  /\ MaxPayload7Bit \in Nat /\ MaxPayload16Bit \in Nat /\ MaxPayload7Bit <= MaxPayload16Bit
  /\ \A n \in Sizes : n < 2 ^ (WordBits - 1) /\ n < 2 ^ WordBits
  /\ MaxFrameSize \in Nat /\ MaxMessageSize \in Nat

VARIABLES
  pc,       \* where a writing goroutine is
  call,     \* its call: kind, type, data, fragment size, position
  writes,   \* how many calls it has made
  buf,      \* frames in the bufio.Writer
  wire,     \* frames on their way
  werr,     \* the bufio.Writer keeps an error
  wild,     \* what comes next on the wire may be anything
  mtype,    \* ReadMessage: the type, "none" before the first frame
  mbuf,     \* ReadMessage: messageBuffer
  alloc,    \* the payload readFrame made last
  ended,    \* how the reader has ended: "no", "invalid", "large", "eof"
  \* For the properties only:
  due,      \* messages written and not yet returned by ReadMessage, in the
            \* order of their last frames
  wrong,    \* ReadMessage has returned something else
  mixed     \* a frame of WriteMessage or a control frame came between the
            \* fragments of a message: nothing is due any more

vars == <<pc, call, writes, buf, wire, werr, wild, mtype, mbuf, alloc, ended, due, wrong, mixed>>
readVars == <<mtype, mbuf, alloc, ended, wrong>>

NoCall == [kind |-> "none", type |-> "none", data |-> <<>>, size |-> 1, pos |-> 0]

Init ==
  /\ pc = [t \in Threads |-> "idle"]
  /\ call = [t \in Threads |-> NoCall]
  /\ writes = [t \in Threads |-> 0]
  /\ buf = <<>> /\ wire = <<>> /\ werr = FALSE /\ wild = FALSE
  /\ mtype = "none" /\ mbuf = <<>> /\ alloc = 0 /\ ended = "no"
  /\ due = <<>> /\ wrong = FALSE /\ mixed = FALSE

-----------------------------------------------------------------------------
(* The length of a payload in the header of a frame                        *)

Ext16 == MaxPayload7Bit + 1
Ext64 == MaxPayload7Bit + 2

\* Mutant of Length: the bound of the short form is off by one.
LengthOffByOne(n) ==
  IF n > MaxPayload16Bit THEN [code |-> Ext64, ext |-> n]
  ELSE IF n > MaxPayload7Bit + 1 THEN [code |-> Ext16, ext |-> n]
  ELSE [code |-> n, ext |-> 0]

Length(n) ==
  IF n > MaxPayload16Bit THEN [code |-> Ext64, ext |-> n % 2 ^ WordBits]
  ELSE IF n > MaxPayload7Bit THEN [code |-> Ext16, ext |-> n % (MaxPayload16Bit + 1)]
  ELSE [code |-> n, ext |-> 0]

\* The conversion of an unsigned word to a signed one.
Signed(n) == IF n >= 2 ^ (WordBits - 1) THEN n - 2 ^ WordBits ELSE n

\* payloadLen
PayloadLen(h) ==
  IF h.code = Ext64 THEN Signed(h.ext) ELSE IF h.code = Ext16 THEN h.ext ELSE h.code

\* The length fields there are.
Lengths ==
  [code : 0 .. MaxPayload7Bit, ext : {0}]
    \cup [code : {Ext16}, ext : 0 .. MaxPayload16Bit]
    \cup [code : {Ext64}, ext : 0 .. 2 ^ WordBits - 1]

Frame(fin, op, data) == [fin |-> fin, op |-> op, len |-> Length(Len(data)), data |-> data]

-----------------------------------------------------------------------------
(* The writing end                                                         *)

\* The units of the next message of t.
Data(t, n) == [i \in 1 .. n |-> <<t, writes[t] + 1, i>>]

Call(t, kind, type, data, size) ==
  /\ pc[t] = "idle" /\ writes[t] < MaxWrites /\ ~wild
  /\ pc' = [pc EXCEPT ![t] = "fill"]
  /\ call' = [call EXCEPT ![t] = [kind |-> kind, type |-> type, data |-> data,
                                  size |-> size, pos |-> 0]]
  /\ writes' = [writes EXCEPT ![t] = @ + 1]
  /\ UNCHANGED <<buf, wire, werr, wild, readVars, due, mixed>>

WriteMessage(t) ==
  \E type \in Types, n \in Sizes : Call(t, "message", type, Data(t, n), 1)

\* fragmentedWriteMu is free.
FragmentsFree == \A u \in Threads : call[u].kind # "fragmented"

\* Mutant of WriteFragmented: fragmentedWriteMu is not taken.
WriteFragmentedUnlocked(t) ==
  \E type \in Types, n \in Sizes \ {0}, k \in FragmentSizes :
    Call(t, "fragmented", type, Data(t, n), k)

\* A message of no bytes has no fragment: nothing is written.
WriteFragmented(t) ==
  /\ FragmentsFree
  /\ \E type \in Types, n \in Sizes \ {0}, k \in FragmentSizes :
       Call(t, "fragmented", type, Data(t, n), k)

\* WritePing, WritePong.
WriteControl(t) == Call(t, "control", "ping", <<>>, 1)

\* The end of the fragment that starts at the position of t's call.
FragmentEnd(t) ==
  LET end == call[t].pos + call[t].size
  IN  IF end > Len(call[t].data) THEN Len(call[t].data) ELSE end

Fragmented(t) == call[t].kind = "fragmented"

LastFrame(t) == ~Fragmented(t) \/ FragmentEnd(t) = Len(call[t].data)

\* Mutant of NextFrame: FIN is set only on a fragment that is not full.
NextFrameFin(t) ==
  IF Fragmented(t)
  THEN Frame(call[t].pos + call[t].size > Len(call[t].data),
             IF call[t].pos > 0 THEN "continuation" ELSE call[t].type,
             SubSeq(call[t].data, call[t].pos + 1, FragmentEnd(t)))
  ELSE Frame(TRUE, call[t].type, call[t].data)

NextFrame(t) ==
  IF Fragmented(t)
  THEN Frame(LastFrame(t), IF call[t].pos > 0 THEN "continuation" ELSE call[t].type,
             SubSeq(call[t].data, call[t].pos + 1, FragmentEnd(t)))
  ELSE Frame(TRUE, call[t].type, call[t].data)

\* Some of t's fragments are written, but not all.
MidMessage(t) ==
  /\ Fragmented(t)
  /\ call[t].pos > 0 \/ (pc[t] = "flush" /\ ~LastFrame(t))

\* writeFrame's Write: the frame is in the buffer.
Fill(t) ==
  /\ pc[t] = "fill" /\ ~werr
  /\ pc' = [pc EXCEPT ![t] = "flush"]
  /\ buf' = Append(buf, NextFrame(t))
  /\ mixed' = (mixed \/ (~Fragmented(t) /\ \E u \in Threads : MidMessage(u)))
  /\ due' = IF mixed' THEN <<>>
            ELSE IF LastFrame(t) /\ call[t].kind # "control"
            THEN Append(due, [type |-> call[t].type, data |-> call[t].data])
            ELSE due
  /\ UNCHANGED <<call, writes, wire, werr, wild, readVars>>

\* Two goroutines are in the bufio.Writer at once.  Frames are lost or
\* written twice, or their bytes are mixed, and the reader loses track: what
\* these and further calls write is among what it may find from then on.
Race(t) ==
  /\ pc[t] \in {"fill", "flush"}
  /\ \E u \in Threads \ {t} : pc[u] \in {"fill", "flush"}
  /\ wild' = TRUE
  /\ pc' = [v \in Threads |-> "idle"] /\ call' = [v \in Threads |-> NoCall]
  /\ buf' = <<>> /\ wire' = <<>> /\ due' = <<>>
  /\ UNCHANGED <<writes, werr, readVars, mixed>>

\* The call of t goes on with the next fragment, or returns.
GoOn(t) ==
  IF LastFrame(t)
  THEN /\ pc' = [pc EXCEPT ![t] = "idle"]
       /\ call' = [call EXCEPT ![t] = NoCall]
  ELSE /\ pc' = [pc EXCEPT ![t] = "fill"]
       /\ call' = [call EXCEPT ![t].pos = FragmentEnd(t)]

Flush(t) ==
  /\ pc[t] = "flush" /\ ~werr
  /\ wire' = wire \o buf
  /\ buf' = <<>>
  /\ GoOn(t)
  /\ UNCHANGED <<writes, werr, wild, readVars, due, mixed>>

\* The connection fails or the write deadline passes: a part of the buffer
\* may have been written.
FlushFails(t) ==
  /\ pc[t] = "flush" /\ ~werr
  /\ \E k \in 0 .. Len(buf) : wire' = wire \o SubSeq(buf, 1, k)
  /\ buf' = <<>>
  /\ werr' = TRUE
  /\ pc' = [pc EXCEPT ![t] = "idle"] /\ call' = [call EXCEPT ![t] = NoCall]
  /\ UNCHANGED <<writes, wild, readVars, due, mixed>>

\* A bufio.Writer that has failed keeps its error: every call returns it.
WriteFails(t) ==
  /\ pc[t] \in {"fill", "flush"} /\ werr
  /\ pc' = [pc EXCEPT ![t] = "idle"] /\ call' = [call EXCEPT ![t] = NoCall]
  /\ UNCHANGED <<writes, buf, wire, werr, wild, readVars, due, mixed>>

\* The peer is another implementation, which sends any frames.
ForeignPeer ==
  /\ ~wild /\ \A t \in Threads : writes[t] = 0
  /\ wild' = TRUE
  /\ UNCHANGED <<pc, call, writes, buf, wire, werr, readVars, due, mixed>>

-----------------------------------------------------------------------------
(* The reading end: ReadMessage is called again as soon as it returns.     *)

\* The reader has frame f before it.
Arrived(f) ==
  /\ ended = "no"
  /\ IF wild THEN UNCHANGED wire
     ELSE wire # <<>> /\ f = Head(wire) /\ wire' = Tail(wire)
  /\ UNCHANGED <<pc, call, writes, buf, werr, wild, mixed>>

\* The frames that can be before it.
Arriving ==
  IF wild
  THEN UNION {[fin : BOOLEAN, op : {"text", "continuation", "ping", "reserved"}, len : {h},
               data : {[i \in 1 .. PayloadLen(h) |-> Junk]}] : h \in Lengths}
  ELSE {wire[i] : i \in 1 .. Len(wire)}

\* Where the next ReadMessage starts.
Restart == mtype' = "none" /\ mbuf' = <<>>

\* ReadMessage returns an error: messageBuffer stays as it is.
ReadFails(how) == ended' = how /\ UNCHANGED <<mtype, mbuf, due, wrong>>

\* The checks of readFrame on a header.
Accepted(f) == f.op # "reserved" /\ PayloadLen(f.len) <= MaxFrameSize

\* make([]byte, payloadLen), if it is positive.
Payload(f) ==
  IF PayloadLen(f.len) > 0 THEN [size |-> PayloadLen(f.len), data |-> f.data]
  ELSE [size |-> 0, data |-> <<>>]

FrameRejected(f) ==
  /\ Arrived(f) /\ ~Accepted(f)
  /\ ReadFails(IF f.op = "reserved" THEN "invalid" ELSE "large")
  /\ UNCHANGED alloc

\* A control frame is returned at once; what was read of a message is
\* dropped when ReadMessage is called again.
ReadControl(f) ==
  /\ Arrived(f) /\ Accepted(f) /\ f.op = "ping"
  /\ Restart
  /\ alloc' = Payload(f).size
  /\ UNCHANGED <<ended, due, wrong>>

\* A continuation without a first frame.
ReadStray(f) ==
  /\ Arrived(f) /\ Accepted(f) /\ f.op = "continuation" /\ mtype = "none"
  /\ ReadFails("invalid")
  /\ alloc' = Payload(f).size

\* Mutant of TooLarge: the size is looked at when the message is complete.
TooLargeAtEnd(data, fin) == fin /\ Len(data) > MaxMessageSize

TooLarge(data, fin) == Len(data) > MaxMessageSize

\* ReadMessage returns message m.
Returned(m) ==
  IF mixed \/ wild THEN UNCHANGED <<due, wrong>>
  ELSE IF due = <<>> THEN wrong' = TRUE /\ UNCHANGED due
  ELSE wrong' = (wrong \/ m # Head(due)) /\ due' = Tail(due)

\* A data frame, the first or a further one: its payload is appended to
\* messageBuffer, and then the size is looked at.
ReadData(f) ==
  /\ Arrived(f) /\ Accepted(f) /\ f.op # "ping" /\ (f.op = "continuation" => mtype # "none")
  /\ alloc' = Payload(f).size
  /\ LET type == IF f.op = "continuation" THEN mtype ELSE f.op
         data == mbuf \o Payload(f).data
     IN  \/ /\ TooLarge(data, f.fin)
            /\ mtype' = type /\ mbuf' = data
            /\ ended' = "large"
            /\ UNCHANGED <<due, wrong>>
         \/ /\ ~TooLarge(data, f.fin) /\ f.fin
            /\ Restart
            /\ Returned([type |-> type, data |-> data])
            /\ UNCHANGED ended
         \/ /\ ~TooLarge(data, f.fin) /\ ~f.fin
            /\ mtype' = type /\ mbuf' = data
            /\ UNCHANGED <<ended, due, wrong>>

\* Nothing more comes after a failed write: the connection is closed, or
\* the read deadline passes.
ReadEOF ==
  /\ ended = "no" /\ wire = <<>> /\ werr
  /\ ReadFails("eof")
  /\ UNCHANGED <<pc, call, writes, buf, wire, werr, wild, alloc, mixed>>

-----------------------------------------------------------------------------
WriterStep(t) == Fill(t) \/ Flush(t) \/ FlushFails(t) \/ WriteFails(t)

ReaderStep ==
  \/ \E f \in Arriving : FrameRejected(f) \/ ReadControl(f) \/ ReadStray(f) \/ ReadData(f)
  \/ ReadEOF

\* Nobody writes any more, and there is nothing to read.
Idle == (ended # "no" \/ wire = <<>>) /\ (\A t \in Threads : pc[t] = "idle") /\ UNCHANGED vars

Next ==
  \/ \E t \in Writers : WriteMessage(t) \/ WriteFragmented(t)
  \/ WriteControl(Pinger)
  \/ \E t \in Threads : WriterStep(t) \/ Race(t)
  \/ ForeignPeer \/ ReaderStep \/ Idle

Spec == Init /\ [][Next]_vars

\* Goroutines that can run do run.
Fairness == WF_vars(ReaderStep) /\ \A t \in Threads : WF_vars(WriterStep(t))

FairSpec == Spec /\ Fairness

-----------------------------------------------------------------------------
(* Properties                                                              *)

\* What the reader does not take.
Oversized(data) == Len(data) > MaxMessageSize \/ Len(data) > MaxFrameSize

\* ReadMessage returns the messages that were written, whole, with their
\* types and in their order, however WriteMessage, WriteFragmented and the
\* keep-alive take turns, until another call's frame comes between the
\* fragments of a message or two goroutines are in the bufio.Writer at once.
\* (The code prevents neither; it does keep two WriteFragmented apart.)
MessagesIntact == ~wrong

\* As long as no other call's frame (a ping of the keep-alive is one) came
\* between the fragments of a message, no two goroutines wrote at once, the
\* peer is this library and no write has failed, the reader breaks the
\* connection only for a message over its limits, which the writer is not
\* told of.
OnlyLimitsBreak ==
  ended \in {"invalid", "large"} =>
    \/ mixed \/ wild \/ werr
    \/ /\ ended = "large"
       /\ \/ \E i \in 1 .. Len(due) : Oversized(due[i].data)
          \/ \E t \in Threads : Oversized(call[t].data)

\* The reader makes no payload of more than MaxFrameSize, nor of a negative
\* size, whatever a length field says.  A message grows over MaxMessageSize
\* by one frame at most, since a payload is appended before the size is
\* looked at, and the connection has then ended: no fragments to come can
\* make the buffer grow further.
LimitsHold ==
  /\ alloc \in 0 .. MaxFrameSize
  /\ Len(mbuf) > MaxMessageSize => ended = "large"
  /\ Len(mbuf) <= MaxMessageSize + MaxFrameSize

\* Every message that is written is read in the end, unless the connection
\* fails, frames mix or a message is over the limits.
SentArrives == due # <<>> ~> due = <<>> \/ werr \/ ended # "no"

=============================================================================
