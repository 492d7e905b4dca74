--------------------------- MODULE MCChatMessages ---------------------------
(* Workloads of ChatMessages for TLC. *)
EXTENDS ChatMessages

CONSTANTS c1, c2

Load(kinds, n1, n2, nf, fails, time) ==
  [kinds |-> kinds,
   messages |-> [t \in Threads |-> IF t = c1 THEN n1 ELSE IF t = c2 THEN n2 ELSE nf],
   fails |-> fails, time |-> time]

MCWorkloads ==
  { \* the rate limiter: one connection, with a disconnect that it survives
    Load({"leave"}, 5, 0, 0, 1, 3),
    \* uploads, in any order of metadata and binary messages, alone, with
    \* failing writes, and beside a client that joins
    Load({"file", "media", "binary"}, 5, 0, 0, 0, 0),
    Load({"file", "media", "binary"}, 3, 0, 0, 1, 0),
    Load({"file", "binary", "join"}, 2, 1, 0, 1, 0),
    \* joins and leaves beside messages, and files over HTTP
    Load({"message", "join", "leave"}, 2, 2, 0, 1, 0),
    Load({"message", "join", "leave"}, 1, 3, 0, 0, 2),
    Load({"message", "join"}, 2, 1, 1, 0, 0),
    Load({"join", "leave"}, 1, 2, 1, 1, 0) }
=============================================================================
