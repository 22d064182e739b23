------------------------------ MODULE Messages ------------------------------
(***************************************************************************)
(* The bodies of the messages between nodes: buffer::Buffer and the        *)
(* Marshal and Unmarshal of the types in api. A buffer is a sequence of    *)
(* items <<type, value>> in the order they were added. Get reads one at    *)
(* the offset: past the end the process exits, under another type it sees  *)
(* other bytes than were meant.                                            *)
(***************************************************************************)
EXTENDS Integers, Sequences

Fatal == "fatal"            \* LOG_FATAL: exit(1)
Garbage == "garbage"        \* bytes of something else

STATUS_SUCCESS == 0
STATUS_UNKNOWN_ERROR == 1

(* A string travels as its length and its characters.                      *)
AddString(s) == <<"string", s>>
Add(type, v) == <<type, v>>

Get(type, buffer, offset) ==
  IF offset > Len(buffer) THEN Fatal
  ELSE IF buffer[offset][1] = type THEN buffer[offset][2] ELSE Garbage

(* The same number of bytes, all zero: a buffer nothing was received into. *)
Default(type) ==
  CASE type = "string" -> ""
    [] type = "bool"   -> FALSE
    [] type = "state"  -> "PENDING"
    [] OTHER           -> 0
Zeroed(buffer) ==
  [k \in DOMAIN buffer |-> <<buffer[k][1], Default(buffer[k][1])>>]

-----------------------------------------------------------------------------
MarshalMetadata(m) ==
  <<AddString(m.job_name), AddString(m.file_name), Add("int", m.node_rank),
    AddString(m.iteration), Add("state", m.state), Add("size_t", m.size)>>

(* Faulty variant: the reader takes two fields in the other order.         *)
UnmarshalSwapped(b, at) ==
  [file_name |-> Get("string", b, at), job_name |-> Get("string", b, at + 1),
   node_rank |-> Get("int", b, at + 2), iteration |-> Get("string", b, at + 3),
   state |-> Get("state", b, at + 4), size |-> Get("size_t", b, at + 5)]

UnmarshalMetadata(b, at) ==
  [job_name |-> Get("string", b, at), file_name |-> Get("string", b, at + 1),
   node_rank |-> Get("int", b, at + 2), iteration |-> Get("string", b, at + 3),
   state |-> Get("state", b, at + 4), size |-> Get("size_t", b, at + 5)]

MarshalEntry(e) ==
  <<Add("size_t", e.address), Add("int", e.pid), Add("int", e.memfd)>>

UnmarshalEntry(b, at) ==
  [address |-> Get("size_t", b, at), pid |-> Get("int", b, at + 1),
   memfd |-> Get("int", b, at + 2)]

MarshalBackupRequest(r) ==
  MarshalMetadata(r.metadata) \o MarshalEntry(r.data_entry)
    \o <<Add("bool", r.only_metadata)>>

UnmarshalBackupRequest(b) ==
  [metadata |-> UnmarshalMetadata(b, 1), data_entry |-> UnmarshalEntry(b, 7),
   only_metadata |-> Get("bool", b, 10)]

MarshalBackupResponse(r) == <<Add("int", r.code)>>
UnmarshalBackupResponse(b) == [code |-> Get("int", b, 1)]

MarshalLoadRequest(r) ==
  MarshalMetadata(r.metadata) \o <<Add("bool", r.only_metadata)>>

UnmarshalLoadRequest(b) ==
  [metadata |-> UnmarshalMetadata(b, 1), only_metadata |-> Get("bool", b, 7)]

MarshalLoadResponse(r) ==
  MarshalMetadata(r.metadata) \o MarshalEntry(r.data_entry)
    \o <<Add("int", r.code)>>

UnmarshalLoadResponse(b) ==
  [metadata |-> UnmarshalMetadata(b, 1), data_entry |-> UnmarshalEntry(b, 7),
   code |-> Get("int", b, 10)]
=============================================================================
