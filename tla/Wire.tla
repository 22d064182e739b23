-------------------------------- MODULE Wire --------------------------------
(***************************************************************************)
(* One backup or load per connection between a client node and a server    *)
(* node, at the level of the TCP stream, the RDMA handshake over it and    *)
(* the chunks moved by the network cards: ClientUtil::Backup and           *)
(* LoadRemote, Server::execute with handleBackup and handleLoad, and the   *)
(* RdmaCommunicator both sides use.                                        *)
(*                                                                         *)
(* A stream is a sequence of cells: the 8-byte size of a message, its      *)
(* body, the two parts of the handshake's connection data and the byte     *)
(* "Q". A message is written in one step, which loses nothing: a reset     *)
(* may still cut the stream between size and body.                         *)
(***************************************************************************)
EXTENDS Messages, FiniteSets

CONSTANTS
  Conns,        \* connections: one operation each
  Chunks,       \* sizes of the files, in units of RDMA_CHUNK_SIZE
  Ops,          \* the operations a connection may carry
  CqSize,       \* RDMA_CQ_SIZE, the capacity of the send queue
  NumNics,      \* cards per node
  Faults,       \* what may go wrong
  MaxFaults     \* bound: how often in a behaviour

Sides == {"client", "server"}
Peer(s) == IF s = "client" THEN "server" ELSE "client"
Kinds == {"backup", "meta", "load"}     \* meta: a backup with only_metadata
NICs == 1 .. NumNics

ASSUME WireAssumption ==
  /\ Chunks \subseteq Nat \ {0}
  /\ Ops \in [Conns -> SUBSET Kinds]
  /\ CqSize \in Nat \ {0}
  /\ NumNics \in Nat \ {0}
  /\ Faults \subseteq {"connect", "accept", "refuse", "alloc", "nic", "rdma",
                       "reset", "split"}
  /\ MaxFaults \in Nat

VARIABLES
  alive,                   \* the server process runs
  op, need,                \* the operation of a connection, chunks it moves
  pc,                      \* where client and server thread of it are
  sock,                    \* each side's socket
  routine, req, rsp,       \* what the server and the client decoded
  con_data,                \* parts of the peer's connection data read so far
  posted, polled, landed,  \* chunks: posted, completion polled, moved
  nic, busy_,              \* card of each communicator, counts per node
  accepted, queued,        \* requests agreed to, keys in the work queue
  result,                  \* what the caller was told
  faults                   \* failures so far

dataVars == <<posted, polled, landed>>
nicVars  == <<nic, busy_>>
msgVars  == <<op, need, routine, req, rsp>>
vars == <<alive, op, need, pc, sock, routine, req, rsp, con_data, posted, polled,
          landed, nic, busy_, accepted, queued, result, faults>>

None == [code |-> -1]                   \* nothing decoded yet
NoNic == 0
(* in: cells received and not read; fin: no more will come; err: the next  *)
(* call on an empty stream returns -1.                                     *)
Socket == [in |-> <<>>, fin |-> FALSE, err |-> FALSE]

Init ==
  /\ alive = TRUE
  /\ op = [c \in Conns |-> "none"]
  /\ need = [c \in Conns |-> 0]
  /\ pc = [c \in Conns |-> [s \in Sides |-> "idle"]]
  /\ sock = [c \in Conns |-> [s \in Sides |-> Socket]]
  /\ routine = [c \in Conns |-> 0]
  /\ req = [c \in Conns |-> None]
  /\ rsp = [c \in Conns |-> None]
  /\ con_data = [c \in Conns |-> [s \in Sides |-> <<>>]]
  /\ posted = [c \in Conns |-> 0]
  /\ polled = [c \in Conns |-> 0]
  /\ landed = [c \in Conns |-> 0]
  /\ nic = [c \in Conns |-> [s \in Sides |-> NoNic]]
  /\ busy_ = [s \in Sides |-> [n \in NICs |-> 0]]
  /\ accepted = {}
  /\ queued = {}
  /\ result = [c \in Conns |-> "none"]
  /\ faults = 0

Fail(kind) == kind \in Faults /\ faults < MaxFaults /\ faults' = faults + 1
Goes(c, s, l) == pc' = [pc EXCEPT ![c][s] = l]

-----------------------------------------------------------------------------
(* The two sockets k of a connection.                                      *)

(* write, send: a failure is an error code compared as an unsigned number, *)
(* so the caller always goes on; what is sent to a closed or reset peer is *)
(* lost, and a pending error is used up.                                   *)
Sent(k, s, cells) ==
  [k EXCEPT ![s].err = FALSE,
            ![Peer(s)].in = IF k[s].fin THEN @ ELSE @ \o cells]

(* Write: the size, then the body.                                         *)
Message(body) == <<<<"size", Len(body)>>, <<"body", body>>>>

Read1(k, s) == [k EXCEPT ![s].in = Tail(@)]
Read2(k, s) == [k EXCEPT ![s].in = Tail(Tail(@))]
ErrorSeen(k, s) == [k EXCEPT ![s].err = FALSE, ![s].in = <<>>]

(* shutdown and close: the peer reads what is on its way, then end of file.*)
Closed(k, s) == [k EXCEPT ![Peer(s)].fin = TRUE, ![s] = [Socket EXCEPT !.fin = TRUE]]

In(c, s) == sock[c][s].in
AtEnd(c, s) == sock[c][s].fin \/ sock[c][s].err

(* RdmaCommunicator::Read has a message for its caller...                  *)
HasMessage(c, s) == Len(In(c, s)) >= 2 /\ In(c, s)[1][1] = "size"
Received(c, s) == In(c, s)[2][2]
(* ... or recv fails between size and body: -1 as size_t is not <= 0, so   *)
(* Read returns true with the zeros its buffer was cleared with...         *)
BodyLost(c, s) ==
  Len(In(c, s)) = 1 /\ In(c, s)[1][1] = "size" /\ sock[c][s].err
(* ... or the end comes first, or an error before the size: false...       *)
NothingToRead(c, s) ==
  /\ AtEnd(c, s)
  /\ \/ In(c, s) = <<>>
     \/ In(c, s) = <<<<"con", "Q">>>>
     \/ Len(In(c, s)) = 1 /\ In(c, s)[1][1] = "size" /\ ~sock[c][s].err
(* ... or what it takes for a size is the address of a region: Realloc     *)
(* cannot serve it and the process exits.                                  *)
HugeSize(c, s) == In(c, s) # <<>> /\ Head(In(c, s)) = <<"con", "addr">>

-----------------------------------------------------------------------------
(* A communicator is constructed and destroyed.                            *)

(* The first idle card, else the first of the least busy.                  *)
ChooseNic(busy) ==
  CHOOSE n \in NICs : \A m \in NICs : busy[n] < busy[m] \/ (busy[n] = busy[m] /\ n <= m)

Construct(c, s) ==
  LET n == ChooseNic(busy_[s]) IN
  /\ nic' = [nic EXCEPT ![c][s] = n]
  /\ busy_' = [busy_ EXCEPT ![s][n] = @ + 1]

(* Faulty variant: the card is not given back.                             *)
DestroyKeepsNic(c, s) ==
  /\ nic' = [nic EXCEPT ![c][s] = NoNic]
  /\ UNCHANGED busy_

Destroy(c, s) ==
  /\ busy_' = [busy_ EXCEPT ![s][nic[c][s]] = @ - 1]
  /\ nic' = [nic EXCEPT ![c][s] = NoNic]

(* The client's operation returns: its communicator goes out of scope.     *)
Return(c, k, r) ==
  /\ result' = [result EXCEPT ![c] = r]
  /\ Goes(c, "client", "returned")
  /\ sock' = [sock EXCEPT ![c] = Closed(k, "client")]
  /\ Destroy(c, "client")

(* exit(1) on the server: every thread ends; the kernel closes the sockets *)
(* and resets those with unread input.                                     *)
ServerExits ==
  /\ alive' = FALSE
  /\ pc' = [c \in Conns |-> [pc[c] EXCEPT !["server"] = "dead"]]
  /\ sock' = [c \in Conns |->
       [sock[c] EXCEPT
         !["server"] = [Socket EXCEPT !.fin = TRUE],
         !["client"].fin = TRUE,
         !["client"].err = @ \/ pc[c]["server"] = "idle" \/ In(c, "server") # <<>>]]
  /\ nic' = [c \in Conns |-> [nic[c] EXCEPT !["server"] = NoNic]]
  /\ busy_' = [busy_ EXCEPT !["server"] = [n \in NICs |-> 0]]
  /\ UNCHANGED result

-----------------------------------------------------------------------------
(* The messages of an operation.                                           *)

Routine(kind) == IF kind = "load" THEN 2 ELSE 1
RoutineBody(kind) == <<Add("size_t", Routine(kind))>>

(* Metadata and entry of the connection's file.                            *)
Metadata(n) == [job_name |-> "job", file_name |-> "file", node_rank |-> 1,
                iteration |-> "1", state |-> "CACHED", size |-> n]
Entry == [address |-> 4096, pid |-> 7, memfd |-> 3]

Request(kind, n) ==
  IF kind = "load"
  THEN [metadata |-> Metadata(n), only_metadata |-> FALSE]
  ELSE [metadata |-> Metadata(n), data_entry |-> Entry,
        only_metadata |-> kind = "meta"]

RequestBody(kind, n) ==
  IF kind = "load" THEN MarshalLoadRequest(Request(kind, n))
                   ELSE MarshalBackupRequest(Request(kind, n))

ResponseBody(kind, n, code) ==
  IF kind = "load"
  THEN MarshalLoadResponse([metadata |-> Metadata(n), data_entry |-> Entry, code |-> code])
  ELSE MarshalBackupResponse([code |-> code])

Signal(kind) == IF kind = "load" THEN "R" ELSE "W"
Moves(kind, n) == IF kind = "meta" THEN 0 ELSE n

-----------------------------------------------------------------------------
(* Client: Backup and LoadRemote.                                          *)

(* The operation starts: its communicator is constructed.                  *)
Begin(c, kind, n) ==
  /\ op[c] = "none"
  /\ op' = [op EXCEPT ![c] = kind]
  /\ need' = [need EXCEPT ![c] = n]
  /\ Construct(c, "client")
  /\ Goes(c, "client", "connect")
  /\ UNCHANGED <<alive, sock, routine, req, rsp, con_data, dataVars, accepted, queued,
                 result, faults>>

(* Connect: into the server's backlog, or refused.                         *)
Connect(c) ==
  /\ pc[c]["client"] = "connect"
  /\ \/ /\ alive
        /\ pc' = [pc EXCEPT ![c]["client"] = "request", ![c]["server"] = "backlog"]
        /\ UNCHANGED <<sock, nicVars, result, faults>>
     \/ /\ \/ ~alive /\ UNCHANGED faults
           \/ Fail("connect")
        /\ Return(c, sock[c], "failed")
  /\ UNCHANGED <<alive, msgVars, con_data, dataVars, accepted, queued>>

SendRequest(c) ==
  /\ pc[c]["client"] = "request"
  /\ sock' = [sock EXCEPT ![c] =
       Sent(@, "client", Message(RoutineBody(op[c])) \o Message(RequestBody(op[c], need[c])))]
  /\ Goes(c, "client", "response")
  /\ UNCHANGED <<alive, msgVars, con_data, dataVars, nicVars, accepted, queued, result, faults>>

Decoded(kind, body) ==
  IF kind = "load" THEN UnmarshalLoadResponse(body) ELSE UnmarshalBackupResponse(body)

(* A response is decoded, or the zeros of one whose body was lost.         *)
ReadResponse(c) ==
  LET lost == BodyLost(c, "client")
      size == ResponseBody(op[c], need[c], STATUS_SUCCESS)
      r == Decoded(op[c], IF lost THEN Zeroed(size) ELSE Received(c, "client"))
      k == IF lost THEN ErrorSeen(sock[c], "client") ELSE Read2(sock[c], "client") IN
  /\ pc[c]["client"] = "response"
  /\ lost \/ HasMessage(c, "client")
  /\ rsp' = [rsp EXCEPT ![c] = r]
  /\ \/ /\ r.code # STATUS_SUCCESS
        /\ Return(c, k, "failed")
     \/ /\ r.code = STATUS_SUCCESS
        /\ op[c] = "meta"
        /\ Return(c, k, "ok")
     \/ /\ r.code = STATUS_SUCCESS
        /\ op[c] # "meta"
        /\ sock' = [sock EXCEPT ![c] = k]
        /\ Goes(c, "client", "prepare")
        /\ UNCHANGED <<nicVars, result>>
  /\ UNCHANGED <<alive, op, need, routine, req, con_data, dataVars, accepted, queued, faults>>

NoResponse(c) ==
  /\ pc[c]["client"] = "response"
  /\ NothingToRead(c, "client")
  /\ Return(c, sock[c], "failed")
  /\ UNCHANGED <<alive, msgVars, con_data, dataVars, accepted, queued, faults>>

-----------------------------------------------------------------------------
(* Both sides: the handshake.                                              *)

(* It fails: the client's operation ends, the server's handler returns to  *)
(* the loop of execute on the open connection.                             *)
HandshakeFails(c, s, k) ==
  \/ s = "client" /\ Return(c, k, "failed")
  \/ /\ s = "server"
     /\ Goes(c, s, "routine")
     /\ sock' = [sock EXCEPT ![c] = k]
     /\ UNCHANGED <<nicVars, result>>

(* A load whose response was lost has the size 0, which is not allocated.  *)
Unallocatable(c, s) ==
  s = "client" /\ op[c] = "load" /\ rsp[c].metadata.size = 0

(* Memory is allocated, or the entry's memfd resized; the queue pair is    *)
(* created, and the connection data written.                               *)
Prepare(c, s) ==
  /\ pc[c][s] = "prepare"
  /\ \/ /\ ~Unallocatable(c, s)
        /\ sock' = [sock EXCEPT ![c] = Sent(@, s, <<<<"con", "addr">>, <<"con", "keys">>>>)]
        /\ Goes(c, s, "sync")
        /\ UNCHANGED <<nicVars, result, faults>>
     \/ /\ \/ Unallocatable(c, s) /\ UNCHANGED faults
           \/ op[c] = (IF s = "server" THEN "backup" ELSE "load") /\ Fail("alloc")
           \/ Fail("nic")
        /\ HandshakeFails(c, s, sock[c])
  /\ UNCHANGED <<alive, msgVars, con_data, dataVars, accepted, queued>>

(* sock_sync_data reads until it has as many bytes as it wants. A second   *)
(* read starts at the front of the buffer again, and may swallow the       *)
(* peer's "Q".                                                             *)
SyncData(c, s) ==
  LET in == In(c, s) IN
  /\ pc[c][s] = "sync"
  /\ in # <<>>
  /\ \/ /\ con_data[c][s] = <<>>
        /\ Len(in) >= 2
        /\ con_data' = [con_data EXCEPT ![c][s] = <<in[1][2], in[2][2]>>]
        /\ sock' = [sock EXCEPT ![c] = Read2(@, s)]
        /\ Goes(c, s, "modify")
        /\ UNCHANGED faults
     \/ /\ con_data[c][s] = <<>>
        /\ \/ Len(in) = 1 /\ UNCHANGED faults
           \/ Fail("split")
        /\ con_data' = [con_data EXCEPT ![c][s] = <<in[1][2]>>]
        /\ sock' = [sock EXCEPT ![c] = Read1(@, s)]
        /\ UNCHANGED pc
     \/ /\ Len(con_data[c][s]) = 1
        /\ con_data' = [con_data EXCEPT ![c][s] = <<in[1][2], Garbage>>]
        /\ sock' = [sock EXCEPT ![c] = IF Len(in) = 1 THEN Read1(@, s) ELSE Read2(@, s)]
        /\ Goes(c, s, "modify")
        /\ UNCHANGED faults
  /\ UNCHANGED <<alive, msgVars, dataVars, nicVars, accepted, queued, result>>

(* Faulty variant: the server does not answer with its own "Q".            *)
ModifyQpSilent(c, s) ==
  /\ pc[c][s] = "modify"
  /\ sock' = [sock EXCEPT ![c] = IF s = "client" THEN Sent(@, s, <<<<"con", "Q">>>>) ELSE @]
  /\ Goes(c, s, "syncQ")
  /\ UNCHANGED <<alive, msgVars, con_data, dataVars, nicVars, accepted, queued, result, faults>>

(* The queue pair goes to INIT, RTR and RTS; then "Q" is written.          *)
ModifyQp(c, s) ==
  /\ pc[c][s] = "modify"
  /\ \/ /\ sock' = [sock EXCEPT ![c] = Sent(@, s, <<<<"con", "Q">>>>)]
        /\ Goes(c, s, "syncQ")
        /\ UNCHANGED <<nicVars, result, faults>>
     \/ Fail("nic") /\ HandshakeFails(c, s, sock[c])
  /\ UNCHANGED <<alive, msgVars, con_data, dataVars, accepted, queued>>

SyncQ(c, s) ==
  /\ pc[c][s] = "syncQ"
  /\ In(c, s) # <<>>
  /\ sock' = [sock EXCEPT ![c] = Read1(@, s)]
  /\ Goes(c, s, IF s = "client" THEN "transfer" ELSE "signal")
  /\ UNCHANGED <<alive, msgVars, con_data, dataVars, nicVars, accepted, queued, result, faults>>

(* read returns -1: the handshake fails. At end of file it returns 0, and  *)
(* the loop tries again for ever: no step.                                 *)
SyncError(c, s) ==
  /\ pc[c][s] \in {"sync", "syncQ"}
  /\ In(c, s) = <<>>
  /\ sock[c][s].err
  /\ HandshakeFails(c, s, ErrorSeen(sock[c], s))
  /\ UNCHANGED <<alive, msgVars, con_data, dataVars, accepted, queued, faults>>

-----------------------------------------------------------------------------
(* Client: rdma_write and rdma_read over the connected queue pairs.        *)

Size(c) == IF op[c] = "load" THEN rsp[c].metadata.size ELSE need[c]

(* Faulty variant: the capacity of the send queue is not respected.        *)
PostUnlimited(c) ==
  /\ pc[c]["client"] = "transfer"
  /\ posted[c] < Size(c)
  /\ posted' = [posted EXCEPT ![c] = @ + 1]
  /\ UNCHANGED <<alive, msgVars, pc, sock, con_data, polled, landed, nicVars, accepted,
                 queued, result, faults>>

(* All chunks are posted before the first completion is polled; a full     *)
(* send queue refuses the next one.                                        *)
Post(c) ==
  /\ pc[c]["client"] = "transfer"
  /\ posted[c] < Size(c)
  /\ \/ /\ posted[c] < CqSize
        /\ posted' = [posted EXCEPT ![c] = @ + 1]
        /\ UNCHANGED <<pc, sock, nicVars, result>>
     \/ /\ posted[c] = CqSize
        /\ Return(c, sock[c], "failed")
        /\ UNCHANGED posted
  /\ UNCHANGED <<alive, msgVars, con_data, polled, landed, accepted, queued, faults>>

(* Both queue pairs point at each other and the server's still exists.     *)
Linked(c) ==
  /\ \A s \in Sides : con_data[c][s] = <<"addr", "keys">>
  /\ pc[c]["server"] \in {"syncQ", "signal", "routine"}

(* The cards move the next chunk (external).                               *)
Land(c) ==
  /\ pc[c]["client"] = "transfer"
  /\ landed[c] < posted[c]
  /\ Linked(c)
  /\ landed' = [landed EXCEPT ![c] = @ + 1]
  /\ UNCHANGED <<alive, msgVars, pc, sock, con_data, posted, polled, nicVars,
                 accepted, queued, result, faults>>

(* Faulty variant: one completion too few is awaited.                      *)
AllPolledEarly(c) == posted[c] = Size(c) /\ polled[c] + 1 >= posted[c]

AllPolled(c) == posted[c] = Size(c) /\ polled[c] = posted[c]

(* Faulty variant: the state of the queue pair is not looked at.           *)
PollBlindly(c) ==
  /\ pc[c]["client"] = "transfer"
  /\ posted[c] = Size(c)
  /\ polled[c] < landed[c]
  /\ polled' = [polled EXCEPT ![c] = @ + 1]
  /\ UNCHANGED <<alive, msgVars, pc, sock, con_data, posted, landed, nicVars, accepted,
                 queued, result, faults>>

(* poll_completion: a good completion, a bad one, or an abnormal pair.     *)
Poll(c) ==
  /\ pc[c]["client"] = "transfer"
  /\ posted[c] = Size(c)
  /\ ~AllPolled(c)
  /\ \/ /\ polled[c] < landed[c]
        /\ polled' = [polled EXCEPT ![c] = @ + 1]
        /\ UNCHANGED <<pc, sock, nicVars, result, faults>>
     \/ /\ \/ Fail("rdma")
           \/ ~Linked(c) /\ polled[c] = landed[c] /\ UNCHANGED faults
        /\ Return(c, sock[c], "failed")
        /\ UNCHANGED polled
  /\ UNCHANGED <<alive, msgVars, con_data, posted, landed, accepted, queued>>

(* "W" or "R" is sent, whatever becomes of it, and the operation succeeds. *)
Finish(c) ==
  /\ pc[c]["client"] = "transfer"
  /\ AllPolled(c)
  /\ Return(c, Sent(sock[c], "client", Message(<<AddString(Signal(op[c]))>>)), "ok")
  /\ UNCHANGED <<alive, msgVars, con_data, dataVars, accepted, queued, faults>>

-----------------------------------------------------------------------------
(* Server: Serve, execute and the two handlers.                            *)

(* Serve takes a connection and starts a thread for it; accept failing     *)
(* gives the thread a null communicator.                                   *)
Accept(c) ==
  /\ pc[c]["server"] = "backlog"
  /\ \/ /\ Goes(c, "server", "routine")
        /\ Construct(c, "server")
        /\ UNCHANGED <<alive, sock, result, faults>>
     \/ Fail("accept") /\ ServerExits
  /\ UNCHANGED <<msgVars, con_data, dataVars, accepted, queued>>

(* execute reads a routine: known, or the thread leaves.                   *)
ReadRoutine(c) ==
  /\ pc[c]["server"] = "routine"
  /\ \/ /\ HasMessage(c, "server")
        /\ routine' = [routine EXCEPT ![c] = Get("size_t", Received(c, "server"), 1)]
        /\ sock' = [sock EXCEPT ![c] = Read2(@, "server")]
        /\ Goes(c, "server", "read")
        /\ UNCHANGED <<alive, nicVars, result>>
     \/ /\ NothingToRead(c, "server") \/ BodyLost(c, "server")
        /\ Goes(c, "server", "left")
        /\ sock' = [sock EXCEPT ![c] = Closed(@, "server")]
        /\ Destroy(c, "server")
        /\ UNCHANGED <<alive, routine, result>>
     \/ /\ HugeSize(c, "server")
        /\ ServerExits
        /\ UNCHANGED routine
  /\ UNCHANGED <<op, need, req, rsp, con_data, dataVars, accepted, queued, faults>>

(* A handler reads its request. The zeros of a lost one name no file,      *)
(* which Storage::Load does not survive.                                   *)
ReadRequest(c) ==
  /\ pc[c]["server"] = "read"
  /\ \/ /\ HasMessage(c, "server")
        /\ req' = [req EXCEPT ![c] =
             IF routine[c] = 2 THEN UnmarshalLoadRequest(Received(c, "server"))
                               ELSE UnmarshalBackupRequest(Received(c, "server"))]
        /\ sock' = [sock EXCEPT ![c] = Read2(@, "server")]
        /\ Goes(c, "server", "respond")
        /\ UNCHANGED <<alive, nicVars, result>>
     \/ /\ NothingToRead(c, "server")
        /\ Goes(c, "server", "routine")
        /\ sock' = [sock EXCEPT ![c] = ErrorSeen(@, "server")]
        /\ UNCHANGED <<alive, req, nicVars, result>>
     \/ /\ BodyLost(c, "server")
        /\ ServerExits
        /\ UNCHANGED req
  /\ UNCHANGED <<op, need, routine, rsp, con_data, dataVars, accepted, queued, faults>>

(* Enough memory, or a row and an entry to load: success, else an error.   *)
Respond(c) ==
  /\ pc[c]["server"] = "respond"
  /\ \/ /\ accepted' = accepted \cup {c}
        /\ sock' = [sock EXCEPT ![c] = Sent(@, "server",
             Message(ResponseBody(op[c], req[c].metadata.size, STATUS_SUCCESS)))]
        /\ Goes(c, "server", IF req[c].only_metadata THEN "queue" ELSE "prepare")
        /\ UNCHANGED faults
     \/ /\ ~req[c].only_metadata
        /\ Fail("refuse")
        /\ sock' = [sock EXCEPT ![c] = Sent(@, "server",
             Message(ResponseBody(op[c], req[c].metadata.size, STATUS_UNKNOWN_ERROR)))]
        /\ Goes(c, "server", "routine")
        /\ UNCHANGED accepted
  /\ UNCHANGED <<alive, msgVars, con_data, dataVars, nicVars, queued, result>>

(* The finish notification, none, or one that does not match: fatal.       *)
ReadSignal(c) ==
  /\ pc[c]["server"] = "signal"
  /\ \/ /\ HasMessage(c, "server")
        /\ Get("string", Received(c, "server"), 1) = Signal(op[c])
        /\ sock' = [sock EXCEPT ![c] = Read2(@, "server")]
        /\ Goes(c, "server", IF routine[c] = 1 THEN "queue" ELSE "routine")
        /\ UNCHANGED <<alive, nicVars, result>>
     \/ /\ NothingToRead(c, "server")
        /\ Goes(c, "server", "routine")
        /\ sock' = [sock EXCEPT ![c] = ErrorSeen(@, "server")]
        /\ UNCHANGED <<alive, nicVars, result>>
     \/ BodyLost(c, "server") /\ ServerExits
  /\ UNCHANGED <<msgVars, con_data, dataVars, accepted, queued, faults>>

(* The end of handleBackup: controller_->AddRateLimited.                   *)
AddKey(c) ==
  /\ pc[c]["server"] = "queue"
  /\ queued' = queued \cup {c}
  /\ Goes(c, "server", "routine")
  /\ UNCHANGED <<alive, msgVars, sock, con_data, dataVars, nicVars, accepted, result, faults>>

-----------------------------------------------------------------------------
(* The network resets a connection: each side still reads some of what was *)
(* under way, then an error, then end of file (external).                  *)
Reset(c) ==
  /\ \A s \in Sides : pc[c][s] \notin {"idle", "returned", "left", "dead"}
  /\ ~sock[c]["client"].fin /\ ~sock[c]["server"].fin
  /\ Fail("reset")
  /\ \E a \in 0 .. Len(In(c, "client")), b \in 0 .. Len(In(c, "server")) :
       LET After(s, n) == [in |-> SubSeq(In(c, s), 1, n), fin |-> TRUE, err |-> TRUE] IN
       sock' = [sock EXCEPT ![c] = [client |-> After("client", a), server |-> After("server", b)]]
  /\ UNCHANGED <<alive, msgVars, pc, con_data, dataVars, nicVars, accepted, queued, result>>

ClientStep(c) ==
  \/ Connect(c) \/ SendRequest(c) \/ ReadResponse(c) \/ NoResponse(c)
  \/ Post(c) \/ Poll(c) \/ Finish(c)

ServerStep(c) ==
  \/ Accept(c) \/ ReadRoutine(c) \/ ReadRequest(c) \/ Respond(c)
  \/ ReadSignal(c) \/ AddKey(c)

Handshake(c, s) ==
  Prepare(c, s) \/ SyncData(c, s) \/ ModifyQp(c, s) \/ SyncQ(c, s) \/ SyncError(c, s)

(* A step of a thread or of the cards.                                     *)
Progress(c) ==
  \/ ClientStep(c) \/ ServerStep(c) \/ Land(c)
  \/ \E s \in Sides : Handshake(c, s)

Next ==
  \E c \in Conns :
    \/ \E kind \in Ops[c], n \in Chunks : Begin(c, kind, n)
    \/ Progress(c)
    \/ Reset(c)

Spec == Init /\ [][Next]_vars

(* While some thread can go on, one does: threads and cards keep running.  *)
(* No operation goes round in circles, so nothing stronger is needed;      *)
(* operations are not owed, and neither are faults.                        *)
FairSpec == Spec /\ WF_vars(\E c \in Conns : Progress(c))

-----------------------------------------------------------------------------
ClientPCs == {"idle", "connect", "request", "response", "prepare", "sync",
              "modify", "syncQ", "transfer", "returned"}
ServerPCs == {"idle", "backlog", "routine", "read", "respond", "prepare", "sync",
              "modify", "syncQ", "signal", "queue", "left", "dead"}

(* Both ends of every connection keep their shape.                         *)
TypeOK ==
  /\ alive \in BOOLEAN
  /\ op \in [Conns -> Kinds \cup {"none"}]
  /\ need \in [Conns -> Chunks \cup {0}]
  /\ \A c \in Conns : pc[c]["client"] \in ClientPCs /\ pc[c]["server"] \in ServerPCs
  /\ \A c \in Conns : 0 <= polled[c] /\ polled[c] <= landed[c]
                      /\ landed[c] <= posted[c] /\ posted[c] <= CqSize
  /\ nic \in [Conns -> [Sides -> NICs \cup {NoNic}]]
  /\ accepted \subseteq Conns /\ queued \subseteq accepted
  /\ result \in [Conns -> {"none", "ok", "failed"}]
  /\ faults \in 0 .. MaxFaults

(* Seen from its callers the wire is a Transfer: success is reported, and  *)
(* a key queued on the server, only for a request the server agreed to and *)
(* data that has moved completely, whatever is cut, lost or refused.       *)
T == INSTANCE Transfer WITH
       Operations <- Conns, Sizes <- Chunks \cup {0}, moved <- landed,
       need <- [c \in Conns |-> Moves(op[c], need[c])]
Refinement == T!TransferSpec

(* The server acts only on the routine and the request that were sent, and *)
(* the client on the response, or on one whose body was lost.              *)
InStep ==
  \A c \in Conns :
    /\ req[c] # None => /\ routine[c] = Routine(op[c])
                        /\ req[c] = Request(op[c], need[c])
    /\ op[c] = "load" /\ posted[c] > 0 => rsp[c].metadata = Metadata(need[c])

(* Dead ends of a handshake: a side that reads at end of file again and    *)
(* again, or two sides that each wait for the other to write.              *)
Spins(c, s) == /\ pc[c][s] \in {"sync", "syncQ"}
               /\ In(c, s) = <<>> /\ sock[c][s].fin /\ ~sock[c][s].err
WaitsForever(c) ==
  /\ pc[c]["client"] \in {"sync", "syncQ"} /\ In(c, "client") = <<>>
  /\ pc[c]["server"] \in {"routine", "signal"}
  /\ In(c, "server") \in {<<>>, <<<<"con", "Q">>>>}
  /\ \A s \in Sides : ~AtEnd(c, s)

(* Every operation returns to its caller, and then the server's thread     *)
(* leaves and frees its queue pair and card: the handshake has no other    *)
(* dead ends than these two.                                               *)
Settles ==
  <>[](\A c \in Conns :
         /\ op[c] # "none" =>
              result[c] # "none" \/ Spins(c, "client") \/ WaitsForever(c)
         /\ result[c] # "none" =>
              pc[c]["server"] \in {"idle", "left", "dead"} \/ Spins(c, "server"))

(* Nothing spins or waits for ever unless something failed first.          *)
DeadEndNeedsFault ==
  (\E c \in Conns : WaitsForever(c) \/ \E s \in Sides : Spins(c, s)) => faults > 0

(* The counts of busy cards are those of the communicators that exist.     *)
NicBalanced ==
  \A s \in Sides, n \in NICs :
    busy_[s][n] = Cardinality({c \in Conns : nic[c][s] = n})
=============================================================================
