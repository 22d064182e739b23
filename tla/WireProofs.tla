----------------------------- MODULE WireProofs -----------------------------
(***************************************************************************)
(* Proofs about Wire, for any number of connections, cards, chunks and     *)
(* failures: Wire implements Transfer, no side acts on a message that was  *)
(* not sent, the counts of busy cards are exact, and the handshake comes   *)
(* to a dead end only after a failure.                                     *)
(***************************************************************************)
EXTENDS Wire, SequenceTheorems, FiniteSetTheorems, WellFoundedInduction, TLAPS

AddrCell == <<"con", "addr">>
KeysCell == <<"con", "keys">>
QCell == <<"con", "Q">>

(* What a stream may carry.                                                *)
Bodies ==
  {RoutineBody(k) : k \in Kinds}
    \cup {RequestBody(k, n) : k \in Kinds, n \in Chunks}
    \cup {ResponseBody(k, n, code) : k \in Kinds, n \in Chunks,
                                     code \in {STATUS_SUCCESS, STATUS_UNKNOWN_ERROR}}
    \cup {<<AddString(Signal(k))>> : k \in Kinds}
Cells == {AddrCell, KeysCell, QCell}
           \cup {<<"size", Len(b)>> : b \in Bodies} \cup {<<"body", b>> : b \in Bodies}
Values == {x[2] : x \in Cells} \cup {Garbage}
Sockets == [Sides -> [in : Seq(Cells), fin : BOOLEAN, err : BOOLEAN]]

StateTypeOK ==
  /\ alive \in BOOLEAN
  /\ op \in [Conns -> Kinds \cup {"none"}]
  /\ need \in [Conns -> Chunks \cup {0}]
  /\ pc \in [Conns -> [Sides -> ClientPCs \cup ServerPCs]]
  /\ sock \in [Conns -> Sockets]
  /\ DOMAIN routine = Conns /\ DOMAIN req = Conns /\ DOMAIN rsp = Conns
  /\ con_data \in [Conns -> [Sides -> Seq(Values)]]
  /\ posted \in [Conns -> Nat] /\ polled \in [Conns -> Nat] /\ landed \in [Conns -> Nat]
  /\ result \in [Conns -> {"none", "ok", "failed"}]
  /\ faults \in 0 .. MaxFaults
  /\ accepted \subseteq Conns /\ queued \subseteq accepted

Client(c) == pc[c]["client"]
Server(c) == pc[c]["server"]
Fin(c) == sock[c]["server"].fin
ConData(c) == con_data[c]["server"]

(* The server has not answered yet, or it has, and its thread still runs.  *)
Early(c) == \/ Server(c) \in {"idle", "backlog", "read", "respond"}
            \/ Server(c) = "routine" /\ req[c] = None
Late(c) == \/ Server(c) \in {"prepare", "sync", "modify", "syncQ", "signal", "queue"}
           \/ Server(c) = "routine" /\ req[c] # None

(* Where client and server are, and what they know.                        *)
Places(c) ==
  /\ Client(c) \in ClientPCs /\ Server(c) \in ServerPCs
  /\ op[c] = "none" <=> Client(c) = "idle"
  /\ op[c] # "none" => need[c] \in Chunks
  /\ result[c] = "none" <=> Client(c) # "returned"
  /\ req[c] # None => req[c] = Request(op[c], need[c]) /\ routine[c] = Routine(op[c])
  /\ Early(c) => /\ Client(c) \in {"idle", "connect", "request", "response", "returned"}
                 /\ In(c, "client") = <<>> /\ c \notin accepted /\ ConData(c) = <<>>
                 /\ req[c] # None <=> Server(c) = "respond"
  /\ Late(c) => req[c] # None
  /\ Client(c) \in {"idle", "connect", "request"} =>
       /\ In(c, "server") = <<>> /\ In(c, "client") = <<>>
       /\ req[c] = None /\ c \notin accepted /\ ConData(c) = <<>> /\ ~Late(c) /\ Server(c) # "read"
  /\ op[c] = "meta" => Client(c) \notin {"prepare", "sync", "modify", "syncQ", "transfer"}

(* A connection ends for both sides at once.                               *)
Ends(c) ==
  /\ sock[c]["client"].fin = sock[c]["server"].fin
  /\ \A s \in Sides : sock[c][s].err => Fin(c)
  /\ Client(c) = "returned" \/ Server(c) \in {"left", "dead"} => Fin(c)

(* The request as it arrives.                                              *)
RequestCells(c) ==
  <<<<"size", Len(RoutineBody(op[c]))>>, <<"body", RoutineBody(op[c])>>,
    <<"size", Len(RequestBody(op[c], need[c]))>>, <<"body", RequestBody(op[c], need[c])>>>>
Arrives(c) ==
  /\ Server(c) \in {"idle", "backlog"} \/ (Server(c) = "routine" /\ req[c] = None) =>
       /\ Len(In(c, "server")) <= 4
       /\ \A k \in 1 .. Len(In(c, "server")) : In(c, "server")[k] = RequestCells(c)[k]
  /\ Server(c) = "read" =>
       /\ routine[c] = Routine(op[c])
       /\ Len(In(c, "server")) <= 2
       /\ \A k \in 1 .. Len(In(c, "server")) : In(c, "server")[k] = RequestCells(c)[k + 2]
  /\ Server(c) = "respond" => In(c, "server") = <<>>

(* Everything has moved, and both queue pairs had the other's data.        *)
Moved(c) == /\ landed[c] = Moves(op[c], need[c])
            /\ ConData(c) = <<"addr", "keys">>

(* After the response the server finds on its stream what is left of the   *)
(* three cells the client's handshake writes, and a message behind them    *)
(* only when the client has finished; it never takes one for a routine.    *)
HandshakeCells == <<AddrCell, KeysCell, QCell>>
Written(c) == IF Client(c) \in {"syncQ", "transfer"} THEN 3 ELSE 2
Consumed(c) == IF Server(c) = "signal" THEN 3 ELSE Len(ConData(c))
Follows(c) ==
  LET I == In(c, "server")
      g == ConData(c) IN
  /\ Late(c) =>
       /\ \A k \in 1 .. Len(I) : I[k][1] = "size" =>
            Moved(c) /\ Client(c) = "returned" /\ Len(I) <= k + 1
       /\ Server(c) # "signal" /\ I # <<>> => I[1][1] # "size"
       /\ Server(c) = "prepare" => g = <<>>
       /\ Server(c) = "sync" => Len(g) <= 1
       /\ Server(c) \in {"modify", "syncQ", "signal"} => Len(g) = 2
       /\ Server(c) = "queue" => op[c] = "meta" \/ Client(c) = "returned"
  /\ Late(c) /\ ~Fin(c) =>
       /\ Client(c) \in {"response", "prepare"} => I = <<>> /\ g = <<>>
       /\ Client(c) \in {"sync", "modify", "syncQ", "transfer"}
            /\ (Len(g) = 2 => g[2] = "keys") =>
              /\ g # <<>> => g[1] = "addr"
              /\ Len(I) = Written(c) - Consumed(c)
              /\ \A k \in 1 .. Len(I) : I[k] = HandshakeCells[k + Consumed(c)]

(* The response as it arrives.                                             *)
Answers(c) ==
  LET J == In(c, "client") IN
  Client(c) = "response" =>
    /\ Len(J) >= 1 => J[1][1] = "size"
    /\ Len(J) >= 2 => \E code \in {STATUS_SUCCESS, STATUS_UNKNOWN_ERROR} :
                        J[2] = <<"body", ResponseBody(op[c], need[c], code)>>
    /\ Len(J) = 1 => Fin(c)
    /\ Late(c) /\ ~Fin(c) => Len(J) >= 2
    /\ op[c] = "meta" /\ Len(J) >= 1 => c \in accepted

(* What has moved, and who may say so.                                     *)
Data(c) ==
  /\ polled[c] <= landed[c] /\ landed[c] <= posted[c] /\ posted[c] <= CqSize
  /\ Client(c) \notin {"transfer", "returned"} => posted[c] = 0
  /\ op[c] = "meta" => posted[c] = 0
  /\ landed[c] > 0 => ConData(c) = <<"addr", "keys">>
  /\ ConData(c) # <<>> => c \in accepted
  /\ Server(c) \in {"prepare", "sync", "modify", "syncQ", "signal", "queue"} => c \in accepted
  /\ Server(c) = "queue" => landed[c] = Moves(op[c], need[c])
  /\ op[c] = "load" /\ Client(c) = "prepare" =>
       rsp[c].metadata.size = 0 \/ rsp[c].metadata = Metadata(need[c])
  /\ op[c] = "load" /\ (Client(c) \in {"sync", "modify", "syncQ", "transfer"} \/ posted[c] > 0) =>
       rsp[c].metadata = Metadata(need[c])

ConnInv(c) ==
  Places(c) /\ Ends(c) /\ Arrives(c) /\ Follows(c) /\ Answers(c) /\ Data(c)
WireInv == \A c \in Conns : ConnInv(c)

(* A communicator has a card from its construction to its destruction,     *)
(* and a count is that of the connections with the card.                   *)
HasNic(c, s) == pc[c][s] \notin {"idle", "backlog", "returned", "left", "dead"}
Holders(s, n) == {c \in Conns : nic[c][s] = n}
NicCount ==
  /\ nic \in [Conns -> [Sides -> NICs \cup {NoNic}]]
  /\ busy_ \in [Sides -> [NICs -> Nat]]
  /\ \A s \in Sides, n \in NICs :
       IsFiniteSet(Holders(s, n)) /\ busy_[s][n] = Cardinality(Holders(s, n))
NicInv ==
  /\ NicCount
  /\ \A c \in Conns, s \in Sides : nic[c][s] # NoNic <=> HasNic(c, s)
  /\ \A c \in Conns : Client(c) \in {"idle", "connect"} => Server(c) \in {"idle", "dead"}

-----------------------------------------------------------------------------
(* Sequences, messages and sockets.                                        *)

LEMMA TailFacts ==
  ASSUME NEW S, NEW t \in Seq(S), t # <<>>
  PROVE  /\ Tail(t) \in Seq(S) /\ Len(Tail(t)) = Len(t) - 1
         /\ \A k \in 1 .. Len(t) - 1 : Tail(t)[k] = t[k + 1]
  OBVIOUS

LEMMA Tail2Facts ==
  ASSUME NEW S, NEW t \in Seq(S), Len(t) >= 2
  PROVE  /\ Tail(Tail(t)) \in Seq(S) /\ Len(Tail(Tail(t))) = Len(t) - 2
         /\ \A k \in 1 .. Len(t) - 2 : Tail(Tail(t))[k] = t[k + 2]
<1> DEFINE u == Tail(t)
<1>1. /\ u \in Seq(S) /\ Len(u) = Len(t) - 1 /\ Len(t) \in Nat
      /\ \A k \in 1 .. Len(t) - 1 : u[k] = t[k + 1]
  BY TailFacts
<1> HIDE DEF u
<1>2. u # <<>>
  BY <1>1
<1>3. /\ Tail(u) \in Seq(S) /\ Len(Tail(u)) = Len(u) - 1
      /\ \A k \in 1 .. Len(u) - 1 : Tail(u)[k] = u[k + 1]
  BY <1>1, <1>2, TailFacts
<1>4. ASSUME NEW k \in 1 .. Len(t) - 2 PROVE Tail(u)[k] = t[k + 2]
  <2>1. k \in 1 .. Len(u) - 1 /\ k + 1 \in 1 .. Len(t) - 1 /\ (k + 1) + 1 = k + 2
    BY <1>1
  <2> QED
    BY <2>1, <1>1, <1>3
<1>5. /\ Tail(u) \in Seq(S) /\ Len(Tail(u)) = Len(t) - 2
      /\ \A k \in 1 .. Len(t) - 2 : Tail(u)[k] = t[k + 2]
  BY <1>1, <1>3, <1>4
<1> QED
  BY <1>5 DEF u

LEMMA ConcatFacts ==
  ASSUME NEW S, NEW t \in Seq(S), NEW u \in Seq(S)
  PROVE  /\ t \o u \in Seq(S) /\ Len(t \o u) = Len(t) + Len(u)
         /\ \A k \in 1 .. Len(t) : (t \o u)[k] = t[k]
         /\ \A k \in 1 .. Len(u) : (t \o u)[Len(t) + k] = u[k]
  OBVIOUS

LEMMA PrefixFacts ==
  ASSUME NEW S, NEW t \in Seq(S), NEW n \in 0 .. Len(t)
  PROVE  /\ SubSeq(t, 1, n) \in Seq(S) /\ Len(SubSeq(t, 1, n)) = n
         /\ \A k \in 1 .. n : SubSeq(t, 1, n)[k] = t[k]
  OBVIOUS

LEMMA ShortSequences ==
  ASSUME NEW S, NEW t \in Seq(S)
  PROVE  /\ Len(t) \in Nat /\ (t = <<>> <=> Len(t) = 0)
         /\ Len(t) = 1 => t = <<t[1]>>
         /\ Len(t) = 2 => t = <<t[1], t[2]>>
  OBVIOUS

-----------------------------------------------------------------------------
(* Encoding and decoding are inverse.                                      *)

LEMMA DecodeRoutine ==
  ASSUME NEW k \in Kinds
  PROVE  Get("size_t", RoutineBody(k), 1) = Routine(k)
  BY DEF Get, RoutineBody, Add

(* The ten items of a backup's request or a load's response.               *)
LEMMA TenItems ==
  ASSUME NEW n, NEW type, NEW v, type \in {"bool", "int"}
  PROVE  LET t == (MarshalMetadata(Metadata(n)) \o MarshalEntry(Entry)) \o <<Add(type, v)>> IN
         /\ UnmarshalMetadata(t, 1) = Metadata(n)
         /\ UnmarshalEntry(t, 7) = Entry
         /\ Get(type, t, 10) = v
<1> DEFINE t == (MarshalMetadata(Metadata(n)) \o MarshalEntry(Entry)) \o <<Add(type, v)>>
<1>1. /\ Len(t) = 10
      /\ t[1] = <<"string", "job">> /\ t[2] = <<"string", "file">> /\ t[3] = <<"int", 1>>
      /\ t[4] = <<"string", "1">> /\ t[5] = <<"state", "CACHED">> /\ t[6] = <<"size_t", n>>
      /\ t[7] = <<"size_t", 4096>> /\ t[8] = <<"int", 7>> /\ t[9] = <<"int", 3>>
      /\ t[10] = <<type, v>>
  BY DEF MarshalMetadata, MarshalEntry, Metadata, Entry, Add, AddString
<1> HIDE DEF t
<1>2. /\ Get("string", t, 1) = "job" /\ Get("string", t, 2) = "file" /\ Get("int", t, 3) = 1
      /\ Get("string", t, 4) = "1" /\ Get("state", t, 5) = "CACHED"
      /\ Get("size_t", t, 6) = n
  BY <1>1 DEF Get
<1>3. /\ Get("size_t", t, 7) = 4096 /\ Get("int", t, 8) = 7 /\ Get("int", t, 9) = 3
      /\ Get(type, t, 10) = v
  BY <1>1 DEF Get
<1>4. UnmarshalMetadata(t, 1) = Metadata(n)
  BY <1>2 DEF UnmarshalMetadata, Metadata
<1>5. UnmarshalEntry(t, 7) = Entry
  BY <1>3 DEF UnmarshalEntry, Entry
<1> QED
  BY <1>3, <1>4, <1>5 DEF t

LEMMA SevenItems ==
  ASSUME NEW n, NEW v
  PROVE  LET t == MarshalMetadata(Metadata(n)) \o <<Add("bool", v)>> IN
         UnmarshalMetadata(t, 1) = Metadata(n) /\ Get("bool", t, 7) = v
<1> DEFINE t == MarshalMetadata(Metadata(n)) \o <<Add("bool", v)>>
<1>1. /\ Len(t) = 7
      /\ t[1] = <<"string", "job">> /\ t[2] = <<"string", "file">> /\ t[3] = <<"int", 1>>
      /\ t[4] = <<"string", "1">> /\ t[5] = <<"state", "CACHED">> /\ t[6] = <<"size_t", n>>
      /\ t[7] = <<"bool", v>>
  BY DEF MarshalMetadata, Metadata, Add, AddString
<1> HIDE DEF t
<1>2. /\ Get("string", t, 1) = "job" /\ Get("string", t, 2) = "file" /\ Get("int", t, 3) = 1
      /\ Get("string", t, 4) = "1" /\ Get("state", t, 5) = "CACHED"
      /\ Get("size_t", t, 6) = n /\ Get("bool", t, 7) = v
  BY <1>1 DEF Get
<1>3. UnmarshalMetadata(t, 1) = Metadata(n)
  BY <1>2 DEF UnmarshalMetadata, Metadata
<1> QED
  BY <1>2, <1>3 DEF t

LEMMA DecodeRequest ==
  ASSUME NEW k \in Kinds, NEW n
  PROVE  /\ k = "load" => UnmarshalLoadRequest(RequestBody(k, n)) = Request(k, n)
         /\ k # "load" => UnmarshalBackupRequest(RequestBody(k, n)) = Request(k, n)
<1>1. CASE k = "load"
  <2>1. RequestBody(k, n) = MarshalMetadata(Metadata(n)) \o <<Add("bool", FALSE)>>
    BY <1>1 DEF RequestBody, Request, MarshalLoadRequest
  <2> QED
    BY <1>1, <2>1, SevenItems DEF UnmarshalLoadRequest, Request
<1>2. CASE k # "load"
  <2>1. RequestBody(k, n) = (MarshalMetadata(Metadata(n)) \o MarshalEntry(Entry))
                              \o <<Add("bool", k = "meta")>>
    BY <1>2 DEF RequestBody, Request, MarshalBackupRequest
  <2>2. /\ UnmarshalMetadata(RequestBody(k, n), 1) = Metadata(n)
        /\ UnmarshalEntry(RequestBody(k, n), 7) = Entry
        /\ Get("bool", RequestBody(k, n), 10) = (k = "meta")
    BY <2>1, TenItems
  <2> QED
    BY <1>2, <2>2 DEF UnmarshalBackupRequest, Request
<1> QED
  BY <1>1, <1>2

Codes == {STATUS_SUCCESS, STATUS_UNKNOWN_ERROR}

LEMMA DecodeResponse ==
  ASSUME NEW k \in Kinds, NEW n, NEW code \in Codes
  PROVE  /\ Decoded(k, ResponseBody(k, n, code)).code = code
         /\ k = "load" => Decoded(k, ResponseBody(k, n, code)).metadata = Metadata(n)
<1>1. CASE k = "load"
  <2>1. ResponseBody(k, n, code) = (MarshalMetadata(Metadata(n)) \o MarshalEntry(Entry))
                                     \o <<Add("int", code)>>
    BY <1>1 DEF ResponseBody, MarshalLoadResponse
  <2>2. /\ UnmarshalMetadata(ResponseBody(k, n, code), 1) = Metadata(n)
        /\ Get("int", ResponseBody(k, n, code), 10) = code
    BY <2>1, TenItems
  <2> QED
    BY <1>1, <2>2 DEF Decoded, UnmarshalLoadResponse
<1>2. CASE k # "load"
  BY <1>2 DEF Decoded, ResponseBody, UnmarshalBackupResponse, MarshalBackupResponse, Get, Add
<1> QED
  BY <1>1, <1>2

(* The zeros of a response whose body was lost have the size 0.            *)
LEMMA DecodeZeros ==
  ASSUME NEW n, NEW code
  PROVE  Decoded("load", Zeroed(ResponseBody("load", n, code))).metadata.size = 0
<1> DEFINE t == ResponseBody("load", n, code)
<1>1. t = (MarshalMetadata(Metadata(n)) \o MarshalEntry(Entry)) \o <<Add("int", code)>>
  BY DEF ResponseBody, MarshalLoadResponse
<1>2. Len(t) = 10 /\ DOMAIN t = 1 .. 10 /\ t[6] = <<"size_t", n>>
  BY <1>1 DEF MarshalMetadata, MarshalEntry, Metadata, Entry, Add, AddString
<1> HIDE DEF t
<1>3. Zeroed(t) \in Seq({Zeroed(t)[k] : k \in 1 .. 10}) /\ Len(Zeroed(t)) = 10
  BY <1>2 DEF Zeroed
<1>4. Zeroed(t)[6] = <<"size_t", 0>>
  <2>1. Default("size_t") = 0
    BY DEF Default
  <2>2. t[6][1] = "size_t"
    BY <1>2
  <2> QED
    BY <1>2, <2>1, <2>2 DEF Zeroed
<1>5. Get("size_t", Zeroed(t), 6) = 0
  BY <1>3, <1>4 DEF Get
<1> QED
  BY <1>5 DEF t, Decoded, UnmarshalLoadResponse, UnmarshalMetadata
-----------------------------------------------------------------------------
(* What a call does to the sockets of a connection.                        *)

LEMMA PeerFacts ==
  /\ Sides = {"client", "server"} /\ "client" # "server"
  /\ Peer("client") = "server" /\ Peer("server") = "client"
  /\ \A s \in Sides : Peer(s) \in Sides /\ Peer(s) # s
  BY DEF Sides, Peer

LEMMA SentEffect ==
  ASSUME NEW k \in Sockets, NEW s \in Sides, NEW cells \in Seq(Cells)
  PROVE  LET r == Sent(k, s, cells) IN
         /\ r \in Sockets
         /\ r[s].in = k[s].in
         /\ r[Peer(s)].in = IF k[s].fin THEN k[Peer(s)].in ELSE k[Peer(s)].in \o cells
         /\ \A t \in Sides : r[t].fin = k[t].fin /\ (r[t].err => k[t].err)
<1>1. Peer(s) \in Sides /\ Peer(s) # s
  BY PeerFacts
<1>2. k[Peer(s)].in \o cells \in Seq(Cells)
  BY <1>1 DEF Sockets
<1> QED
  BY <1>1, <1>2, ZenonT(60) DEF Sent, Sockets

LEMMA ClosedEffect ==
  ASSUME NEW k \in Sockets, NEW s \in Sides
  PROVE  LET r == Closed(k, s) IN
         /\ r \in Sockets
         /\ r[s].in = <<>> /\ r[Peer(s)].in = k[Peer(s)].in
         /\ r[s].fin /\ r[Peer(s)].fin
<1>1. Peer(s) \in Sides /\ Peer(s) # s
  BY PeerFacts
<1>2. <<>> \in Seq(Cells)
  OBVIOUS
<1> QED
  BY <1>1, <1>2 DEF Closed, Socket, Sockets

LEMMA Read1Effect ==
  ASSUME NEW k \in Sockets, NEW s \in Sides, k[s].in # <<>>
  PROVE  LET r == Read1(k, s) IN
         /\ r \in Sockets
         /\ r[s].in = Tail(k[s].in) /\ r[Peer(s)].in = k[Peer(s)].in
         /\ \A t \in Sides : r[t].fin = k[t].fin /\ r[t].err = k[t].err
<1>1. Peer(s) \in Sides /\ Peer(s) # s /\ Tail(k[s].in) \in Seq(Cells)
  BY PeerFacts, TailFacts DEF Sockets
<1> QED
  BY <1>1 DEF Read1, Sockets

LEMMA Read2Effect ==
  ASSUME NEW k \in Sockets, NEW s \in Sides, Len(k[s].in) >= 2
  PROVE  LET r == Read2(k, s) IN
         /\ r \in Sockets
         /\ r[s].in = Tail(Tail(k[s].in)) /\ r[Peer(s)].in = k[Peer(s)].in
         /\ \A t \in Sides : r[t].fin = k[t].fin /\ r[t].err = k[t].err
<1>1. Peer(s) \in Sides /\ Peer(s) # s /\ k[s].in \in Seq(Cells)
  BY PeerFacts DEF Sockets
<1>2. Tail(Tail(k[s].in)) \in Seq(Cells)
  BY <1>1, Tail2Facts
<1> QED
  BY <1>1, <1>2 DEF Read2, Sockets

LEMMA ErrorSeenEffect ==
  ASSUME NEW k \in Sockets, NEW s \in Sides
  PROVE  LET r == ErrorSeen(k, s) IN
         /\ r \in Sockets
         /\ r[s].in = <<>> /\ r[Peer(s)].in = k[Peer(s)].in
         /\ \A t \in Sides : r[t].fin = k[t].fin /\ (r[t].err => k[t].err)
<1>1. Peer(s) \in Sides /\ Peer(s) # s /\ <<>> \in Seq(Cells)
  BY PeerFacts
<1> QED
  BY <1>1 DEF ErrorSeen, Sockets

(* A message is two cells.                                                 *)
LEMMA MessageCells ==
  ASSUME NEW b \in Bodies
  PROVE  /\ Message(b) \in Seq(Cells) /\ Len(Message(b)) = 2
         /\ Message(b)[1] = <<"size", Len(b)>> /\ Message(b)[2] = <<"body", b>>
<1>1. <<"size", Len(b)>> \in Cells /\ <<"body", b>> \in Cells
  BY DEF Cells
<1> QED
  BY <1>1 DEF Message

LEMMA HandshakeInCells ==
  /\ <<AddrCell, KeysCell>> \in Seq(Cells) /\ <<QCell>> \in Seq(Cells)
  /\ Len(<<AddrCell, KeysCell>>) = 2 /\ Len(<<QCell>>) = 1
  /\ HandshakeCells[1] = AddrCell /\ HandshakeCells[2] = KeysCell /\ HandshakeCells[3] = QCell
  /\ AddrCell[1] = "con" /\ KeysCell[1] = "con" /\ QCell[1] = "con"
  /\ AddrCell[2] = "addr" /\ KeysCell[2] = "keys"
<1>1. AddrCell \in Cells /\ KeysCell \in Cells /\ QCell \in Cells
  BY DEF Cells
<1> QED
  BY <1>1 DEF HandshakeCells, AddrCell, KeysCell, QCell
-----------------------------------------------------------------------------
(* What a step leaves alone, and the invariant of connections it does not  *)
(* touch.                                                                  *)

Same(d) ==
  /\ pc'[d] = pc[d] /\ sock'[d] = sock[d] /\ op'[d] = op[d] /\ need'[d] = need[d]
  /\ routine'[d] = routine[d] /\ req'[d] = req[d] /\ rsp'[d] = rsp[d]
  /\ con_data'[d] = con_data[d] /\ result'[d] = result[d]
  /\ posted'[d] = posted[d] /\ polled'[d] = polled[d] /\ landed'[d] = landed[d]
  /\ d \in accepted' <=> d \in accepted
Others(c) == \A d \in Conns \ {c} : Same(d)

LEMMA SameView ==
  ASSUME NEW c \in Conns, Same(c)
  PROVE  /\ Client(c)' = Client(c) /\ Server(c)' = Server(c) /\ ConData(c)' = ConData(c)
         /\ Fin(c)' = Fin(c) /\ \A s \in Sides : In(c, s)' = In(c, s)
         /\ Early(c)' = Early(c) /\ Late(c)' = Late(c)
  BY DEF Same, Client, Server, ConData, Fin, In, Early, Late

LEMMA FrameKeeps ==
  ASSUME NEW c \in Conns, ConnInv(c), Same(c)
  PROVE  ConnInv(c)'
<1>0. "client" \in Sides /\ "server" \in Sides
  BY PeerFacts
<1>1. Places(c)'
  BY <1>0, SameView DEF ConnInv, Places, Same
<1>2. Ends(c)'
  BY <1>0, SameView DEF ConnInv, Ends, Same
<1>3. Arrives(c)'
  <2>1. RequestCells(c)' = RequestCells(c)
    BY DEF RequestCells, Same
  <2> QED
    BY <1>0, <2>1, SameView DEF ConnInv, Arrives, Same
<1>4. Follows(c)'
  <2>1. Moved(c)' = Moved(c) /\ Written(c)' = Written(c) /\ Consumed(c)' = Consumed(c)
    BY SameView DEF Moved, Written, Consumed, Same
  <2> QED
    BY <1>0, <2>1, SameView DEF ConnInv, Follows, Same
<1>5. Answers(c)'
  BY <1>0, SameView DEF ConnInv, Answers, Same
<1>6. Data(c)'
  BY <1>0, SameView DEF ConnInv, Data, Same
<1> QED
  BY <1>1, <1>2, <1>3, <1>4, <1>5, <1>6 DEF ConnInv

(* A thread goes to l, a connection's sockets become k.                    *)
LEMMA GoesEffect ==
  ASSUME StateTypeOK, NEW c \in Conns, NEW s \in Sides, NEW l \in ClientPCs \cup ServerPCs,
         Goes(c, s, l)
  PROVE  /\ pc' \in [Conns -> [Sides -> ClientPCs \cup ServerPCs]]
         /\ pc'[c][s] = l /\ pc'[c][Peer(s)] = pc[c][Peer(s)]
         /\ \A d \in Conns \ {c} : pc'[d] = pc[d]
<1>1. Peer(s) \in Sides /\ Peer(s) # s
  BY PeerFacts
<1> QED
  BY <1>1 DEF StateTypeOK, Goes

LEMMA SockEffect ==
  ASSUME StateTypeOK, NEW c \in Conns, NEW k \in Sockets, sock' = [sock EXCEPT ![c] = k]
  PROVE  /\ sock' \in [Conns -> Sockets]
         /\ \A s \in Sides : In(c, s)' = k[s].in
         /\ sock'[c] = k
         /\ \A d \in Conns \ {c} : sock'[d] = sock[d]
  BY DEF StateTypeOK, In

LEMMA SockTypes ==
  ASSUME StateTypeOK, NEW c \in Conns
  PROVE  /\ sock[c] \in Sockets
         /\ \A s \in Sides : /\ In(c, s) \in Seq(Cells) /\ sock[c][s].in = In(c, s)
                             /\ sock[c][s].fin \in BOOLEAN /\ sock[c][s].err \in BOOLEAN
  BY DEF StateTypeOK, Sockets, In

LEMMA ReturnEffect ==
  ASSUME StateTypeOK, NEW c \in Conns, NEW k \in Sockets, NEW r \in {"ok", "failed"},
         Return(c, k, r)
  PROVE  /\ pc' \in [Conns -> [Sides -> ClientPCs \cup ServerPCs]]
         /\ sock' \in [Conns -> Sockets] /\ result' \in [Conns -> {"none", "ok", "failed"}]
         /\ Client(c)' = "returned" /\ Server(c)' = Server(c) /\ result'[c] = r
         /\ In(c, "client")' = <<>> /\ In(c, "server")' = k["server"].in
         /\ sock'[c]["client"].fin /\ sock'[c]["server"].fin
         /\ \A d \in Conns \ {c} :
              pc'[d] = pc[d] /\ sock'[d] = sock[d] /\ result'[d] = result[d]
<1>1. "client" \in Sides /\ "server" \in Sides /\ Peer("client") = "server"
  BY PeerFacts
<1>2. Goes(c, "client", "returned") /\ "returned" \in ClientPCs \cup ServerPCs
  BY DEF Return, ClientPCs
<1>3. Closed(k, "client") \in Sockets /\ sock' = [sock EXCEPT ![c] = Closed(k, "client")]
  BY <1>1, ClosedEffect DEF Return
<1>4. /\ result' \in [Conns -> {"none", "ok", "failed"}] /\ result'[c] = r
      /\ \A d \in Conns \ {c} : result'[d] = result[d]
  BY DEF Return, StateTypeOK
<1>5. /\ pc' \in [Conns -> [Sides -> ClientPCs \cup ServerPCs]]
      /\ Client(c)' = "returned" /\ Server(c)' = Server(c)
      /\ \A d \in Conns \ {c} : pc'[d] = pc[d]
  BY <1>1, <1>2, GoesEffect DEF Client, Server
<1>6. /\ sock' \in [Conns -> Sockets]
      /\ In(c, "client")' = <<>> /\ In(c, "server")' = k["server"].in
      /\ sock'[c]["client"].fin /\ sock'[c]["server"].fin
      /\ \A d \in Conns \ {c} : sock'[d] = sock[d]
  <2>1. /\ Closed(k, "client")["client"].in = <<>>
        /\ Closed(k, "client")["server"].in = k["server"].in
        /\ Closed(k, "client")["client"].fin /\ Closed(k, "client")["server"].fin
    BY <1>1, ClosedEffect
  <2> DEFINE k2 == Closed(k, "client")
  <2> HIDE DEF k2
  <2>2. k2 \in Sockets /\ sock' = [sock EXCEPT ![c] = k2]
    BY <1>3 DEF k2
  <2>3. /\ sock' \in [Conns -> Sockets] /\ sock'[c] = k2
        /\ \A s \in Sides : In(c, s)' = k2[s].in
        /\ \A d \in Conns \ {c} : sock'[d] = sock[d]
    BY <2>2, SockEffect, ZenonT(60)
  <2> QED
    BY <1>1, <2>1, <2>3 DEF k2
<1> QED
  BY <1>4, <1>5, <1>6

LEMMA FaultEffect ==
  ASSUME StateTypeOK
  PROVE  /\ UNCHANGED faults => faults' \in 0 .. MaxFaults
         /\ \A kind : Fail(kind) => faults' \in 0 .. MaxFaults
  BY WireAssumption DEF StateTypeOK, Fail

(* The client's operation returns, with nothing sent.                      *)
LEMMA ReturnKeeps ==
  ASSUME StateTypeOK, NEW c \in Conns, ConnInv(c), NEW k \in Sockets,
         NEW r \in {"ok", "failed"}, Return(c, k, r), k["server"].in = In(c, "server"),
         op[c] # "none", faults' \in 0 .. MaxFaults,
         UNCHANGED <<alive, op, need, routine, req, con_data, dataVars, accepted, queued>>,
         \/ rsp' = rsp
         \/ Client(c) = "response" /\ \E v : rsp' = [rsp EXCEPT ![c] = v]
  PROVE  StateTypeOK' /\ ConnInv(c)' /\ Others(c)
<1>0. "client" \in Sides /\ "server" \in Sides
  BY PeerFacts
<1>1. /\ Client(c)' = "returned" /\ Server(c)' = Server(c) /\ result'[c] = r
      /\ In(c, "client")' = <<>> /\ In(c, "server")' = In(c, "server")
      /\ sock'[c]["client"].fin /\ sock'[c]["server"].fin
      /\ sock' \in [Conns -> Sockets]
  BY ReturnEffect
<1>2. ConData(c)' = ConData(c) /\ Early(c)' = Early(c) /\ Late(c)' = Late(c)
  BY <1>1 DEF ConData, Early, Late
<1>3. Places(c)'
  BY <1>1, <1>2 DEF ConnInv, Places, ClientPCs
<1>4. Ends(c)'
  BY <1>0, <1>1 DEF Ends, Sockets, Fin
<1>5. Arrives(c)'
  <2>1. RequestCells(c)' = RequestCells(c)
    BY DEF RequestCells
  <2> QED
    BY <1>1, <2>1 DEF ConnInv, Arrives
<1>6. Follows(c)'
  <2>1. Moved(c)' = Moved(c) /\ Fin(c)'
    BY <1>1, <1>2 DEF Moved, Fin, dataVars
  <2> QED
    BY <1>1, <1>2, <2>1 DEF ConnInv, Follows
<1>7. Answers(c)'
  BY <1>1 DEF Answers
<1>8. Data(c)'
  <2>1. rsp'[c] = rsp[c] \/ Client(c) = "response"
    OBVIOUS
  <2> QED
    BY <1>1, <1>2, <2>1 DEF ConnInv, Data, dataVars
<1>9. StateTypeOK'
  BY ReturnEffect DEF StateTypeOK, dataVars
<1>10. Others(c)
  <2>1. \A d \in Conns \ {c} : rsp'[d] = rsp[d]
    BY DEF StateTypeOK
  <2> QED
    BY <2>1, ReturnEffect DEF Others, Same, dataVars
<1> QED
  BY <1>3, <1>4, <1>5, <1>6, <1>7, <1>8, <1>9, <1>10 DEF ConnInv
-----------------------------------------------------------------------------
(* The client's steps.                                                     *)

LEMMA KindFacts ==
  /\ "none" \notin Kinds
  /\ \A c \in Conns : Ops[c] \subseteq Kinds
  /\ Chunks \subseteq Nat \ {0}
  BY WireAssumption DEF Kinds

LEMMA BeginKeeps ==
  ASSUME StateTypeOK, NEW c \in Conns, ConnInv(c), NEW kind \in Ops[c], NEW n \in Chunks,
         Begin(c, kind, n)
  PROVE  StateTypeOK' /\ ConnInv(c)' /\ Others(c)
<1>0. /\ "client" \in Sides /\ "server" \in Sides /\ Peer("client") = "server"
      /\ kind \in Kinds /\ kind # "none"
  BY PeerFacts, KindFacts
<1>1. /\ pc' \in [Conns -> [Sides -> ClientPCs \cup ServerPCs]]
      /\ pc'[c]["client"] = "connect" /\ pc'[c]["server"] = pc[c]["server"]
      /\ \A d \in Conns \ {c} : pc'[d] = pc[d]
  BY <1>0, GoesEffect DEF Begin, ClientPCs
<1>2. StateTypeOK'
  BY <1>0, <1>1 DEF StateTypeOK, Begin, dataVars
<1>3. Others(c)
  BY <1>1 DEF Others, Same, Begin, dataVars, StateTypeOK
<1>4. /\ op[c] = "none" /\ op'[c] = kind /\ need'[c] = n
      /\ UNCHANGED <<sock, routine, req, rsp, con_data, dataVars, accepted, result>>
  BY DEF Begin, StateTypeOK
<1>5. /\ Client(c) = "idle" /\ Client(c)' = "connect" /\ Server(c)' = Server(c)
      /\ In(c, "client")' = <<>> /\ In(c, "server")' = <<>>
      /\ req[c] = None /\ c \notin accepted /\ ConData(c) = <<>> /\ ~Late(c)
      /\ Fin(c)' = Fin(c)
  BY <1>1, <1>4 DEF ConnInv, Places, Client, Server, In, Fin
<1>6. /\ ConData(c)' = <<>> /\ Early(c)' = Early(c) /\ ~Late(c)' /\ ~Late(c)
      /\ req'[c] = None /\ c \notin accepted'
  BY <1>4, <1>5 DEF ConData, Early, Late
<1>7. Places(c)'
  BY <1>0, <1>4, <1>5, <1>6 DEF ConnInv, Places, ClientPCs
<1>8. Ends(c)'
  BY <1>4, <1>5 DEF ConnInv, Ends
<1>9. Arrives(c)'
  <2>1. Server(c) # "respond" /\ Server(c) # "read"
    BY <1>5 DEF ConnInv, Places, Early
  <2> QED
    BY <1>5, <2>1 DEF Arrives
<1>10. Follows(c)'
  BY <1>6 DEF Follows
<1>11. Answers(c)'
  BY <1>5 DEF Answers
<1>12. Data(c)'
  <2>1. posted'[c] = posted[c] /\ polled'[c] = polled[c] /\ landed'[c] = landed[c]
    BY <1>4 DEF dataVars
  <2>2. posted[c] = 0 /\ polled[c] <= landed[c] /\ landed[c] <= posted[c] /\ posted[c] <= CqSize
        /\ ~(landed[c] > 0)
    BY <1>5 DEF ConnInv, Data, StateTypeOK
  <2>3. Server(c) \notin {"prepare", "sync", "modify", "syncQ", "signal", "queue"}
    BY <1>6 DEF Late
  <2> QED
    BY <1>5, <1>6, <2>1, <2>2, <2>3 DEF Data
<1> QED
  BY <1>2, <1>3, <1>7, <1>8, <1>9, <1>10, <1>11, <1>12 DEF ConnInv

LEMMA ConnectKeeps ==
  ASSUME StateTypeOK, NEW c \in Conns, ConnInv(c), Connect(c)
  PROVE  StateTypeOK' /\ ConnInv(c)' /\ Others(c)
<1>0. "client" \in Sides /\ "server" \in Sides /\ "client" # "server"
  BY PeerFacts
<1>1. /\ UNCHANGED <<op, need, routine, req, rsp, con_data, dataVars, accepted, queued, alive>>
      /\ Client(c) = "connect" /\ op[c] # "none"
  BY DEF Connect, ConnInv, Places, Client, msgVars
<1>2. CASE Return(c, sock[c], "failed") /\ (UNCHANGED faults \/ Fail("connect"))
  <2>1. sock[c] \in Sockets /\ sock[c]["server"].in = In(c, "server")
    BY <1>0, SockTypes
  <2> QED
    BY <1>1, <1>2, <2>1, ReturnKeeps, FaultEffect
<1>3. CASE /\ alive
           /\ pc' = [pc EXCEPT ![c]["client"] = "request", ![c]["server"] = "backlog"]
           /\ UNCHANGED <<sock, nicVars, result, faults>>
  <2>1. /\ pc' \in [Conns -> [Sides -> ClientPCs \cup ServerPCs]]
        /\ pc'[c]["client"] = "request" /\ pc'[c]["server"] = "backlog"
        /\ \A d \in Conns \ {c} : pc'[d] = pc[d]
    BY <1>0, <1>3 DEF StateTypeOK, ClientPCs, ServerPCs
  <2>2. StateTypeOK'
    BY <1>1, <1>3, <2>1 DEF StateTypeOK, dataVars
  <2>3. Others(c)
    BY <1>1, <1>3, <2>1 DEF Others, Same, dataVars
  <2>4. /\ Client(c)' = "request" /\ Server(c)' = "backlog"
        /\ In(c, "client")' = <<>> /\ In(c, "server")' = <<>>
        /\ req[c] = None /\ c \notin accepted /\ ConData(c) = <<>> /\ ~Late(c)
        /\ Fin(c)' = Fin(c)
    BY <1>1, <1>3, <2>1 DEF ConnInv, Places, Client, Server, In, Fin
  <2>5. /\ ConData(c)' = <<>> /\ ~Late(c)' /\ req'[c] = None /\ c \notin accepted'
    BY <1>1, <2>4 DEF ConData, Late
  <2>6. Places(c)'
    BY <1>1, <1>3, <2>4, <2>5 DEF ConnInv, Places, ClientPCs, ServerPCs
  <2>7. Ends(c)'
    BY <1>3, <2>4 DEF ConnInv, Ends
  <2>8. Arrives(c)'
    BY <2>4 DEF Arrives
  <2>9. Follows(c)' /\ Answers(c)'
    BY <2>4, <2>5 DEF Follows, Answers
  <2>10. Data(c)'
    <3>1. posted'[c] = posted[c] /\ polled'[c] = polled[c] /\ landed'[c] = landed[c]
      BY <1>1 DEF dataVars
    <3>2. posted[c] = 0 /\ polled[c] <= landed[c] /\ landed[c] <= posted[c]
          /\ posted[c] <= CqSize /\ ~(landed[c] > 0)
      BY <1>1 DEF ConnInv, Data, StateTypeOK
    <3> QED
      BY <2>4, <2>5, <3>1, <3>2 DEF Data
  <2> QED
    BY <2>2, <2>3, <2>6, <2>7, <2>8, <2>9, <2>10 DEF ConnInv
<1> QED
  BY <1>2, <1>3 DEF Connect

(* The routine and the request are the four cells the server expects.      *)
LEMMA RequestFacts ==
  ASSUME StateTypeOK, NEW c \in Conns, op[c] \in Kinds, need[c] \in Chunks
  PROVE  LET m == Message(RoutineBody(op[c])) \o Message(RequestBody(op[c], need[c])) IN
         m \in Seq(Cells) /\ m = RequestCells(c)
<1>1. RoutineBody(op[c]) \in Bodies /\ RequestBody(op[c], need[c]) \in Bodies
  BY DEF Bodies
<1> DEFINE a == Message(RoutineBody(op[c]))
           b == Message(RequestBody(op[c], need[c]))
           r == RequestCells(c)
<1>2. /\ Len(a \o b) = 4 /\ Len(r) = 4
      /\ (a \o b)[1] = r[1] /\ (a \o b)[2] = r[2]
      /\ (a \o b)[3] = r[3] /\ (a \o b)[4] = r[4]
  BY DEF Message, RequestCells
<1>3. a \in Seq(Cells) /\ b \in Seq(Cells)
  BY <1>1, MessageCells
<1>4. r \in Seq(Cells)
  <2>1. /\ <<"size", Len(RoutineBody(op[c]))>> \in Cells
        /\ <<"body", RoutineBody(op[c])>> \in Cells
        /\ <<"size", Len(RequestBody(op[c], need[c]))>> \in Cells
        /\ <<"body", RequestBody(op[c], need[c])>> \in Cells
    BY <1>1 DEF Cells
  <2> QED
    BY <2>1 DEF RequestCells
<1> HIDE DEF a, b, r
<1>5. a \o b \in Seq(Cells)
  BY <1>3
<1>6. \A i \in 1 .. Len(a \o b) : (a \o b)[i] = r[i]
  BY <1>2
<1>7. a \o b = r
  BY <1>2, <1>4, <1>5, <1>6, SeqEqual
<1> QED
  BY <1>5, <1>7 DEF a, b, r

LEMMA SendRequestKeeps ==
  ASSUME StateTypeOK, NEW c \in Conns, ConnInv(c), SendRequest(c)
  PROVE  StateTypeOK' /\ ConnInv(c)' /\ Others(c)
<1> DEFINE m == Message(RoutineBody(op[c])) \o Message(RequestBody(op[c], need[c]))
           k == Sent(sock[c], "client", m)
<1>0. /\ "client" \in Sides /\ "server" \in Sides /\ Peer("client") = "server"
      /\ "response" \in ClientPCs \cup ServerPCs
  BY PeerFacts DEF ClientPCs
<1>1. /\ Client(c) = "request" /\ op[c] \in Kinds /\ need[c] \in Chunks
      /\ UNCHANGED <<alive, op, need, routine, req, rsp, con_data, dataVars, accepted, queued,
                     result, faults>>
      /\ Goes(c, "client", "response") /\ sock' = [sock EXCEPT ![c] = k]
  BY DEF SendRequest, ConnInv, Places, Client, msgVars, StateTypeOK
<1>2. m \in Seq(Cells) /\ m = RequestCells(c) /\ sock[c] \in Sockets
  BY <1>1, RequestFacts, SockTypes
<1> HIDE DEF m
<1>3. /\ k \in Sockets
      /\ k["client"].in = In(c, "client")
      /\ k["server"].in = IF sock[c]["client"].fin THEN In(c, "server") ELSE In(c, "server") \o m
      /\ \A t \in Sides : k[t].fin = sock[c][t].fin /\ (k[t].err => sock[c][t].err)
  BY <1>0, <1>2, SentEffect DEF In
<1> HIDE DEF k
<1>4. /\ pc' \in [Conns -> [Sides -> ClientPCs \cup ServerPCs]]
      /\ Client(c)' = "response" /\ Server(c)' = Server(c)
      /\ \A d \in Conns \ {c} : pc'[d] = pc[d]
  BY <1>0, <1>1, GoesEffect DEF Client, Server
<1>5. /\ sock' \in [Conns -> Sockets] /\ sock'[c] = k
      /\ \A s \in Sides : In(c, s)' = k[s].in
      /\ \A d \in Conns \ {c} : sock'[d] = sock[d]
  BY <1>1, <1>3, SockEffect, ZenonT(60)
<1>6. StateTypeOK' /\ Others(c)
  BY <1>1, <1>4, <1>5 DEF StateTypeOK, Others, Same, dataVars
<1>7. /\ In(c, "client")' = <<>>
      /\ In(c, "server")' = <<>> \/ In(c, "server")' = RequestCells(c)
      /\ req[c] = None /\ c \notin accepted /\ ConData(c) = <<>> /\ ~Late(c)
      /\ Fin(c)' = Fin(c) /\ Server(c) # "read"
  <2>1. In(c, "client") = <<>> /\ In(c, "server") = <<>>
    BY <1>1 DEF ConnInv, Places
  <2>2. <<>> \o m = m
    BY <1>2
  <2> QED
    BY <1>0, <1>1, <1>2, <1>3, <1>5, <2>1, <2>2 DEF ConnInv, Places, Fin
<1>8. /\ ConData(c)' = <<>> /\ ~Late(c)' /\ Early(c)' = Early(c) /\ RequestCells(c)' = RequestCells(c)
  BY <1>1, <1>4, <1>7 DEF ConData, Late, Early, RequestCells
<1>9. Places(c)'
  BY <1>1, <1>4, <1>7, <1>8 DEF ConnInv, Places, ClientPCs
<1>10. Ends(c)'
  BY <1>0, <1>1, <1>3, <1>4, <1>5, <1>7 DEF ConnInv, Ends
<1>11. Arrives(c)'
  <2>1. Server(c) # "respond"
    BY <1>7 DEF ConnInv, Places, Early
  <2>2. Len(RequestCells(c)) = 4
    BY DEF RequestCells
  <2>3. CASE In(c, "server")' = <<>>
    BY <1>4, <1>7, <1>8, <2>1, <2>3 DEF Arrives
  <2>4. CASE In(c, "server")' = RequestCells(c)
    <3>1. In(c, "server")' = RequestCells(c)'
      BY <1>8, <2>4
    <3>2. \A i \in 1 .. Len(In(c, "server")') : In(c, "server")'[i] = RequestCells(c)'[i]
      BY <3>1
    <3>3. Len(In(c, "server")') <= 4
      <4>1. Len(In(c, "server")') = Len(RequestCells(c))
        BY <2>4
      <4>2. 4 <= 4
        OBVIOUS
      <4> QED
        BY <2>2, <4>1, <4>2, Zenon
    <3> QED
      BY <1>4, <1>7, <2>1, <3>2, <3>3 DEF Arrives
  <2> QED
    BY <1>7, <2>3, <2>4
<1>12. Follows(c)' /\ Answers(c)'
  BY <1>7, <1>8 DEF Follows, Answers
<1>13. Data(c)'
  BY <1>1, <1>4, <1>7, <1>8 DEF ConnInv, Data, dataVars
<1> QED
  BY <1>6, <1>9, <1>10, <1>11, <1>12, <1>13 DEF ConnInv

LEMMA ReadResponseKeeps ==
  ASSUME StateTypeOK, NEW c \in Conns, ConnInv(c), ReadResponse(c)
  PROVE  StateTypeOK' /\ ConnInv(c)' /\ Others(c)
<1> DEFINE lost == BodyLost(c, "client")
           size == ResponseBody(op[c], need[c], STATUS_SUCCESS)
           r == Decoded(op[c], IF lost THEN Zeroed(size) ELSE Received(c, "client"))
           k == IF lost THEN ErrorSeen(sock[c], "client") ELSE Read2(sock[c], "client")
<1>0. /\ "client" \in Sides /\ "server" \in Sides /\ Peer("client") = "server"
      /\ "prepare" \in ClientPCs \cup ServerPCs
  BY PeerFacts DEF ClientPCs
<1>1. /\ Client(c) = "response" /\ op[c] \in Kinds /\ op[c] # "none" /\ need[c] \in Chunks
      /\ UNCHANGED <<alive, op, need, routine, req, con_data, dataVars, accepted, queued, faults>>
      /\ rsp' = [rsp EXCEPT ![c] = r]
      /\ lost \/ HasMessage(c, "client")
  BY DEF ReadResponse, ConnInv, Places, Client, StateTypeOK
<1>2. sock[c] \in Sockets /\ In(c, "client") \in Seq(Cells)
      /\ sock[c]["client"].in = In(c, "client") /\ sock[c]["server"].in = In(c, "server")
  BY <1>0, SockTypes
<1>3. In(c, "client") # <<>> /\ (~lost => Len(In(c, "client")) >= 2)
  BY <1>1, <1>2 DEF BodyLost, HasMessage
<1>4. /\ k \in Sockets /\ k["server"].in = In(c, "server")
      /\ \A t \in Sides : k[t].fin = sock[c][t].fin /\ (k[t].err => sock[c][t].err)
  <2>1. CASE lost
    BY <1>0, <1>2, <2>1, ErrorSeenEffect
  <2>2. CASE ~lost
    BY <1>0, <1>2, <1>3, <2>2, Read2Effect
  <2> QED
    BY <2>1, <2>2
<1>5. op[c] = "load" => r.metadata.size = 0 \/ r.metadata = Metadata(need[c])
  <2>1. CASE lost
    BY <2>1, DecodeZeros
  <2>2. CASE ~lost
    <3>1. \E code \in Codes :
            In(c, "client")[2] = <<"body", ResponseBody(op[c], need[c], code)>>
      BY <1>1, <1>3, <2>2 DEF ConnInv, Answers, Codes
    <3>2. PICK code \in Codes : Received(c, "client") = ResponseBody(op[c], need[c], code)
      BY <3>1 DEF Received
    <3> QED
      BY <1>1, <2>2, <3>2, DecodeResponse
  <2> QED
    BY <2>1, <2>2
<1> HIDE DEF r, k, lost
<1>6. CASE Return(c, k, "failed") \/ Return(c, k, "ok")
  <2>1. faults' \in 0 .. MaxFaults
    BY <1>1, FaultEffect
  <2> QED
    BY <1>1, <1>4, <1>6, <2>1, ReturnKeeps
<1>7. CASE /\ op[c] # "meta" /\ sock' = [sock EXCEPT ![c] = k]
           /\ Goes(c, "client", "prepare") /\ UNCHANGED <<nicVars, result>>
  <2>1. /\ pc' \in [Conns -> [Sides -> ClientPCs \cup ServerPCs]]
        /\ Client(c)' = "prepare" /\ Server(c)' = Server(c)
        /\ \A d \in Conns \ {c} : pc'[d] = pc[d]
    BY <1>0, <1>7, GoesEffect DEF Client, Server
  <2>2. /\ sock' \in [Conns -> Sockets] /\ sock'[c] = k
        /\ In(c, "server")' = In(c, "server")
        /\ \A d \in Conns \ {c} : sock'[d] = sock[d]
    BY <1>0, <1>4, <1>7, SockEffect, ZenonT(60)
  <2>3. rsp'[c] = r /\ DOMAIN rsp' = Conns /\ \A d \in Conns \ {c} : rsp'[d] = rsp[d]
    BY <1>1 DEF StateTypeOK
  <2>4. StateTypeOK' /\ Others(c)
    BY <1>1, <1>7, <2>1, <2>2, <2>3 DEF StateTypeOK, Others, Same, dataVars
  <2>5. ~Early(c) /\ ~Early(c)' /\ Late(c)' = Late(c) /\ ConData(c)' = ConData(c) /\ Fin(c)' = Fin(c)
    BY <1>0, <1>1, <1>3, <1>4, <2>1, <2>2 DEF ConnInv, Places, Early, Late, ConData, Fin
  <2>6. Places(c)'
    BY <1>1, <1>7, <2>1, <2>2, <2>5 DEF ConnInv, Places, ClientPCs
  <2>7. Ends(c)'
    BY <1>0, <1>1, <1>4, <2>1, <2>2, <2>5 DEF ConnInv, Ends
  <2>8. Arrives(c)'
    BY <2>1, <2>5 DEF Arrives, Early
  <2>9. Follows(c)'
    BY <1>1, <2>1, <2>2, <2>5 DEF ConnInv, Follows
  <2>10. Answers(c)'
    BY <2>1 DEF Answers
  <2>11. Data(c)'
    <3>1. posted'[c] = posted[c] /\ polled'[c] = polled[c] /\ landed'[c] = landed[c]
      BY <1>1 DEF dataVars
    <3>2. posted[c] = 0 /\ ~(posted[c] > 0)
      BY <1>1 DEF ConnInv, Data
    <3> QED
      BY <1>1, <1>5, <2>1, <2>3, <2>5, <3>1, <3>2 DEF ConnInv, Data
  <2> QED
    BY <2>4, <2>6, <2>7, <2>8, <2>9, <2>10, <2>11 DEF ConnInv
<1> QED
  BY <1>6, <1>7 DEF ReadResponse, r, k, lost

LEMMA NoResponseKeeps ==
  ASSUME StateTypeOK, NEW c \in Conns, ConnInv(c), NoResponse(c)
  PROVE  StateTypeOK' /\ ConnInv(c)' /\ Others(c)
<1>1. /\ Client(c) = "response" /\ op[c] # "none" /\ Return(c, sock[c], "failed")
      /\ UNCHANGED <<alive, op, need, routine, req, con_data, dataVars, accepted, queued>>
      /\ rsp' = rsp /\ UNCHANGED faults
  BY DEF NoResponse, ConnInv, Places, Client, msgVars
<1>2. sock[c] \in Sockets /\ sock[c]["server"].in = In(c, "server")
  BY SockTypes, PeerFacts
<1>3. faults' \in 0 .. MaxFaults
  BY <1>1, FaultEffect
<1> QED
  BY <1>1, <1>2, <1>3, ReturnKeeps

(* A transfer is of all chunks of the file.                                *)
LEMMA TransferFacts ==
  ASSUME StateTypeOK, NEW c \in Conns, ConnInv(c), Client(c) = "transfer"
  PROVE  /\ op[c] \in {"backup", "load"} /\ need[c] \in Nat \ {0} /\ need[c] \in Chunks
         /\ Size(c) = need[c] /\ Moves(op[c], need[c]) = need[c]
         /\ posted[c] \in Nat /\ polled[c] \in Nat /\ landed[c] \in Nat
         /\ polled[c] <= landed[c] /\ landed[c] <= posted[c]
<1>1. op[c] \in {"backup", "load"} /\ need[c] \in Chunks
  BY DEF ConnInv, Places, StateTypeOK, Kinds
<1>2. op[c] = "load" => rsp[c].metadata = Metadata(need[c])
  BY DEF ConnInv, Data
<1>3. Metadata(need[c]).size = need[c]
  BY DEF Metadata
<1>4. Size(c) = need[c]
  BY <1>1, <1>2, <1>3 DEF Size
<1> QED
  BY <1>1, <1>4, KindFacts DEF Moves, ConnInv, Data, StateTypeOK

(* Only counters of chunks change.                                         *)
LEMMA CountersKeep ==
  ASSUME StateTypeOK, NEW c \in Conns, ConnInv(c), Client(c) = "transfer",
         UNCHANGED <<alive, op, need, pc, sock, routine, req, rsp, con_data, accepted, queued,
                     result, faults>>,
         posted' \in [Conns -> Nat], polled' \in [Conns -> Nat], landed' \in [Conns -> Nat],
         \A d \in Conns \ {c} : posted'[d] = posted[d] /\ polled'[d] = polled[d]
                                /\ landed'[d] = landed[d],
         polled'[c] <= landed'[c], landed'[c] <= posted'[c], posted'[c] <= CqSize,
         landed'[c] # landed[c] => ConData(c) = <<"addr", "keys">> /\ Server(c) # "queue"
  PROVE  StateTypeOK' /\ ConnInv(c)' /\ Others(c)
<1>1. StateTypeOK' /\ Others(c)
  BY DEF StateTypeOK, Others, Same
<1>2. /\ Client(c)' = Client(c) /\ Server(c)' = Server(c) /\ ConData(c)' = ConData(c)
      /\ Fin(c)' = Fin(c) /\ In(c, "client")' = In(c, "client")
      /\ In(c, "server")' = In(c, "server")
      /\ Early(c)' = Early(c) /\ Late(c)' = Late(c) /\ RequestCells(c)' = RequestCells(c)
  BY DEF Client, Server, ConData, Fin, In, Early, Late, RequestCells
<1>3. Places(c)' /\ Ends(c)'
  BY <1>2 DEF ConnInv, Places, Ends
<1>4. Arrives(c)'
  BY <1>2 DEF ConnInv, Arrives
<1>5. Follows(c)'
  <2>1. Written(c)' = Written(c) /\ Consumed(c)' = Consumed(c)
    BY <1>2 DEF Written, Consumed
  <2>2. Late(c) => \A i \in 1 .. Len(In(c, "server")) : In(c, "server")[i][1] # "size"
    BY DEF ConnInv, Follows
  <2> QED
    BY <1>2, <2>1, <2>2 DEF ConnInv, Follows
<1>6. Answers(c)'
  BY <1>2 DEF Answers
<1>7. Data(c)'
  <2>1. op[c] # "meta"
    BY TransferFacts
  <2>2. landed'[c] > 0 => ConData(c) = <<"addr", "keys">>
    BY DEF ConnInv, Data
  <2>3. op[c] = "load" => rsp[c].metadata = Metadata(need[c])
    BY DEF ConnInv, Data
  <2>4. Server(c) = "queue" => landed'[c] = Moves(op[c], need[c])
    BY DEF ConnInv, Data
  <2> QED
    BY <1>2, <2>1, <2>2, <2>3, <2>4 DEF ConnInv, Data
<1> QED
  BY <1>1, <1>3, <1>4, <1>5, <1>6, <1>7 DEF ConnInv

LEMMA PostKeeps ==
  ASSUME StateTypeOK, NEW c \in Conns, ConnInv(c), Post(c)
  PROVE  StateTypeOK' /\ ConnInv(c)' /\ Others(c)
<1>1. /\ Client(c) = "transfer" /\ op[c] # "none"
      /\ UNCHANGED <<alive, op, need, routine, req, rsp, con_data, polled, landed, accepted,
                     queued, faults>>
  BY DEF Post, ConnInv, Places, Client, msgVars
<1>2. CASE /\ posted[c] < CqSize /\ posted' = [posted EXCEPT ![c] = @ + 1]
           /\ UNCHANGED <<pc, sock, nicVars, result>>
  <2>1. /\ posted' \in [Conns -> Nat] /\ polled' \in [Conns -> Nat] /\ landed' \in [Conns -> Nat]
        /\ \A d \in Conns \ {c} : posted'[d] = posted[d] /\ polled'[d] = polled[d]
                                  /\ landed'[d] = landed[d]
        /\ polled'[c] <= landed'[c] /\ landed'[c] <= posted'[c] /\ posted'[c] <= CqSize
        /\ landed'[c] = landed[c]
    BY <1>1, <1>2, TransferFacts, WireAssumption DEF StateTypeOK
  <2> QED
    BY <1>1, <1>2, <2>1, CountersKeep
<1>3. CASE Return(c, sock[c], "failed") /\ UNCHANGED posted
  <2>1. sock[c] \in Sockets /\ sock[c]["server"].in = In(c, "server")
    BY SockTypes, PeerFacts
  <2>2. faults' \in 0 .. MaxFaults /\ UNCHANGED dataVars
    BY <1>1, <1>3, FaultEffect DEF dataVars
  <2> QED
    BY <1>1, <1>3, <2>1, <2>2, ReturnKeeps
<1> QED
  BY <1>2, <1>3 DEF Post

LEMMA LandKeeps ==
  ASSUME StateTypeOK, NEW c \in Conns, ConnInv(c), Land(c)
  PROVE  StateTypeOK' /\ ConnInv(c)' /\ Others(c)
<1>1. /\ Client(c) = "transfer" /\ landed[c] < posted[c]
      /\ UNCHANGED <<alive, op, need, pc, sock, routine, req, rsp, con_data, posted, polled,
                     accepted, queued, result, faults>>
      /\ landed' = [landed EXCEPT ![c] = @ + 1]
  BY DEF Land, Client, msgVars
<1>2. ConData(c) = <<"addr", "keys">> /\ Server(c) # "queue"
  BY PeerFacts DEF Land, Linked, ConData, Server
<1>3. /\ posted' \in [Conns -> Nat] /\ polled' \in [Conns -> Nat] /\ landed' \in [Conns -> Nat]
      /\ \A d \in Conns \ {c} : posted'[d] = posted[d] /\ polled'[d] = polled[d]
                                /\ landed'[d] = landed[d]
      /\ polled'[c] <= landed'[c] /\ landed'[c] <= posted'[c]
    BY <1>1, TransferFacts DEF StateTypeOK
<1>4. posted'[c] <= CqSize
  BY <1>1 DEF ConnInv, Data
<1> QED
  BY <1>1, <1>2, <1>3, <1>4, CountersKeep

LEMMA PollKeeps ==
  ASSUME StateTypeOK, NEW c \in Conns, ConnInv(c), Poll(c)
  PROVE  StateTypeOK' /\ ConnInv(c)' /\ Others(c)
<1>1. /\ Client(c) = "transfer" /\ op[c] # "none"
      /\ UNCHANGED <<alive, op, need, routine, req, rsp, con_data, posted, landed, accepted,
                     queued>>
  BY DEF Poll, ConnInv, Places, Client, msgVars
<1>2. CASE /\ polled[c] < landed[c] /\ polled' = [polled EXCEPT ![c] = @ + 1]
           /\ UNCHANGED <<pc, sock, nicVars, result, faults>>
  <2>1. /\ posted' \in [Conns -> Nat] /\ polled' \in [Conns -> Nat] /\ landed' \in [Conns -> Nat]
        /\ \A d \in Conns \ {c} : posted'[d] = posted[d] /\ polled'[d] = polled[d]
                                  /\ landed'[d] = landed[d]
        /\ polled'[c] <= landed'[c] /\ landed'[c] <= posted'[c]
        /\ landed'[c] = landed[c]
    BY <1>1, <1>2, TransferFacts DEF StateTypeOK
  <2>2. posted'[c] <= CqSize
    BY <1>1 DEF ConnInv, Data
  <2> QED
    BY <1>1, <1>2, <2>1, <2>2, CountersKeep
<1>3. CASE /\ Fail("rdma") \/ UNCHANGED faults
           /\ Return(c, sock[c], "failed") /\ UNCHANGED polled
  <2>1. sock[c] \in Sockets /\ sock[c]["server"].in = In(c, "server")
    BY SockTypes, PeerFacts
  <2>2. faults' \in 0 .. MaxFaults /\ UNCHANGED dataVars
    BY <1>1, <1>3, FaultEffect DEF dataVars
  <2> QED
    BY <1>1, <1>3, <2>1, <2>2, ReturnKeeps
<1> QED
  BY <1>2, <1>3 DEF Poll

(* Everything has moved when the last completion was polled.               *)
LEMMA PolledIsMoved ==
  ASSUME StateTypeOK, NEW c \in Conns, ConnInv(c), Client(c) = "transfer", AllPolled(c)
  PROVE  Moved(c) /\ c \in accepted
<1>1. landed[c] = Moves(op[c], need[c]) /\ landed[c] > 0
  BY TransferFacts DEF AllPolled
<1>2. ConData(c) = <<"addr", "keys">>
  BY <1>1 DEF ConnInv, Data
<1> QED
  BY <1>1, <1>2 DEF ConnInv, Data, Moved

LEMMA FinishKeeps ==
  ASSUME StateTypeOK, NEW c \in Conns, ConnInv(c), Finish(c)
  PROVE  StateTypeOK' /\ ConnInv(c)' /\ Others(c)
<1> DEFINE b == <<AddString(Signal(op[c]))>>
           k == Sent(sock[c], "client", Message(b))
           I == In(c, "server")
<1>0. "client" \in Sides /\ "server" \in Sides /\ Peer("client") = "server"
  BY PeerFacts
<1>1. /\ Client(c) = "transfer" /\ op[c] # "none" /\ AllPolled(c) /\ Return(c, k, "ok")
      /\ UNCHANGED <<alive, op, need, routine, req, rsp, con_data, dataVars, accepted, queued,
                     faults>>
  BY DEF Finish, ConnInv, Places, Client, msgVars
<1>2. /\ b \in Bodies
  <2>1. op[c] \in Kinds
    BY <1>1 DEF StateTypeOK
  <2> QED
    BY <2>1 DEF Bodies
<1> HIDE DEF b
<1>3. /\ Message(b) \in Seq(Cells) /\ Len(Message(b)) = 2
      /\ Message(b)[1] = <<"size", Len(b)>> /\ Message(b)[2] = <<"body", b>>
  BY <1>2, MessageCells
<1>4. sock[c] \in Sockets /\ I \in Seq(Cells) /\ sock[c]["server"].in = I
      /\ sock[c]["client"].fin = Fin(c)
  BY <1>0, SockTypes DEF ConnInv, Ends, Fin
<1>5. /\ k \in Sockets
      /\ k["server"].in = IF Fin(c) THEN I ELSE I \o Message(b)
  BY <1>0, <1>3, <1>4, SentEffect
<1>6. faults' \in 0 .. MaxFaults
  BY <1>1, FaultEffect
<1>7. CASE Fin(c)
  BY <1>1, <1>5, <1>6, <1>7, ReturnKeeps
<1>8. CASE ~Fin(c)
  <2>1. /\ Client(c)' = "returned" /\ Server(c)' = Server(c) /\ result'[c] = "ok"
        /\ In(c, "client")' = <<>> /\ In(c, "server")' = I \o Message(b)
        /\ sock'[c]["client"].fin /\ sock'[c]["server"].fin
        /\ sock' \in [Conns -> Sockets]
    BY <1>1, <1>5, <1>8, ReturnEffect
  <2>2. ConData(c)' = ConData(c) /\ Early(c)' = Early(c) /\ Late(c)' = Late(c)
    BY <1>1, <2>1 DEF ConData, Early, Late
  <2>3. ~Early(c) /\ Late(c) /\ req[c] # None
    BY <1>1, <1>8 DEF ConnInv, Places, Ends, Early, Late, ServerPCs
  <2>4. Moved(c) /\ Moved(c)' /\ ConData(c) = <<"addr", "keys">> /\ Fin(c)'
    BY <1>1, <2>1, <2>2, PolledIsMoved DEF Moved, dataVars, Fin
  <2>5. Places(c)'
    BY <1>1, <2>1, <2>2, <2>3 DEF ConnInv, Places, ClientPCs
  <2>6. Ends(c)'
    BY <1>0, <2>1 DEF Ends, Sockets, Fin
  <2>7. Arrives(c)'
    BY <1>1, <2>1, <2>3 DEF Arrives, Early
  <2>8. Follows(c)'
    <3> DEFINE m == Message(b)
               J == I \o m
    <3>1. \A i \in 1 .. Len(I) : I[i][1] # "size"
      BY <1>1, <2>3 DEF ConnInv, Follows
    <3>2. Server(c) # "signal" => I # <<>>
      <4>1. Len(ConData(c)) = 2 /\ ConData(c)[2] = "keys"
        BY <2>4
      <4>2. Len(I) = Written(c) - Consumed(c)
        BY <1>1, <1>8, <2>3, <4>1 DEF ConnInv, Follows
      <4>3. Server(c) # "signal" => Consumed(c) = 2
        <5>1. Server(c) # "signal" => Consumed(c) = Len(ConData(c))
          BY DEF Consumed
        <5> QED
          BY <4>1, <5>1, Zenon
      <4>4. Written(c) = 3
        BY <1>1 DEF Written
      <4>5. Server(c) # "signal" => Len(I) > 0
        BY <4>2, <4>3, <4>4
      <4> QED
        BY <4>5
    <3>3. m[1][1] = "size" /\ m[2][1] # "size" /\ Len(m) = 2 /\ m \in Seq(Cells)
      BY <1>3
    <3> HIDE DEF m, I
    <3>4. /\ J \in Seq(Cells) /\ Len(I) \in Nat /\ Len(J) = Len(I) + 2
          /\ \A i \in 1 .. Len(I) : J[i] = I[i]
          /\ J[Len(I) + 2] = m[2]
      <4>1. /\ J \in Seq(Cells) /\ Len(J) = Len(I) + Len(m)
            /\ \A i \in 1 .. Len(I) : J[i] = I[i]
            /\ \A i \in 1 .. Len(m) : J[Len(I) + i] = m[i]
        BY <1>4, <3>3, ConcatFacts
      <4>2. Len(I) \in Nat
        BY <1>4
      <4> QED
        BY <3>3, <4>1, <4>2
    <3> HIDE DEF J
    <3>5. ASSUME NEW i \in 1 .. Len(J), J[i][1] = "size" PROVE Len(J) <= i + 1
      BY <3>1, <3>3, <3>4, <3>5
    <3>6. Server(c) # "signal" => J[1][1] # "size"
      BY <1>4, <3>1, <3>2, <3>4
    <3>7. In(c, "server")' = J
      BY <2>1 DEF J, m
    <3> QED
      BY <2>1, <2>2, <2>3, <2>4, <3>5, <3>6, <3>7, <1>1 DEF ConnInv, Follows
  <2>9. Answers(c)'
    BY <2>1 DEF Answers
  <2>10. Data(c)'
    BY <1>1, <2>1, <2>2 DEF ConnInv, Data, dataVars
  <2>11. StateTypeOK' /\ Others(c)
    BY <1>1, <1>5, <1>6, ReturnEffect DEF StateTypeOK, dataVars, Others, Same
  <2> QED
    BY <2>5, <2>6, <2>7, <2>8, <2>9, <2>10, <2>11 DEF ConnInv
<1> QED
  BY <1>7, <1>8
-----------------------------------------------------------------------------
(* The handshake.                                                          *)

(* The server's handler gives up and goes back to the loop of execute.     *)
LEMMA HandlerGivesUpKeeps ==
  ASSUME StateTypeOK, NEW c \in Conns, ConnInv(c), NEW k \in Sockets,
         Server(c) \in {"prepare", "sync", "modify", "syncQ", "signal"},
         Goes(c, "server", "routine"), sock' = [sock EXCEPT ![c] = k],
         k["client"].in = In(c, "client"),
         \/ k["server"].in = In(c, "server") /\ Server(c) # "signal"
         \/ k["server"].in = <<>> /\ Fin(c),
         \A t \in Sides : k[t].fin = sock[c][t].fin /\ (k[t].err => sock[c][t].err),
         UNCHANGED <<alive, op, need, routine, req, rsp, con_data, dataVars, accepted, queued,
                     result>>,
         faults' \in 0 .. MaxFaults
  PROVE  StateTypeOK' /\ ConnInv(c)' /\ Others(c)
<1>0. /\ "client" \in Sides /\ "server" \in Sides /\ Peer("server") = "client"
      /\ "routine" \in ClientPCs \cup ServerPCs
  BY PeerFacts DEF ServerPCs
<1>1. /\ pc' \in [Conns -> [Sides -> ClientPCs \cup ServerPCs]]
      /\ Server(c)' = "routine" /\ Client(c)' = Client(c)
      /\ \A d \in Conns \ {c} : pc'[d] = pc[d]
  BY <1>0, GoesEffect DEF Client, Server
<1>2. /\ sock' \in [Conns -> Sockets] /\ sock'[c] = k
      /\ In(c, "client")' = In(c, "client") /\ In(c, "server")' = k["server"].in
      /\ \A d \in Conns \ {c} : sock'[d] = sock[d]
  <2>1. /\ sock' \in [Conns -> Sockets] /\ sock'[c] = k
        /\ \A s \in Sides : In(c, s)' = k[s].in
        /\ \A d \in Conns \ {c} : sock'[d] = sock[d]
    BY SockEffect, ZenonT(60)
  <2> QED
    BY <1>0, <2>1
<1>3. StateTypeOK' /\ Others(c)
  BY <1>1, <1>2 DEF StateTypeOK, Others, Same, dataVars
<1>4. /\ Late(c) /\ Late(c)' /\ ~Early(c)' /\ ~Early(c) /\ req[c] # None
      /\ ConData(c)' = ConData(c) /\ Fin(c)' = Fin(c)
  BY <1>0, <1>1, <1>2 DEF ConnInv, Places, Late, Early, ConData, Fin
<1>5. Places(c)'
  BY <1>1, <1>2, <1>4 DEF ConnInv, Places, ServerPCs
<1>6. Ends(c)'
  BY <1>0, <1>1, <1>2, <1>4 DEF ConnInv, Ends
<1>7. Arrives(c)'
  BY <1>1, <1>4 DEF Arrives
<1>8. Follows(c)'
  <2>1. Moved(c)' = Moved(c) /\ Written(c)' = Written(c)
    BY <1>1, <1>4 DEF Moved, Written, dataVars
  <2>2. CASE k["server"].in = In(c, "server") /\ Server(c) # "signal"
    <3>1. Consumed(c)' = Consumed(c)
      BY <1>1, <1>4, <2>2 DEF Consumed
    <3> QED
      BY <1>1, <1>2, <1>4, <2>1, <2>2, <3>1 DEF ConnInv, Follows
  <2>3. CASE k["server"].in = <<>> /\ Fin(c)
    BY <1>1, <1>2, <1>4, <2>3 DEF Follows
  <2> QED
    BY <2>2, <2>3
<1>9. Answers(c)'
  BY <1>1, <1>2, <1>4 DEF ConnInv, Answers
<1>10. Data(c)'
  BY <1>1, <1>2, <1>4 DEF ConnInv, Data, dataVars
<1> QED
  BY <1>3, <1>5, <1>6, <1>7, <1>8, <1>9, <1>10 DEF ConnInv

LEMMA HandshakeFailsKeeps ==
  ASSUME StateTypeOK, NEW c \in Conns, ConnInv(c), NEW s \in Sides,
         pc[c][s] \in {"prepare", "sync", "modify", "syncQ"},
         NEW k \in Sockets, HandshakeFails(c, s, k),
         k = sock[c] \/ (k = ErrorSeen(sock[c], s) /\ In(c, s) = <<>>),
         UNCHANGED <<alive, msgVars, con_data, dataVars, accepted, queued>>,
         faults' \in 0 .. MaxFaults
  PROVE  StateTypeOK' /\ ConnInv(c)' /\ Others(c)
<1>0. /\ "client" \in Sides /\ "server" \in Sides /\ Peer("server") = "client"
      /\ Peer("client") = "server" /\ sock[c] \in Sockets
      /\ \A t \in Sides : sock[c][t].in = In(c, t)
  BY PeerFacts, SockTypes
<1>1. /\ \A t \in Sides : k[t].fin = sock[c][t].fin /\ (k[t].err => sock[c][t].err)
      /\ k[s].in = In(c, s) /\ k[Peer(s)].in = In(c, Peer(s))
  BY <1>0, ErrorSeenEffect, PeerFacts
<1>2. UNCHANGED <<op, need, routine, req, rsp>>
  BY DEF msgVars
<1>3. CASE s = "client"
  <2>1. Return(c, k, "failed") /\ k["server"].in = In(c, "server")
    BY <1>0, <1>1, <1>3 DEF HandshakeFails
  <2>2. op[c] # "none"
    BY <1>3 DEF ConnInv, Places, Client
  <2> QED
    BY <1>2, <2>1, <2>2, ReturnKeeps
<1>4. CASE s = "server"
  <2>1. Goes(c, "server", "routine") /\ sock' = [sock EXCEPT ![c] = k] /\ UNCHANGED result
    BY <1>4 DEF HandshakeFails
  <2>2. k["client"].in = In(c, "client") /\ k["server"].in = In(c, "server")
        /\ Server(c) \in {"prepare", "sync", "modify", "syncQ"}
    BY <1>0, <1>1, <1>4 DEF Server
  <2> QED
    BY <1>1, <1>2, <2>1, <2>2, HandlerGivesUpKeeps
<1> QED
  BY <1>3, <1>4, PeerFacts

(* The client goes on within its handshake, reading from its own stream.   *)
LEMMA ClientReadsKeeps ==
  ASSUME StateTypeOK, NEW c \in Conns, ConnInv(c), NEW k \in Sockets,
         \/ Client(c) = "sync" /\ Client(c)' \in {"sync", "modify"}
         \/ Client(c) = "syncQ" /\ Client(c)' = "transfer",
         Server(c)' = Server(c), sock' = [sock EXCEPT ![c] = k],
         k["server"].in = In(c, "server"),
         \A t \in Sides : k[t].fin = sock[c][t].fin /\ k[t].err = sock[c][t].err,
         ConData(c)' = ConData(c),
         UNCHANGED <<op, need, routine, req, rsp, dataVars, accepted, result>>
  PROVE  ConnInv(c)'
<1>0. "client" \in Sides /\ "server" \in Sides
  BY PeerFacts
<1>1. sock'[c] = k /\ In(c, "server")' = In(c, "server") /\ Fin(c)' = Fin(c)
  <2>1. /\ sock' \in [Conns -> Sockets] /\ sock'[c] = k
        /\ \A s \in Sides : In(c, s)' = k[s].in
        /\ \A d \in Conns \ {c} : sock'[d] = sock[d]
    BY SockEffect, ZenonT(60)
  <2> QED
    BY <1>0, <2>1 DEF Fin
<1>2. ~Early(c)' /\ ~Early(c) /\ Late(c)' = Late(c)
  BY DEF ConnInv, Places, Late, Early
<1>3. Places(c)'
  BY <1>1, <1>2 DEF ConnInv, Places, ClientPCs
<1>4. Ends(c)'
  BY <1>0, <1>1 DEF ConnInv, Ends
<1>5. Arrives(c)' /\ Answers(c)'
  BY <1>2 DEF Arrives, Answers, Early
<1>6. Follows(c)'
  <2>1. Moved(c)' = Moved(c) /\ Written(c)' = Written(c) /\ Consumed(c)' = Consumed(c)
    BY DEF Moved, Written, Consumed, dataVars
  <2>2. Late(c) => \A i \in 1 .. Len(In(c, "server")) : In(c, "server")[i][1] # "size"
    BY DEF ConnInv, Follows
  <2> QED
    BY <1>1, <1>2, <2>1, <2>2 DEF ConnInv, Follows
<1>7. Data(c)'
  BY <1>1, <1>2 DEF ConnInv, Data, dataVars
<1> QED
  BY <1>3, <1>4, <1>5, <1>6, <1>7 DEF ConnInv

LEMMA SentStep ==
  ASSUME StateTypeOK, NEW c \in Conns, NEW s \in Sides, NEW p \in Sides, p = Peer(s),
         NEW cells \in Seq(Cells),
         sock' = [sock EXCEPT ![c] = Sent(@, s, cells)]
  PROVE  /\ sock' \in [Conns -> Sockets] /\ \A d \in Conns \ {c} : sock'[d] = sock[d]
         /\ In(c, s)' = In(c, s)
         /\ sock[c][s].fin => In(c, p)' = In(c, p)
         /\ ~sock[c][s].fin => In(c, p)' = In(c, p) \o cells
         /\ \A t \in Sides : /\ sock'[c][t].fin = sock[c][t].fin
                             /\ sock'[c][t].err => sock[c][t].err
<1> DEFINE k == Sent(sock[c], s, cells)
<1>1. sock[c] \in Sockets /\ (\A t \in Sides : sock[c][t].in = In(c, t))
  BY SockTypes, PeerFacts
<1>2. /\ k \in Sockets /\ k[s].in = sock[c][s].in
      /\ k[p].in = IF sock[c][s].fin THEN sock[c][p].in
                                         ELSE sock[c][p].in \o cells
      /\ \A t \in Sides : k[t].fin = sock[c][t].fin /\ (k[t].err => sock[c][t].err)
  BY <1>1, SentEffect
<1>3. sock' = [sock EXCEPT ![c] = k]
  BY DEF StateTypeOK
<1> HIDE DEF k
<1>4. /\ sock' \in [Conns -> Sockets] /\ sock'[c] = k
      /\ \A t \in Sides : In(c, t)' = k[t].in
      /\ \A d \in Conns \ {c} : sock'[d] = sock[d]
  BY <1>2, <1>3, SockEffect, ZenonT(60)
<1>5. In(c, s)' = In(c, s)
  BY <1>1, <1>2, <1>4
<1>6. sock[c][s].fin => In(c, p)' = In(c, p)
  BY <1>1, <1>2, <1>4
<1>7. ~sock[c][s].fin => In(c, p)' = In(c, p) \o cells
  BY <1>1, <1>2, <1>4
<1>8. \A t \in Sides : sock'[c][t].fin = sock[c][t].fin /\ (sock'[c][t].err => sock[c][t].err)
  BY <1>2, <1>4
<1>9. sock' \in [Conns -> Sockets] /\ \A d \in Conns \ {c} : sock'[d] = sock[d]
  BY <1>4
<1> QED
  BY <1>5, <1>6, <1>7, <1>8, <1>9

(* The server goes on within its handshake, writing to the client.         *)
LEMMA ServerWritesKeeps ==
  ASSUME StateTypeOK, NEW c \in Conns, ConnInv(c), NEW cells \in Seq(Cells),
         \/ Server(c) = "prepare" /\ Server(c)' = "sync"
         \/ Server(c) = "modify" /\ Server(c)' = "syncQ",
         Client(c)' = Client(c),
         sock' = [sock EXCEPT ![c] = Sent(@, "server", cells)],
         UNCHANGED <<op, need, routine, req, rsp, con_data, dataVars, accepted, result>>
  PROVE  ConnInv(c)' /\ sock' \in [Conns -> Sockets] /\ \A d \in Conns \ {c} : sock'[d] = sock[d]
<1> DEFINE J == In(c, "client")
<1>0. "client" \in Sides /\ "server" \in Sides /\ Peer("server") = "client"
  BY PeerFacts
<1>1. J \in Seq(Cells)
  BY <1>0, SockTypes
<1>4. /\ sock' \in [Conns -> Sockets] /\ \A d \in Conns \ {c} : sock'[d] = sock[d]
      /\ In(c, "server")' = In(c, "server") /\ Fin(c)' = Fin(c)
      /\ Fin(c) => In(c, "client")' = J
      /\ ~Fin(c) => In(c, "client")' = J \o cells
      /\ \A t \in Sides : /\ sock'[c][t].fin = sock[c][t].fin
                          /\ sock'[c][t].err => sock[c][t].err
  <2>1. /\ sock' \in [Conns -> Sockets] /\ \A d \in Conns \ {c} : sock'[d] = sock[d]
        /\ In(c, "server")' = In(c, "server")
        /\ sock[c]["server"].fin => In(c, "client")' = In(c, "client")
        /\ ~sock[c]["server"].fin => In(c, "client")' = In(c, "client") \o cells
        /\ \A t \in Sides : /\ sock'[c][t].fin = sock[c][t].fin
                            /\ sock'[c][t].err => sock[c][t].err
    BY <1>0, SentStep, Zenon
  <2> QED
    BY <1>0, <2>1 DEF Fin
<1>5. Late(c) /\ Late(c)' /\ ~Early(c)' /\ req[c] # None /\ ConData(c)' = ConData(c)
  BY DEF ConnInv, Places, Late, Early, ConData
<1>6. Places(c)'
  BY <1>4, <1>5 DEF ConnInv, Places, ServerPCs
<1>7. Ends(c)'
  BY <1>0, <1>4 DEF ConnInv, Ends
<1>8. Arrives(c)'
  BY <1>5 DEF Arrives, Early
<1>9. Follows(c)'
  <2>1. Moved(c)' = Moved(c) /\ Written(c)' = Written(c) /\ Consumed(c)' = Consumed(c)
    BY <1>5 DEF Moved, Written, Consumed, dataVars
  <2> QED
    BY <1>4, <1>5, <2>1 DEF ConnInv, Follows
<1>10. Answers(c)'
  <2>1. CASE Fin(c)
    BY <1>4, <1>5, <2>1 DEF ConnInv, Answers
  <2>2. CASE ~Fin(c) /\ Client(c) = "response"
    <3>1. Len(J) >= 2
      BY <1>5, <2>2 DEF ConnInv, Answers
    <3>2. /\ Len(J \o cells) >= 2 /\ Len(J \o cells) # 1
          /\ (J \o cells)[1] = J[1] /\ (J \o cells)[2] = J[2]
      BY <1>1, <3>1
    <3>3. In(c, "client")' = J \o cells
      BY <1>4, <2>2
    <3> QED
      BY <1>4, <1>5, <2>2, <3>1, <3>2, <3>3 DEF ConnInv, Answers
  <2> QED
    BY <2>1, <2>2 DEF Answers
<1>11. Data(c)'
  BY <1>4, <1>5 DEF ConnInv, Data, dataVars
<1> QED
  BY <1>4, <1>6, <1>7, <1>8, <1>9, <1>10, <1>11 DEF ConnInv

(* The client writes to the server within its handshake: first address and *)
(* keys, then "Q".                                                         *)
LEMMA ClientWritesKeeps ==
  ASSUME StateTypeOK, NEW c \in Conns, ConnInv(c), NEW cells \in Seq(Cells),
         \/ /\ Client(c) = "prepare" /\ Client(c)' = "sync" /\ cells = <<AddrCell, KeysCell>>
            /\ op[c] = "load" => rsp[c].metadata.size # 0
         \/ Client(c) = "modify" /\ Client(c)' = "syncQ" /\ cells = <<QCell>>,
         Server(c)' = Server(c),
         sock[c]["client"].fin => In(c, "server")' = In(c, "server"),
         ~sock[c]["client"].fin => In(c, "server")' = In(c, "server") \o cells,
         \A t \in Sides :
           sock'[c][t].fin = sock[c][t].fin /\ (sock'[c][t].err => sock[c][t].err),
         UNCHANGED <<op, need, routine, req, rsp, con_data, dataVars, accepted, result>>
  PROVE  ConnInv(c)'
<1> DEFINE I == In(c, "server")
           g == ConData(c)
<1>0. "client" \in Sides /\ "server" \in Sides /\ Peer("client") = "server"
  BY PeerFacts
<1>1. I \in Seq(Cells) /\ sock[c]["client"].fin = Fin(c)
  BY <1>0, SockTypes DEF ConnInv, Ends, Fin
<1>4. /\ Fin(c)' = Fin(c)
      /\ Fin(c) => In(c, "server")' = I
      /\ ~Fin(c) => In(c, "server")' = I \o cells
  BY <1>0, <1>1 DEF Fin
<1>5. /\ ~Early(c)' /\ ~Early(c) /\ Late(c)' = Late(c) /\ ConData(c)' = ConData(c)
      /\ Late(c) => req[c] # None
  BY DEF ConnInv, Places, Late, Early, ConData
<1>6. Places(c)'
  BY <1>4, <1>5 DEF ConnInv, Places, ClientPCs
<1>7. Ends(c)'
  BY <1>0, <1>4 DEF ConnInv, Ends
<1>8. Arrives(c)' /\ Answers(c)'
  BY <1>5 DEF Arrives, Answers, Early
<1>9. Follows(c)'
  <2>1. Moved(c)' = Moved(c) /\ Consumed(c)' = Consumed(c)
    BY <1>5 DEF Moved, Consumed, dataVars
  <2>2. Late(c) => \A i \in 1 .. Len(I) : I[i][1] # "size"
    BY DEF ConnInv, Follows
  <2>3. CASE Fin(c) \/ ~Late(c)
    BY <1>4, <1>5, <2>1, <2>2, <2>3 DEF ConnInv, Follows
  <2>4. CASE ~Fin(c) /\ Late(c)
    <3> DEFINE J == I \o cells
    <3>1. \A i \in 1 .. Len(cells) : cells[i][1] = "con"
      BY HandshakeInCells DEF AddrCell, KeysCell, QCell
    <3>2. /\ J \in Seq(Cells) /\ Len(I) \in Nat /\ Len(J) = Len(I) + Len(cells)
          /\ \A i \in 1 .. Len(I) : J[i] = I[i]
          /\ \A i \in 1 .. Len(cells) : J[Len(I) + i] = cells[i]
      BY <1>1, ConcatFacts
    <3>3. ASSUME NEW i \in 1 .. Len(J) PROVE J[i][1] # "size"
      <4>1. Len(cells) \in Nat
        OBVIOUS
      <4>2. CASE i <= Len(I)
        BY <2>2, <2>4, <3>2, <4>2
      <4>3. CASE i > Len(I)
        <5>1. i - Len(I) \in 1 .. Len(cells) /\ Len(I) + (i - Len(I)) = i
          BY <3>2, <4>1, <4>3
        <5> QED
          BY <3>1, <3>2, <5>1
      <4> QED
        BY <3>2, <4>2, <4>3
    <3>4. ASSUME Len(g) = 2 => g[2] = "keys"
          PROVE  /\ g # <<>> => g[1] = "addr"
                 /\ Len(J) = Written(c)' - Consumed(c)
                 /\ \A i \in 1 .. Len(J) : J[i] = HandshakeCells[i + Consumed(c)]
      <4>1. CASE Client(c) = "prepare"
        <5>1. I = <<>> /\ g = <<>>
          BY <2>4, <4>1 DEF ConnInv, Follows
        <5>2. Server(c) # "signal"
          BY <2>4, <5>1 DEF ConnInv, Follows
        <5>3. Consumed(c) = 0 /\ Written(c)' = 2
          BY <4>1, <5>1, <5>2 DEF Consumed, Written
        <5>4. J = <<AddrCell, KeysCell>>
          <6>1. cells = <<AddrCell, KeysCell>>
            BY <4>1
          <6>2. <<>> \o cells = cells
            BY ConcatEmptySeq
          <6> QED
            BY <5>1, <6>1, <6>2, Zenon
        <5> HIDE DEF J
        <5>5. Len(J) = 2 /\ J[1] = AddrCell /\ J[2] = KeysCell
          BY <5>4
        <5>6. \A i \in 1 .. 2 : J[i] = HandshakeCells[i]
          BY <5>5, HandshakeInCells
        <5> QED
          BY <5>1, <5>3, <5>5, <5>6
      <4>2. CASE Client(c) = "modify"
        <5>1. /\ g # <<>> => g[1] = "addr"
              /\ Len(I) = Written(c) - Consumed(c)
              /\ \A i \in 1 .. Len(I) : I[i] = HandshakeCells[i + Consumed(c)]
          BY <2>4, <3>4, <4>2 DEF ConnInv, Follows
        <5>2. Written(c) = 2 /\ Written(c)' = 3
          BY <4>2 DEF Written
        <5>3. cells = <<QCell>>
          BY <4>2
        <5>4. Len(cells) = 1 /\ cells[1] = QCell
          BY <5>3
        <5>5. Consumed(c) \in Nat
          BY DEF Consumed, StateTypeOK, ConData, Sides
        <5> HIDE DEF J, I
        <5>6. Len(J) = 3 - Consumed(c)
          BY <3>2, <5>1, <5>2, <5>4, <5>5
        <5>7. J[Len(I) + 1] = QCell /\ (Len(I) + 1) + Consumed(c) = 3
          BY <3>2, <5>1, <5>2, <5>4, <5>5
        <5>8. ASSUME NEW i \in 1 .. Len(J) PROVE J[i] = HandshakeCells[i + Consumed(c)]
          <6>1. CASE i \in 1 .. Len(I)
            BY <3>2, <5>1, <6>1
          <6>2. CASE i = Len(I) + 1
            BY <5>7, <6>2, HandshakeInCells
          <6> QED
            BY <3>2, <5>4, <6>1, <6>2
        <5> QED
          BY <5>1, <5>2, <5>6, <5>8
      <4> QED
        BY <4>1, <4>2
    <3>5. In(c, "server")' = J
      BY <1>4, <2>4
    <3>6. J = <<>> \/ J[1][1] # "size"
      BY <3>2, <3>3
    <3> HIDE DEF J
    <3> QED
      BY <1>4, <1>5, <2>1, <2>4, <3>3, <3>4, <3>5, <3>6 DEF ConnInv, Follows
  <2> QED
    BY <2>3, <2>4
<1>10. Data(c)'
  <2>1. op[c] = "load" => rsp[c].metadata = Metadata(need[c])
    BY DEF ConnInv, Data
  <2> QED
    BY <1>4, <1>5, <2>1 DEF ConnInv, Data, dataVars
<1> QED
  BY <1>6, <1>7, <1>8, <1>9, <1>10 DEF ConnInv

LEMMA PrepareKeeps ==
  ASSUME StateTypeOK, NEW c \in Conns, ConnInv(c), NEW s \in Sides, Prepare(c, s)
  PROVE  StateTypeOK' /\ ConnInv(c)' /\ Others(c)
<1>0. /\ "client" \in Sides /\ "server" \in Sides /\ Peer("server") = "client"
      /\ Peer("client") = "server" /\ "sync" \in ClientPCs \cup ServerPCs
      /\ s = "client" \/ s = "server"
  BY PeerFacts DEF ClientPCs
<1>1. /\ pc[c][s] = "prepare"
      /\ UNCHANGED <<alive, msgVars, con_data, dataVars, accepted, queued>>
      /\ UNCHANGED <<op, need, routine, req, rsp>>
  BY DEF Prepare, msgVars
<1>2. CASE /\ ~Unallocatable(c, s)
           /\ sock' = [sock EXCEPT ![c] = Sent(@, s, <<AddrCell, KeysCell>>)]
           /\ Goes(c, s, "sync") /\ UNCHANGED <<nicVars, result, faults>>
  <2>1. PICK cells \in Seq(Cells) : cells = <<AddrCell, KeysCell>>
    BY HandshakeInCells
  <2>2. sock' = [sock EXCEPT ![c] = Sent(@, s, cells)]
    BY <1>2, <2>1
  <2>3. /\ pc' \in [Conns -> [Sides -> ClientPCs \cup ServerPCs]]
        /\ pc'[c][s] = "sync" /\ pc'[c][Peer(s)] = pc[c][Peer(s)]
        /\ \A d \in Conns \ {c} : pc'[d] = pc[d]
    BY <1>0, <1>2, GoesEffect
  <2>4. ASSUME sock' \in [Conns -> Sockets], \A d \in Conns \ {c} : sock'[d] = sock[d]
        PROVE  StateTypeOK' /\ Others(c)
    BY <1>1, <1>2, <2>3, <2>4 DEF StateTypeOK, Others, Same, dataVars
  <2>6. CASE s = "client"
    <3>1. Client(c) = "prepare" /\ Client(c)' = "sync" /\ Server(c)' = Server(c)
      BY <1>0, <1>1, <2>3, <2>6 DEF Client, Server
    <3>2. sock' = [sock EXCEPT ![c] = Sent(@, "client", cells)]
      BY <2>2, <2>6
    <3>3. /\ sock' \in [Conns -> Sockets] /\ \A d \in Conns \ {c} : sock'[d] = sock[d]
          /\ In(c, "client")' = In(c, "client")
          /\ sock[c]["client"].fin => In(c, "server")' = In(c, "server")
          /\ ~sock[c]["client"].fin => In(c, "server")' = In(c, "server") \o cells
          /\ \A t \in Sides : /\ sock'[c][t].fin = sock[c][t].fin
                              /\ sock'[c][t].err => sock[c][t].err
      BY <1>0, <3>2, SentStep, ZenonT(60)
    <3>4. op[c] = "load" => rsp[c].metadata.size # 0
      BY <1>2, <2>6 DEF Unallocatable
    <3>5. ConnInv(c)'
      BY <1>1, <1>2, <2>1, <3>1, <3>3, <3>4, ClientWritesKeeps
    <3> QED
      BY <2>4, <3>3, <3>5
  <2>7. CASE s = "server"
    <3>1. Server(c) = "prepare" /\ Server(c)' = "sync" /\ Client(c)' = Client(c)
      BY <1>0, <1>1, <2>3, <2>7 DEF Client, Server
    <3>2. sock' = [sock EXCEPT ![c] = Sent(@, "server", cells)]
      BY <2>2, <2>7
    <3> QED
      BY <1>1, <1>2, <2>4, <3>1, <3>2, ServerWritesKeeps
  <2> QED
    BY <1>0, <2>6, <2>7
<1>3. CASE HandshakeFails(c, s, sock[c]) /\ faults' \in 0 .. MaxFaults
  <2>1. sock[c] \in Sockets /\ pc[c][s] \in {"prepare", "sync", "modify", "syncQ"}
    BY <1>1, SockTypes
  <2> QED
    BY <1>1, <1>3, <2>1, HandshakeFailsKeeps
<1> QED
  BY <1>2, <1>3, FaultEffect DEF Prepare, AddrCell, KeysCell

LEMMA ModifyQpKeeps ==
  ASSUME StateTypeOK, NEW c \in Conns, ConnInv(c), NEW s \in Sides, ModifyQp(c, s)
  PROVE  StateTypeOK' /\ ConnInv(c)' /\ Others(c)
<1>0. /\ "client" \in Sides /\ "server" \in Sides /\ Peer("server") = "client"
      /\ Peer("client") = "server" /\ "syncQ" \in ClientPCs \cup ServerPCs
      /\ s = "client" \/ s = "server"
  BY PeerFacts DEF ClientPCs
<1>1. /\ pc[c][s] = "modify"
      /\ UNCHANGED <<alive, msgVars, con_data, dataVars, accepted, queued>>
      /\ UNCHANGED <<op, need, routine, req, rsp>>
  BY DEF ModifyQp, msgVars
<1>2. CASE /\ sock' = [sock EXCEPT ![c] = Sent(@, s, <<QCell>>)]
           /\ Goes(c, s, "syncQ") /\ UNCHANGED <<nicVars, result, faults>>
  <2>1. PICK cells \in Seq(Cells) : cells = <<QCell>>
    BY HandshakeInCells
  <2>2. sock' = [sock EXCEPT ![c] = Sent(@, s, cells)]
    BY <1>2, <2>1
  <2>3. /\ pc' \in [Conns -> [Sides -> ClientPCs \cup ServerPCs]]
        /\ pc'[c][s] = "syncQ" /\ pc'[c][Peer(s)] = pc[c][Peer(s)]
        /\ \A d \in Conns \ {c} : pc'[d] = pc[d]
    BY <1>0, <1>2, GoesEffect
  <2>4. ASSUME sock' \in [Conns -> Sockets], \A d \in Conns \ {c} : sock'[d] = sock[d]
        PROVE  StateTypeOK' /\ Others(c)
    BY <1>1, <1>2, <2>3, <2>4 DEF StateTypeOK, Others, Same, dataVars
  <2>6. CASE s = "client"
    <3>1. Client(c) = "modify" /\ Client(c)' = "syncQ" /\ Server(c)' = Server(c)
      BY <1>0, <1>1, <2>3, <2>6 DEF Client, Server
    <3>2. sock' = [sock EXCEPT ![c] = Sent(@, "client", cells)]
      BY <2>2, <2>6
    <3>3. /\ sock' \in [Conns -> Sockets] /\ \A d \in Conns \ {c} : sock'[d] = sock[d]
          /\ In(c, "client")' = In(c, "client")
          /\ sock[c]["client"].fin => In(c, "server")' = In(c, "server")
          /\ ~sock[c]["client"].fin => In(c, "server")' = In(c, "server") \o cells
          /\ \A t \in Sides : /\ sock'[c][t].fin = sock[c][t].fin
                              /\ sock'[c][t].err => sock[c][t].err
      BY <1>0, <3>2, SentStep, ZenonT(60)
    <3>5. ConnInv(c)'
      BY <1>1, <1>2, <2>1, <3>1, <3>3, ClientWritesKeeps
    <3> QED
      BY <2>4, <3>3, <3>5
  <2>7. CASE s = "server"
    <3>1. Server(c) = "modify" /\ Server(c)' = "syncQ" /\ Client(c)' = Client(c)
      BY <1>0, <1>1, <2>3, <2>7 DEF Client, Server
    <3>2. sock' = [sock EXCEPT ![c] = Sent(@, "server", cells)]
      BY <2>2, <2>7
    <3> QED
      BY <1>1, <1>2, <2>4, <3>1, <3>2, ServerWritesKeeps
  <2> QED
    BY <1>0, <2>6, <2>7
<1>3. CASE HandshakeFails(c, s, sock[c]) /\ faults' \in 0 .. MaxFaults
  <2>1. sock[c] \in Sockets /\ pc[c][s] \in {"prepare", "sync", "modify", "syncQ"}
    BY <1>1, SockTypes
  <2> QED
    BY <1>1, <1>3, <2>1, HandshakeFailsKeeps
<1> QED
  BY <1>2, <1>3, FaultEffect DEF ModifyQp, QCell

LEMMA SyncErrorKeeps ==
  ASSUME StateTypeOK, NEW c \in Conns, ConnInv(c), NEW s \in Sides, SyncError(c, s)
  PROVE  StateTypeOK' /\ ConnInv(c)' /\ Others(c)
<1>1. sock[c] \in Sockets /\ ErrorSeen(sock[c], s) \in Sockets
  BY SockTypes, ErrorSeenEffect
<1>2. /\ pc[c][s] \in {"prepare", "sync", "modify", "syncQ"} /\ In(c, s) = <<>>
      /\ HandshakeFails(c, s, ErrorSeen(sock[c], s)) /\ UNCHANGED faults
      /\ UNCHANGED <<alive, msgVars, con_data, dataVars, accepted, queued>>
  BY DEF SyncError
<1>3. faults' \in 0 .. MaxFaults
  BY <1>2, FaultEffect
<1> QED
  BY <1>1, <1>2, <1>3, HandshakeFailsKeeps

(* The handshake's cells as the server finds them.                         *)
Wellformed(c) ==
  /\ ConData(c) # <<>> => ConData(c)[1] = "addr"
  /\ Len(In(c, "server")) = Written(c) - Consumed(c)
  /\ \A k \in 1 .. Len(In(c, "server")) : In(c, "server")[k] = HandshakeCells[k + Consumed(c)]
InHandshake(c) ==
  /\ ~Fin(c) /\ Client(c) \in {"sync", "modify", "syncQ", "transfer"}
  /\ Len(ConData(c)) = 2 => ConData(c)[2] = "keys"

(* The server goes on within its handshake, reading n cells.               *)
LEMMA ServerReadsKeeps ==
  ASSUME StateTypeOK, NEW c \in Conns, ConnInv(c), NEW n \in {1, 2},
         \/ Server(c) = "syncQ" /\ Server(c)' = "signal" /\ ConData(c)' = ConData(c)
         \/ Server(c) = "sync" /\ Server(c)' = "modify" /\ Len(ConData(c)') = 2
         \/ Server(c) = "sync" /\ Server(c)' = "sync" /\ Len(ConData(c)') <= 1,
         Client(c)' = Client(c), In(c, "client")' = In(c, "client"),
         Len(In(c, "server")) >= n, In(c, "server")' \in Seq(Cells),
         Len(In(c, "server")') = Len(In(c, "server")) - n,
         \A k \in 1 .. Len(In(c, "server")) - n :
           In(c, "server")'[k] = In(c, "server")[k + n],
         \A t \in Sides : sock'[c][t].fin = sock[c][t].fin /\ sock'[c][t].err = sock[c][t].err,
         UNCHANGED <<op, need, routine, req, rsp, dataVars, accepted, result>>,
         InHandshake(c)' => Wellformed(c)'
  PROVE  ConnInv(c)'
<1> DEFINE I == In(c, "server")
           J == In(c, "server")'
<1>0. "client" \in Sides /\ "server" \in Sides
  BY PeerFacts
<1>1. /\ Late(c) /\ Late(c)' /\ ~Early(c)' /\ req[c] # None /\ c \in accepted
      /\ Fin(c)' = Fin(c) /\ I \in Seq(Cells) /\ Len(I) \in Nat
  BY <1>0, SockTypes DEF ConnInv, Places, Data, Late, Early, Fin
<1>2. Places(c)'
  BY <1>1 DEF ConnInv, Places, ServerPCs
<1>3. Ends(c)'
  BY <1>0, <1>1 DEF ConnInv, Ends
<1>4. Arrives(c)'
  BY <1>1 DEF Arrives, Early
<1>5. Server(c) = "sync" => /\ ~Moved(c) /\ ~(landed[c] > 0)
  <2>1. Server(c) = "sync" => Len(ConData(c)) <= 1
    BY <1>1 DEF ConnInv, Follows
  <2>2. Server(c) = "sync" => ConData(c) # <<"addr", "keys">>
    <3>1. Len(<<"addr", "keys">>) = 2 /\ ~(2 <= 1)
      OBVIOUS
    <3> QED
      BY <2>1, <3>1, Zenon
  <2> QED
    BY <2>2 DEF Moved, ConnInv, Data
<1>6. Follows(c)'
  <2>1. ASSUME NEW k \in 1 .. Len(J), J[k][1] = "size"
        PROVE  Moved(c)' /\ Client(c)' = "returned" /\ Len(J) <= k + 1 /\ Server(c) = "syncQ"
    <3>1. k + n \in 1 .. Len(I) /\ I[k + n][1] = "size"
      BY <1>1, <2>1
    <3>2. Moved(c) /\ Client(c) = "returned" /\ Len(I) <= (k + n) + 1
      BY <1>1, <3>1 DEF ConnInv, Follows
    <3>3. Server(c) = "syncQ" /\ ConData(c)' = ConData(c)
      BY <1>5, <3>2
    <3>4. Moved(c)'
      BY <3>2, <3>3 DEF Moved, dataVars
    <3>5. Len(J) <= k + 1
      BY <1>1, <3>2
    <3> QED
      BY <3>2, <3>3, <3>4, <3>5
  <2>2. Server(c)' # "signal" /\ J # <<>> => J[1][1] # "size"
    <3>1. J # <<>> => 1 \in 1 .. Len(J)
      OBVIOUS
    <3> QED
      BY <2>1, <3>1
  <2>3. ~Fin(c) => Client(c) \notin {"response", "prepare"}
    <3>1. I # <<>>
      BY <1>1
    <3> QED
      BY <1>1, <3>1 DEF ConnInv, Follows
  <2>4. /\ Server(c)' = "sync" => Len(ConData(c)') <= 1
        /\ Server(c)' \in {"modify", "syncQ", "signal"} => Len(ConData(c)') = 2
        /\ Server(c)' # "prepare" /\ Server(c)' # "queue"
    BY <1>1 DEF ConnInv, Follows
  <2> QED
    BY <1>1, <2>1, <2>2, <2>3, <2>4 DEF Follows, InHandshake, Wellformed
<1>7. Answers(c)'
  BY <1>1 DEF ConnInv, Answers
<1>8. Data(c)'
  <2>1. landed[c] > 0 => ConData(c)' = <<"addr", "keys">>
    BY <1>5 DEF ConnInv, Data
  <2> QED
    BY <1>1, <2>1 DEF ConnInv, Data, dataVars
<1> QED
  BY <1>2, <1>3, <1>4, <1>6, <1>7, <1>8 DEF ConnInv

(* What the server knows of its own data while it reads.                   *)
LEMMA SyncFacts ==
  ASSUME StateTypeOK, NEW c \in Conns, ConnInv(c), Server(c) \in {"sync", "syncQ"}
  PROVE  /\ ConData(c) \in Seq(Values) /\ In(c, "server") \in Seq(Cells)
         /\ InHandshake(c) => Wellformed(c)
         /\ Server(c) = "syncQ" => Len(ConData(c)) = 2
<1>1. Late(c)
  BY DEF Late
<1> QED
  BY <1>1, SockTypes, PeerFacts DEF ConnInv, Follows, InHandshake, Wellformed, ConData, StateTypeOK

LEMMA SyncQKeeps ==
  ASSUME StateTypeOK, NEW c \in Conns, ConnInv(c), NEW s \in Sides, SyncQ(c, s)
  PROVE  StateTypeOK' /\ ConnInv(c)' /\ Others(c)
<1> DEFINE k == Read1(sock[c], s)
           l == IF s = "client" THEN "transfer" ELSE "signal"
           I == In(c, "server")
<1>0. /\ "client" \in Sides /\ "server" \in Sides /\ Peer("server") = "client"
      /\ Peer("client") = "server"
      /\ s = "client" \/ s = "server"
      /\ l \in ClientPCs \cup ServerPCs
  BY PeerFacts DEF ClientPCs, ServerPCs
<1>1. /\ pc[c][s] = "syncQ" /\ In(c, s) # <<>> /\ Goes(c, s, l)
      /\ UNCHANGED <<alive, con_data, dataVars, accepted, queued, result, faults>>
      /\ UNCHANGED <<op, need, routine, req, rsp>> /\ sock' = [sock EXCEPT ![c] = k]
  BY DEF SyncQ, msgVars, StateTypeOK
<1>2. sock[c] \in Sockets /\ \A t \in Sides : sock[c][t].in = In(c, t)
  BY SockTypes
<1>3. /\ k \in Sockets /\ k[s].in = Tail(In(c, s)) /\ k[Peer(s)].in = In(c, Peer(s))
      /\ \A t \in Sides : k[t].fin = sock[c][t].fin /\ k[t].err = sock[c][t].err
  <2>1. sock[c][s].in # <<>> /\ sock[c][s].in = In(c, s)
        /\ sock[c][Peer(s)].in = In(c, Peer(s))
    BY <1>1, <1>2, PeerFacts
  <2>2. /\ k \in Sockets /\ k[s].in = Tail(sock[c][s].in) /\ k[Peer(s)].in = sock[c][Peer(s)].in
        /\ \A t \in Sides : k[t].fin = sock[c][t].fin /\ k[t].err = sock[c][t].err
    BY <1>2, <2>1, Read1Effect
  <2> QED
    BY <2>1, <2>2
<1> HIDE DEF k
<1>4. /\ sock' \in [Conns -> Sockets] /\ sock'[c] = k
      /\ \A t \in Sides : In(c, t)' = k[t].in
      /\ \A d \in Conns \ {c} : sock'[d] = sock[d]
  BY <1>1, <1>3, SockEffect, ZenonT(60)
<1>5. /\ pc' \in [Conns -> [Sides -> ClientPCs \cup ServerPCs]]
      /\ pc'[c][s] = l /\ pc'[c][Peer(s)] = pc[c][Peer(s)]
      /\ \A d \in Conns \ {c} : pc'[d] = pc[d]
  BY <1>0, <1>1, GoesEffect
<1>6. StateTypeOK' /\ Others(c)
  BY <1>1, <1>4, <1>5 DEF StateTypeOK, Others, Same, dataVars
<1>7. ConData(c)' = ConData(c)
  BY <1>1 DEF ConData
<1>8. CASE s = "client"
  <2>1. Client(c) = "syncQ" /\ Client(c)' = "transfer" /\ Server(c)' = Server(c)
    BY <1>0, <1>1, <1>5, <1>8 DEF Client, Server
  <2>2. k["server"].in = In(c, "server")
    BY <1>0, <1>3, <1>8
  <2> QED
    BY <1>1, <1>3, <1>6, <1>7, <2>1, <2>2, ClientReadsKeeps
<1>9. CASE s = "server"
  <2>1. Server(c) = "syncQ" /\ Server(c)' = "signal" /\ Client(c)' = Client(c)
    BY <1>0, <1>1, <1>5, <1>9 DEF Client, Server
  <2>2. /\ In(c, "client")' = In(c, "client") /\ I # <<>>
        /\ In(c, "server")' = Tail(I)
        /\ \A t \in Sides : sock'[c][t].fin = sock[c][t].fin /\ sock'[c][t].err = sock[c][t].err
    BY <1>0, <1>1, <1>3, <1>4, <1>9
  <2>3. I \in Seq(Cells) /\ Len(I) \in Nat /\ (InHandshake(c) => Wellformed(c))
        /\ Len(ConData(c)) = 2
    BY <2>1, SyncFacts
  <2> HIDE DEF I
  <2>4. /\ In(c, "server")' \in Seq(Cells) /\ Len(In(c, "server")') = Len(I) - 1
        /\ (\A i \in 1 .. Len(I) - 1 : In(c, "server")'[i] = I[i + 1]) /\ Len(I) >= 1
    BY <2>2, <2>3, TailFacts, SMTT(60)
  <2>5. ASSUME InHandshake(c)' PROVE Wellformed(c)'
    <3>1. Fin(c)' = Fin(c)
      BY <1>0, <2>2 DEF Fin
    <3>2. InHandshake(c) /\ Wellformed(c)
      BY <1>7, <2>1, <2>3, <2>5, <3>1 DEF InHandshake
    <3>3. Consumed(c) = Len(ConData(c)) /\ Consumed(c)' = 3 /\ Written(c)' = Written(c)
      BY <2>1 DEF Consumed, Written
    <3>4. Consumed(c) = 2
      BY <2>3, <3>3, Zenon
    <3>5. Len(I) = Written(c) - 2 /\ Written(c) \in {2, 3}
      BY <3>2, <3>4 DEF Wellformed, Written, I
    <3>6. Len(I) = 1 /\ Written(c) = 3
      BY <2>4, <3>5
    <3>7. Len(In(c, "server")') = 0
      BY <2>4, <3>6
    <3>8. ConData(c)' # <<>> => ConData(c)'[1] = "addr"
      BY <1>7, <3>2 DEF Wellformed
    <3>9. Len(In(c, "server")') = Written(c)' - Consumed(c)'
      BY <3>3, <3>6, <3>7
    <3>10. 1 .. Len(In(c, "server")') = {}
      BY <3>7
    <3> QED
      BY <3>8, <3>9, <3>10 DEF Wellformed
  <2> QED
    BY <1>1, <1>6, <1>7, <2>1, <2>2, <2>4, <2>5, ServerReadsKeeps DEF I
<1> QED
  BY <1>0, <1>8, <1>9

LEMMA CellValue ==
  ASSUME NEW x \in Cells
  PROVE  x[2] \in Values
  BY DEF Values

(* One read of sock_sync_data takes n cells and leaves g in the buffer.    *)
Reads(c, s, n, l, g) ==
  /\ pc[c][s] = "sync" /\ Len(In(c, s)) >= n
  /\ pc' \in [Conns -> [Sides -> ClientPCs \cup ServerPCs]]
  /\ pc'[c][s] = l /\ pc'[c][Peer(s)] = pc[c][Peer(s)]
  /\ \A d \in Conns \ {c} : pc'[d] = pc[d]
  /\ con_data' = [con_data EXCEPT ![c][s] = g]
  /\ sock' = [sock EXCEPT ![c] = IF n = 1 THEN Read1(@, s) ELSE Read2(@, s)]
  /\ \/ /\ con_data[c][s] = <<>> /\ n = 2 /\ l = "modify"
        /\ g = <<In(c, s)[1][2], In(c, s)[2][2]>>
     \/ con_data[c][s] = <<>> /\ g = <<In(c, s)[1][2]>> /\ n = 1 /\ l = "sync"
     \/ g = <<In(c, s)[1][2], Garbage>> /\ l = "modify"
  /\ faults' \in 0 .. MaxFaults

LEMMA SyncDataEffect ==
  ASSUME StateTypeOK, NEW c \in Conns, NEW s \in Sides, SyncData(c, s)
  PROVE  \E n \in {1, 2}, l \in {"sync", "modify"}, g \in Seq(Values) :
           Reads(c, s, n, l, g)
<1> DEFINE in == In(c, s)
<1>0. /\ "sync" \in ClientPCs \cup ServerPCs /\ "modify" \in ClientPCs \cup ServerPCs
      /\ pc[c][s] = "sync" /\ in # <<>> /\ in \in Seq(Cells) /\ Len(in) \in Nat
  BY SockTypes DEF SyncData, ClientPCs
<1>1. in[1][2] \in Values /\ (Len(in) >= 2 => in[2][2] \in Values) /\ Garbage \in Values
      /\ Len(in) >= 1
  <2>1. in[1] \in Cells /\ (Len(in) >= 2 => in[2] \in Cells) /\ Len(in) >= 1
    BY <1>0
  <2> QED
    BY <2>1, CellValue DEF Values
<1>2. Goes(c, s, "modify") =>
        /\ pc' \in [Conns -> [Sides -> ClientPCs \cup ServerPCs]]
        /\ pc'[c][s] = "modify" /\ pc'[c][Peer(s)] = pc[c][Peer(s)]
        /\ \A d \in Conns \ {c} : pc'[d] = pc[d]
  BY <1>0, GoesEffect
<1>3. faults' \in 0 .. MaxFaults
  BY FaultEffect DEF SyncData
<1>4. CASE /\ con_data[c][s] = <<>> /\ Len(in) >= 2
           /\ con_data' = [con_data EXCEPT ![c][s] = <<in[1][2], in[2][2]>>]
           /\ sock' = [sock EXCEPT ![c] = Read2(@, s)] /\ Goes(c, s, "modify")
  <2>1. <<in[1][2], in[2][2]>> \in Seq(Values)
    BY <1>1, <1>4
  <2> HIDE DEF in
  <2> WITNESS 2 \in {1, 2}, "modify" \in {"sync", "modify"},
              <<in[1][2], in[2][2]>> \in Seq(Values)
  <2> QED
    BY <1>0, <1>2, <1>3, <1>4 DEF in, Reads
<1>5. CASE /\ con_data[c][s] = <<>>
           /\ con_data' = [con_data EXCEPT ![c][s] = <<in[1][2]>>]
           /\ sock' = [sock EXCEPT ![c] = Read1(@, s)] /\ UNCHANGED pc
  <2>1. <<in[1][2]>> \in Seq(Values)
    BY <1>1
  <2>2. /\ pc' \in [Conns -> [Sides -> ClientPCs \cup ServerPCs]]
        /\ pc'[c][s] = "sync" /\ pc'[c][Peer(s)] = pc[c][Peer(s)]
        /\ \A d \in Conns \ {c} : pc'[d] = pc[d]
    BY <1>0, <1>5 DEF StateTypeOK
  <2> HIDE DEF in
  <2> WITNESS 1 \in {1, 2}, "sync" \in {"sync", "modify"}, <<in[1][2]>> \in Seq(Values)
  <2> QED
    BY <1>0, <1>1, <1>3, <1>5, <2>2 DEF in, Reads
<1>6. CASE /\ con_data' = [con_data EXCEPT ![c][s] = <<in[1][2], Garbage>>]
           /\ sock' = [sock EXCEPT ![c] = IF Len(in) = 1 THEN Read1(@, s) ELSE Read2(@, s)]
           /\ Goes(c, s, "modify")
  <2>1. <<in[1][2], Garbage>> \in Seq(Values)
    BY <1>1
  <2>2. PICK n \in {1, 2} : Len(in) >= n /\ (n = 1 <=> Len(in) = 1)
    <3>1. \A m \in Nat : m >= 1 => \E n \in {1, 2} : m >= n /\ (n = 1 <=> m = 1)
      OBVIOUS
    <3> HIDE DEF in
    <3> QED
      BY <1>0, <1>1, <3>1, Zenon
  <2> HIDE DEF in
  <2> WITNESS n \in {1, 2}, "modify" \in {"sync", "modify"},
              <<in[1][2], Garbage>> \in Seq(Values)
  <2> QED
    BY <1>0, <1>2, <1>3, <1>6, <2>2 DEF in, Reads
<1> QED
  BY <1>4, <1>5, <1>6 DEF SyncData

LEMMA SyncDataKeeps ==
  ASSUME StateTypeOK, NEW c \in Conns, ConnInv(c), NEW s \in Sides, SyncData(c, s)
  PROVE  StateTypeOK' /\ ConnInv(c)' /\ Others(c)
<1>0. /\ "client" \in Sides /\ "server" \in Sides /\ Peer("server") = "client"
      /\ Peer("client") = "server" /\ Peer(s) \in Sides
      /\ s = "client" \/ s = "server"
  BY PeerFacts
<1>p. PICK n \in {1, 2}, l \in {"sync", "modify"}, g \in Seq(Values) : Reads(c, s, n, l, g)
  BY SyncDataEffect
<1>1. /\ pc[c][s] = "sync" /\ Len(In(c, s)) >= n
      /\ pc' \in [Conns -> [Sides -> ClientPCs \cup ServerPCs]]
      /\ pc'[c][s] = l /\ pc'[c][Peer(s)] = pc[c][Peer(s)]
      /\ \A d \in Conns \ {c} : pc'[d] = pc[d]
      /\ con_data' = [con_data EXCEPT ![c][s] = g]
      /\ sock' = [sock EXCEPT ![c] = IF n = 1 THEN Read1(@, s) ELSE Read2(@, s)]
      /\ \/ /\ con_data[c][s] = <<>> /\ n = 2 /\ l = "modify"
            /\ g = <<In(c, s)[1][2], In(c, s)[2][2]>>
         \/ con_data[c][s] = <<>> /\ g = <<In(c, s)[1][2]>> /\ n = 1 /\ l = "sync"
         \/ g = <<In(c, s)[1][2], Garbage>> /\ l = "modify"
      /\ faults' \in 0 .. MaxFaults
  BY <1>p DEF Reads
<1>2. /\ UNCHANGED <<alive, dataVars, accepted, queued, result>>
      /\ UNCHANGED <<op, need, routine, req, rsp>>
  BY DEF SyncData, msgVars
<1>3. /\ sock[c] \in Sockets /\ \A t \in Sides : sock[c][t].in = In(c, t) /\ In(c, t) \in Seq(Cells)
  BY SockTypes
<1>4. PICK k \in Sockets :
        /\ sock' = [sock EXCEPT ![c] = k]
        /\ k[s].in \in Seq(Cells) /\ Len(k[s].in) = Len(In(c, s)) - n
        /\ \A i \in 1 .. Len(In(c, s)) - n : k[s].in[i] = In(c, s)[i + n]
        /\ k[Peer(s)].in = In(c, Peer(s))
        /\ \A t \in Sides : k[t].fin = sock[c][t].fin /\ k[t].err = sock[c][t].err
  <2>1. sock[c][s].in = In(c, s) /\ In(c, s) \in Seq(Cells)
        /\ sock[c][Peer(s)].in = In(c, Peer(s)) /\ Len(In(c, s)) \in Nat
    BY <1>0, <1>3
  <2>2. CASE n = 1
    <3> DEFINE r == Read1(sock[c], s)
    <3>1. sock[c][s].in # <<>> /\ In(c, s) # <<>>
      BY <1>1, <2>1, <2>2
    <3>2. /\ r \in Sockets /\ r[s].in = Tail(sock[c][s].in)
          /\ r[Peer(s)].in = sock[c][Peer(s)].in
          /\ \A t \in Sides : r[t].fin = sock[c][t].fin /\ r[t].err = sock[c][t].err
      BY <1>3, <3>1, Read1Effect
    <3>3. /\ Tail(In(c, s)) \in Seq(Cells) /\ Len(Tail(In(c, s))) = Len(In(c, s)) - 1
          /\ \A i \in 1 .. Len(In(c, s)) - 1 : Tail(In(c, s))[i] = In(c, s)[i + 1]
      BY <2>1, <3>1, TailFacts
    <3>4. sock' = [sock EXCEPT ![c] = r]
      BY <1>1, <2>2 DEF StateTypeOK
    <3> HIDE DEF r
    <3> r \in Sockets
      BY <3>2
    <3> WITNESS r \in Sockets
    <3> QED
      BY <2>1, <2>2, <3>2, <3>3, <3>4
  <2>3. CASE n = 2
    <3> DEFINE r == Read2(sock[c], s)
    <3>1. Len(sock[c][s].in) >= 2 /\ Len(In(c, s)) >= 2
      BY <1>1, <2>1, <2>3
    <3>2. /\ r \in Sockets /\ r[s].in = Tail(Tail(sock[c][s].in))
          /\ r[Peer(s)].in = sock[c][Peer(s)].in
          /\ \A t \in Sides : r[t].fin = sock[c][t].fin /\ r[t].err = sock[c][t].err
      BY <1>3, <3>1, Read2Effect
    <3>3. /\ Tail(Tail(In(c, s))) \in Seq(Cells) /\ Len(Tail(Tail(In(c, s)))) = Len(In(c, s)) - 2
          /\ \A i \in 1 .. Len(In(c, s)) - 2 : Tail(Tail(In(c, s)))[i] = In(c, s)[i + 2]
      BY <2>1, <3>1, Tail2Facts
    <3>4. sock' = [sock EXCEPT ![c] = r]
      BY <1>1, <2>3 DEF StateTypeOK
    <3> HIDE DEF r
    <3> r \in Sockets
      BY <3>2
    <3> WITNESS r \in Sockets
    <3> QED
      BY <2>1, <2>3, <3>2, <3>3, <3>4
  <2> QED
    BY <2>2, <2>3
<1>5. /\ sock' \in [Conns -> Sockets] /\ sock'[c] = k
      /\ \A t \in Sides : In(c, t)' = k[t].in
      /\ \A d \in Conns \ {c} : sock'[d] = sock[d]
  BY <1>4, SockEffect, ZenonT(60)
<1>6. /\ con_data' \in [Conns -> [Sides -> Seq(Values)]] /\ con_data'[c][s] = g
      /\ con_data'[c][Peer(s)] = con_data[c][Peer(s)]
      /\ \A d \in Conns \ {c} : con_data'[d] = con_data[d]
  <2>1. Peer(s) # s
    BY PeerFacts
  <2> QED
    BY <1>0, <1>1, <2>1 DEF StateTypeOK
<1>7. StateTypeOK' /\ Others(c)
  BY <1>1, <1>2, <1>5, <1>6 DEF StateTypeOK, Others, Same, dataVars
<1>8. CASE s = "client"
  <2>1. /\ Client(c) = "sync" /\ Client(c)' \in {"sync", "modify"} /\ Server(c)' = Server(c)
        /\ ConData(c)' = ConData(c)
    BY <1>0, <1>1, <1>6, <1>8 DEF Client, Server, ConData
  <2>2. k["server"].in = In(c, "server")
    BY <1>0, <1>4, <1>8
  <2> QED
    BY <1>2, <1>4, <1>7, <2>1, <2>2, ClientReadsKeeps
<1>9. CASE s = "server"
  <2> DEFINE I == In(c, "server")
             J == In(c, "server")'
  <2>1. /\ Server(c) = "sync" /\ Server(c)' = l /\ Client(c)' = Client(c)
        /\ ConData(c)' = g /\ ConData(c) = con_data[c][s]
    BY <1>0, <1>1, <1>6, <1>9 DEF Client, Server, ConData
  <2>2. /\ In(c, "client")' = In(c, "client") /\ Len(I) >= n /\ J \in Seq(Cells)
        /\ Len(J) = Len(I) - n /\ \A i \in 1 .. Len(I) - n : J[i] = I[i + n]
    BY <1>0, <1>1, <1>4, <1>5, <1>9
  <2>3. /\ \A t \in Sides : sock'[c][t].fin = sock[c][t].fin /\ sock'[c][t].err = sock[c][t].err
        /\ Fin(c)' = Fin(c)
    BY <1>0, <1>4, <1>5 DEF Fin
  <2>4. /\ I \in Seq(Cells) /\ Len(I) \in Nat /\ (InHandshake(c) => Wellformed(c))
        /\ Written(c)' = Written(c) /\ Written(c) \in {2, 3}
        /\ Consumed(c) = Len(ConData(c)) /\ Consumed(c)' = Len(g)
    BY <2>1, SyncFacts DEF Written, Consumed
  <2>5. ASSUME ConData(c) = <<>>, InHandshake(c)'
        PROVE  /\ Consumed(c) = 0 /\ Len(I) = Written(c)
               /\ \A i \in 1 .. Len(I) : I[i] = HandshakeCells[i]
    <3>1. ~(Len(ConData(c)) = 2) /\ Consumed(c) = 0
      BY <2>4, <2>5
    <3>2. InHandshake(c)
      BY <2>1, <2>3, <2>5, <3>1 DEF InHandshake
    <3>3. /\ Len(I) = Written(c) - Consumed(c)
          /\ \A i \in 1 .. Len(I) : I[i] = HandshakeCells[i + Consumed(c)]
      BY <2>4, <3>2 DEF Wellformed
    <3> QED
      BY <2>4, <3>1, <3>3
  <2>6. CASE ConData(c) = <<>> /\ g = <<I[1][2], I[2][2]>> /\ n = 2 /\ l = "modify"
    <3>1. Len(g) = 2
      BY <2>6
    <3>2. ASSUME InHandshake(c)' PROVE Wellformed(c)'
      <4>1. /\ Len(I) = Written(c) /\ Written(c) >= 2
            /\ \A i \in 1 .. Len(I) : I[i] = HandshakeCells[i]
        BY <2>4, <2>5, <2>6, <3>2
      <4>2. I[1] = AddrCell /\ AddrCell[2] = "addr"
        BY <4>1, <2>4, HandshakeInCells
      <4>3. g[1] = "addr"
        BY <2>6, <4>2
      <4>4. Consumed(c)' = 2
        BY <2>4, <3>1, Zenon
      <4>5. Len(J) = Written(c)' - Consumed(c)'
        BY <2>2, <2>4, <2>6, <4>1, <4>4
      <4>6. \A i \in 1 .. Len(J) : J[i] = HandshakeCells[i + Consumed(c)']
        BY <2>2, <2>4, <2>6, <4>1, <4>4
      <4> QED
        BY <2>1, <4>3, <4>5, <4>6 DEF Wellformed
    <3>3. Len(ConData(c)') = 2 /\ Server(c)' = "modify"
      BY <2>1, <2>6, <3>1, Zenon
    <3> QED
      BY <1>2, <1>7, <2>1, <2>2, <2>3, <3>2, <3>3, ServerReadsKeeps
  <2>7. CASE ConData(c) = <<>> /\ g = <<I[1][2]>> /\ n = 1 /\ l = "sync"
    <3>1. Len(g) = 1
      BY <2>7
    <3>2. ASSUME InHandshake(c)' PROVE Wellformed(c)'
      <4>1. /\ Len(I) = Written(c) /\ Written(c) >= 2
            /\ \A i \in 1 .. Len(I) : I[i] = HandshakeCells[i]
        BY <2>4, <2>5, <2>7, <3>2
      <4>2. I[1] = AddrCell /\ AddrCell[2] = "addr"
        BY <4>1, <2>4, HandshakeInCells
      <4>3. g[1] = "addr"
        BY <2>7, <4>2
      <4>4. Consumed(c)' = 1
        BY <2>4, <3>1, Zenon
      <4>5. Len(J) = Written(c)' - Consumed(c)'
        BY <2>2, <2>4, <2>7, <4>1, <4>4
      <4>6. \A i \in 1 .. Len(J) : J[i] = HandshakeCells[i + Consumed(c)']
        BY <2>2, <2>4, <2>7, <4>1, <4>4
      <4> QED
        BY <2>1, <4>3, <4>5, <4>6 DEF Wellformed
    <3>3. Len(ConData(c)') <= 1 /\ Server(c)' = "sync"
      <4>1. 1 <= 1
        OBVIOUS
      <4> QED
        BY <2>1, <2>7, <3>1, <4>1, Zenon
    <3> QED
      BY <1>2, <1>7, <2>1, <2>2, <2>3, <3>2, <3>3, ServerReadsKeeps
  <2>8. CASE g = <<I[1][2], Garbage>> /\ l = "modify"
    <3>1. Len(g) = 2 /\ g[2] # "keys"
      BY <2>8 DEF Garbage
    <3>2. ~InHandshake(c)'
      BY <2>1, <3>1, Zenon DEF InHandshake
    <3>3. Len(ConData(c)') = 2 /\ Server(c)' = "modify"
      BY <2>1, <2>8, <3>1, Zenon
    <3> QED
      BY <1>2, <1>7, <2>1, <2>2, <2>3, <3>2, <3>3, ServerReadsKeeps
  <2> QED
    BY <1>1, <1>9, <2>1, <2>6, <2>7, <2>8
<1> QED
  BY <1>0, <1>8, <1>9
-----------------------------------------------------------------------------
(* The server's steps.                                                     *)

LEMMA ServerExitsKeeps ==
  ASSUME StateTypeOK, WireInv, ServerExits, faults' \in 0 .. MaxFaults,
         UNCHANGED <<op, need, routine, req, rsp, con_data, dataVars, accepted, queued>>
  PROVE  StateTypeOK' /\ WireInv'
<1>0. /\ "client" \in Sides /\ "server" \in Sides /\ "client" # "server"
      /\ \A s \in Sides : s = "client" \/ s = "server"
  BY PeerFacts
<1>1. /\ pc' \in [Conns -> [Sides -> ClientPCs \cup ServerPCs]]
      /\ \A d \in Conns : pc'[d]["client"] = pc[d]["client"] /\ pc'[d]["server"] = "dead"
  <2>1. "dead" \in ClientPCs \cup ServerPCs
    BY DEF ServerPCs
  <2> QED
    BY <1>0, <2>1 DEF ServerExits, StateTypeOK
<1>2. /\ sock' \in [Conns -> Sockets]
      /\ \A d \in Conns : /\ sock'[d]["server"].in = <<>> /\ sock'[d]["server"].fin
                          /\ sock'[d]["client"].fin
                          /\ sock'[d]["client"].in = sock[d]["client"].in
  <2>1. <<>> \in Seq(Cells)
    OBVIOUS
  <2>2. ASSUME NEW d \in Conns
        PROVE  /\ sock'[d] \in Sockets
               /\ sock'[d]["server"].in = <<>> /\ sock'[d]["server"].fin
               /\ sock'[d]["client"].fin
               /\ sock'[d]["client"].in = sock[d]["client"].in
    <3> DEFINE e == sock[d]["client"].err \/ pc[d]["server"] = "idle" \/ In(d, "server") # <<>>
               k == [sock[d] EXCEPT !["server"] = [Socket EXCEPT !.fin = TRUE],
                                    !["client"].fin = TRUE, !["client"].err = e]
    <3>1. e \in BOOLEAN /\ sock[d] \in Sockets
      BY DEF StateTypeOK
    <3>2. sock'[d] = k
      BY <1>0 DEF ServerExits, StateTypeOK, Sockets
    <3> HIDE DEF e
    <3>3. /\ k \in Sockets /\ k["server"].in = <<>> /\ k["server"].fin /\ k["client"].fin
          /\ k["client"].in = sock[d]["client"].in
      BY <1>0, <2>1, <3>1, ZenonT(60) DEF Sockets, Socket
    <3> QED
      BY <3>2, <3>3
  <2>3. sock' = [d \in Conns |-> sock'[d]]
    BY DEF ServerExits
  <2> QED
    BY <2>2, <2>3
<1>3. StateTypeOK'
  BY <1>1, <1>2 DEF StateTypeOK, ServerExits, dataVars
<1>4. ASSUME NEW c \in Conns PROVE ConnInv(c)'
  <2>1. /\ Client(c)' = Client(c) /\ Server(c)' = "dead" /\ ConData(c)' = ConData(c)
        /\ In(c, "server")' = <<>> /\ In(c, "client")' = In(c, "client") /\ Fin(c)'
        /\ ~Late(c)' /\ ~Early(c)' /\ ConnInv(c)
    BY <1>1, <1>2 DEF Client, Server, ConData, In, Fin, Late, Early, WireInv
  <2>2. UNCHANGED result
    BY DEF ServerExits
  <2>3. Places(c)'
    BY <2>1, <2>2 DEF ConnInv, Places, ServerPCs
  <2>4. Ends(c)'
    BY <1>0, <1>2, <2>1 DEF Ends, Sockets
  <2>5. Arrives(c)' /\ Follows(c)'
    BY <2>1 DEF Arrives, Follows, Early
  <2>6. Answers(c)'
    BY <2>1 DEF ConnInv, Answers
  <2>7. Data(c)'
    BY <2>1 DEF ConnInv, Data, dataVars
  <2> QED
    BY <2>3, <2>4, <2>5, <2>6, <2>7 DEF ConnInv
<1> QED
  BY <1>3, <1>4 DEF WireInv

(* A step of one connection keeps the invariant of all.                    *)
LEMMA OthersKeep ==
  ASSUME WireInv, NEW c \in Conns, ConnInv(c)', Others(c)
  PROVE  WireInv'
<1>1. ASSUME NEW d \in Conns PROVE ConnInv(d)'
  BY FrameKeeps DEF WireInv, Others
<1> QED
  BY <1>1 DEF WireInv

LEMMA AcceptKeeps ==
  ASSUME StateTypeOK, WireInv, NEW c \in Conns, Accept(c)
  PROVE  StateTypeOK' /\ WireInv'
<1>0. /\ "client" \in Sides /\ "server" \in Sides /\ Peer("server") = "client"
      /\ "routine" \in ClientPCs \cup ServerPCs /\ ConnInv(c)
  BY PeerFacts DEF ServerPCs, WireInv
<1>1. /\ Server(c) = "backlog"
      /\ UNCHANGED <<op, need, routine, req, rsp, con_data, dataVars, accepted, queued>>
  BY DEF Accept, Server, msgVars
<1>2. CASE Fail("accept") /\ ServerExits
  BY <1>1, <1>2, FaultEffect, ServerExitsKeeps
<1>3. CASE Goes(c, "server", "routine") /\ UNCHANGED <<alive, sock, result, faults>>
  <2>1. /\ pc' \in [Conns -> [Sides -> ClientPCs \cup ServerPCs]]
        /\ Server(c)' = "routine" /\ Client(c)' = Client(c)
        /\ \A d \in Conns \ {c} : pc'[d] = pc[d]
    BY <1>0, <1>3, GoesEffect DEF Client, Server
  <2>2. StateTypeOK' /\ Others(c)
    BY <1>1, <1>3, <2>1 DEF StateTypeOK, Others, Same, dataVars
  <2>3. /\ In(c, "server")' = In(c, "server") /\ In(c, "client")' = In(c, "client")
        /\ Fin(c)' = Fin(c) /\ ConData(c)' = ConData(c) /\ RequestCells(c)' = RequestCells(c)
    BY <1>1, <1>3 DEF In, Fin, ConData, RequestCells
  <2>4. Early(c) /\ req[c] = None /\ Early(c)' /\ ~Late(c)'
    BY <1>0, <1>1, <2>1 DEF ConnInv, Places, Early, Late
  <2>5. Places(c)'
    BY <1>0, <1>1, <1>3, <2>1, <2>3, <2>4 DEF ConnInv, Places, ServerPCs
  <2>6. Ends(c)'
    BY <1>0, <1>1, <1>3, <2>1, <2>3 DEF ConnInv, Ends
  <2>7. Arrives(c)'
    BY <1>0, <1>1, <2>1, <2>3, <2>4 DEF ConnInv, Arrives
  <2>8. Follows(c)'
    BY <2>4 DEF Follows
  <2>9. Answers(c)'
    BY <1>0, <1>1, <2>1, <2>3, <2>4 DEF ConnInv, Answers
  <2>10. Data(c)'
    BY <1>0, <1>1, <2>1, <2>3 DEF ConnInv, Data, dataVars
  <2>11. ConnInv(c)'
    BY <2>5, <2>6, <2>7, <2>8, <2>9, <2>10 DEF ConnInv
  <2> QED
    BY <2>2, <2>11, OthersKeep
<1> QED
  BY <1>2, <1>3 DEF Accept

(* The server's thread reads one message of two cells.                     *)
LEMMA Read2Step ==
  ASSUME StateTypeOK, NEW c \in Conns, Len(In(c, "server")) >= 2,
         sock' = [sock EXCEPT ![c] = Read2(@, "server")]
  PROVE  /\ sock' \in [Conns -> Sockets] /\ \A d \in Conns \ {c} : sock'[d] = sock[d]
         /\ In(c, "client")' = In(c, "client")
         /\ In(c, "server")' \in Seq(Cells)
         /\ Len(In(c, "server")') = Len(In(c, "server")) - 2
         /\ \A k \in 1 .. Len(In(c, "server")) - 2 :
              In(c, "server")'[k] = In(c, "server")[k + 2]
         /\ \A t \in Sides : sock'[c][t].fin = sock[c][t].fin /\ sock'[c][t].err = sock[c][t].err
<1> DEFINE k == Read2(sock[c], "server")
<1>0. "client" \in Sides /\ "server" \in Sides /\ Peer("server") = "client"
  BY PeerFacts
<1>1. sock[c] \in Sockets /\ (\A t \in Sides : sock[c][t].in = In(c, t))
      /\ In(c, "server") \in Seq(Cells) /\ sock' = [sock EXCEPT ![c] = k]
  BY <1>0, SockTypes DEF StateTypeOK
<1>2. sock[c]["server"].in = In(c, "server") /\ sock[c]["client"].in = In(c, "client")
  BY <1>0, <1>1
<1>3. /\ k \in Sockets /\ k["server"].in = Tail(Tail(sock[c]["server"].in))
      /\ k[Peer("server")].in = sock[c][Peer("server")].in
      /\ \A t \in Sides : k[t].fin = sock[c][t].fin /\ k[t].err = sock[c][t].err
  <2>1. Len(sock[c]["server"].in) >= 2
    BY <1>2
  <2> QED
    BY <1>0, <1>1, <2>1, Read2Effect
<1> HIDE DEF k
<1>4. /\ sock' \in [Conns -> Sockets] /\ sock'[c] = k
      /\ \A t \in Sides : In(c, t)' = k[t].in
      /\ \A d \in Conns \ {c} : sock'[d] = sock[d]
  BY <1>1, <1>3, SockEffect, ZenonT(60)
<1>5. In(c, "server")' = Tail(Tail(In(c, "server"))) /\ In(c, "client")' = In(c, "client")
  BY <1>0, <1>2, <1>3, <1>4
<1>6. /\ Tail(Tail(In(c, "server"))) \in Seq(Cells)
      /\ Len(Tail(Tail(In(c, "server")))) = Len(In(c, "server")) - 2
      /\ \A i \in 1 .. Len(In(c, "server")) - 2 :
           Tail(Tail(In(c, "server")))[i] = In(c, "server")[i + 2]
  BY <1>1, Tail2Facts
<1> QED
  BY <1>3, <1>4, <1>5, <1>6

(* execute reads a routine.                                                *)
LEMMA RoutineArrives ==
  ASSUME StateTypeOK, NEW c \in Conns, ConnInv(c), Server(c) = "routine",
         HasMessage(c, "server"), Goes(c, "server", "read"),
         routine' = [routine EXCEPT ![c] = Get("size_t", Received(c, "server"), 1)],
         sock' = [sock EXCEPT ![c] = Read2(@, "server")],
         UNCHANGED <<alive, result, op, need, req, rsp, con_data, dataVars, accepted,
                     queued, faults>>
  PROVE  StateTypeOK' /\ ConnInv(c)' /\ Others(c)
<1> DEFINE I == In(c, "server")
<1>0. /\ "client" \in Sides /\ "server" \in Sides /\ Peer("server") = "client"
      /\ "read" \in ClientPCs \cup ServerPCs
  BY PeerFacts DEF ServerPCs
<1>1. Len(I) >= 2 /\ I[1][1] = "size" /\ I \in Seq(Cells) /\ I # <<>> /\ Len(I) \in Nat
  <2>1. Len(I) >= 2 /\ I[1][1] = "size" /\ I \in Seq(Cells)
    BY <1>0, SockTypes DEF HasMessage
  <2> QED
    BY <2>1
<1>2. ~Late(c) /\ req[c] = None /\ Early(c)
  BY <1>1 DEF ConnInv, Follows, Late, Early
<1>3. Client(c) \notin {"idle", "connect", "request"} /\ op[c] \in Kinds
  BY <1>1 DEF ConnInv, Places, StateTypeOK
<1>4. /\ Len(I) <= 4 /\ \A i \in 1 .. Len(I) : I[i] = RequestCells(c)[i]
  BY <1>2 DEF ConnInv, Arrives
<1>5. Received(c, "server") = RoutineBody(op[c])
  <2>1. I[2] = RequestCells(c)[2]
    BY <1>1, <1>4
  <2>2. RequestCells(c)[2] = <<"body", RoutineBody(op[c])>>
    BY DEF RequestCells
  <2> QED
    BY <2>1, <2>2 DEF Received
<1>6. routine'[c] = Routine(op[c]) /\ DOMAIN routine' = Conns
      /\ \A d \in Conns \ {c} : routine'[d] = routine[d]
  BY <1>3, <1>5, DecodeRoutine DEF StateTypeOK
<1>7. /\ pc' \in [Conns -> [Sides -> ClientPCs \cup ServerPCs]]
      /\ Server(c)' = "read" /\ Client(c)' = Client(c)
      /\ \A d \in Conns \ {c} : pc'[d] = pc[d]
  BY <1>0, GoesEffect DEF Client, Server
<1>8. /\ sock' \in [Conns -> Sockets] /\ \A d \in Conns \ {c} : sock'[d] = sock[d]
      /\ In(c, "client")' = In(c, "client")
      /\ In(c, "server")' \in Seq(Cells) /\ Len(In(c, "server")') = Len(I) - 2
      /\ \A i \in 1 .. Len(I) - 2 : In(c, "server")'[i] = I[i + 2]
      /\ \A t \in Sides : sock'[c][t].fin = sock[c][t].fin /\ sock'[c][t].err = sock[c][t].err
  BY <1>1, Read2Step
<1>9. StateTypeOK' /\ Others(c)
  BY <1>6, <1>7, <1>8 DEF StateTypeOK, Others, Same, dataVars
<1>10. /\ Early(c)' /\ ~Late(c)' /\ ConData(c)' = ConData(c) /\ Fin(c)' = Fin(c)
       /\ RequestCells(c)' = RequestCells(c)
  BY <1>0, <1>7, <1>8 DEF Early, Late, ConData, Fin, RequestCells
<1>11. Places(c)'
  BY <1>2, <1>3, <1>7, <1>8, <1>10 DEF ConnInv, Places, ServerPCs
<1>12. Ends(c)'
  BY <1>0, <1>7, <1>8, <1>10 DEF ConnInv, Ends
<1>13. Arrives(c)'
  <2>1. ASSUME NEW i \in 1 .. Len(In(c, "server")')
        PROVE  In(c, "server")'[i] = RequestCells(c)[i + 2]
    <3>1. i \in 1 .. Len(I) - 2 /\ i + 2 \in 1 .. Len(I)
      BY <1>1, <1>8
    <3> QED
      BY <1>4, <1>8, <3>1
  <2>2. Len(In(c, "server")') <= 2
    BY <1>1, <1>4, <1>8
  <2> QED
    BY <1>6, <1>7, <1>10, <2>1, <2>2 DEF Arrives
<1>14. Follows(c)'
  BY <1>10 DEF Follows
<1>15. Answers(c)'
  BY <1>2, <1>7, <1>8, <1>10 DEF ConnInv, Answers
<1>16. Data(c)'
  BY <1>7, <1>10 DEF ConnInv, Data, dataVars
<1> QED
  BY <1>9, <1>11, <1>12, <1>13, <1>14, <1>15, <1>16 DEF ConnInv

(* A thread at the end of its connection leaves.                           *)
LEMMA LeavesKeeps ==
  ASSUME StateTypeOK, NEW c \in Conns, ConnInv(c), Server(c) = "routine",
         Goes(c, "server", "left"), sock' = [sock EXCEPT ![c] = Closed(@, "server")],
         UNCHANGED <<alive, result, op, need, routine, req, rsp, con_data, dataVars, accepted,
                     queued, faults>>
  PROVE  StateTypeOK' /\ ConnInv(c)' /\ Others(c)
<1> DEFINE k == Closed(sock[c], "server")
<1>0. /\ "client" \in Sides /\ "server" \in Sides /\ Peer("server") = "client"
      /\ "left" \in ClientPCs \cup ServerPCs
  BY PeerFacts DEF ServerPCs
<1>1. sock[c] \in Sockets /\ (\A t \in Sides : sock[c][t].in = In(c, t))
      /\ sock' = [sock EXCEPT ![c] = k]
  BY SockTypes DEF StateTypeOK
<1>2. /\ k \in Sockets /\ k["server"].in = <<>>
      /\ k[Peer("server")].in = sock[c][Peer("server")].in
      /\ k["server"].fin /\ k[Peer("server")].fin
  BY <1>0, <1>1, ClosedEffect
<1> HIDE DEF k
<1>3. /\ sock' \in [Conns -> Sockets] /\ sock'[c] = k
      /\ \A t \in Sides : In(c, t)' = k[t].in
      /\ \A d \in Conns \ {c} : sock'[d] = sock[d]
  BY <1>1, <1>2, SockEffect, ZenonT(60)
<1>4. /\ In(c, "server")' = <<>> /\ In(c, "client")' = In(c, "client")
      /\ sock'[c]["client"].fin /\ sock'[c]["server"].fin
  BY <1>0, <1>1, <1>2, <1>3
<1>5. /\ pc' \in [Conns -> [Sides -> ClientPCs \cup ServerPCs]]
      /\ Server(c)' = "left" /\ Client(c)' = Client(c)
      /\ \A d \in Conns \ {c} : pc'[d] = pc[d]
  BY <1>0, GoesEffect DEF Client, Server
<1>6. StateTypeOK' /\ Others(c)
  BY <1>3, <1>5 DEF StateTypeOK, Others, Same, dataVars
<1>7. ~Early(c)' /\ ~Late(c)' /\ ConData(c)' = ConData(c) /\ Fin(c)'
  BY <1>4, <1>5 DEF Early, Late, ConData, Fin
<1>8. Places(c)'
  BY <1>4, <1>5, <1>7 DEF ConnInv, Places, ServerPCs
<1>9. Ends(c)'
  BY <1>0, <1>3, <1>4, <1>7 DEF Ends, Sockets
<1>10. Arrives(c)' /\ Follows(c)'
  BY <1>5, <1>7 DEF Arrives, Follows, Early
<1>11. Answers(c)'
  BY <1>4, <1>5, <1>7 DEF ConnInv, Answers
<1>12. Data(c)'
  BY <1>5, <1>7 DEF ConnInv, Data, dataVars
<1> QED
  BY <1>6, <1>8, <1>9, <1>10, <1>11, <1>12 DEF ConnInv

LEMMA ReadRoutineKeeps ==
  ASSUME StateTypeOK, WireInv, NEW c \in Conns, ReadRoutine(c)
  PROVE  StateTypeOK' /\ WireInv'
<1>0. ConnInv(c) /\ Server(c) = "routine"
      /\ UNCHANGED <<op, need, req, rsp, con_data, dataVars, accepted, queued, faults>>
  BY DEF WireInv, ReadRoutine, Server
<1>1. CASE ServerExits /\ UNCHANGED routine
  BY <1>0, <1>1, FaultEffect, ServerExitsKeeps
<1>2. CASE /\ HasMessage(c, "server") /\ Goes(c, "server", "read")
           /\ routine' = [routine EXCEPT ![c] = Get("size_t", Received(c, "server"), 1)]
           /\ sock' = [sock EXCEPT ![c] = Read2(@, "server")]
           /\ UNCHANGED <<alive, result>>
  <2>1. StateTypeOK' /\ ConnInv(c)' /\ Others(c)
    BY <1>0, <1>2, RoutineArrives
  <2> QED
    BY <2>1, OthersKeep
<1>3. CASE /\ Goes(c, "server", "left") /\ sock' = [sock EXCEPT ![c] = Closed(@, "server")]
           /\ UNCHANGED <<alive, routine, result>>
  <2>1. StateTypeOK' /\ ConnInv(c)' /\ Others(c)
    BY <1>0, <1>3, LeavesKeeps
  <2> QED
    BY <2>1, OthersKeep
<1> QED
  BY <1>1, <1>2, <1>3 DEF ReadRoutine

(* A handler reads its request.                                            *)
LEMMA RequestIsSome ==
  ASSUME NEW k \in Kinds, NEW n
  PROVE  /\ Request(k, n) # None /\ Request(k, n).metadata.size = n
         /\ Request(k, n).only_metadata = (k = "meta")
<1>1. DOMAIN None = {"code"} /\ "metadata" \in DOMAIN Request(k, n)
  BY DEF None, Request
<1>2. Request(k, n) # None
  BY <1>1
<1> QED
  BY <1>2 DEF Request, Metadata

LEMMA RequestArrives ==
  ASSUME StateTypeOK, NEW c \in Conns, ConnInv(c), Server(c) = "read",
         HasMessage(c, "server"), Goes(c, "server", "respond"),
         req' = [req EXCEPT ![c] =
             IF routine[c] = 2 THEN UnmarshalLoadRequest(Received(c, "server"))
                               ELSE UnmarshalBackupRequest(Received(c, "server"))],
         sock' = [sock EXCEPT ![c] = Read2(@, "server")],
         UNCHANGED <<alive, result, op, need, routine, rsp, con_data, dataVars, accepted,
                     queued, faults>>
  PROVE  StateTypeOK' /\ ConnInv(c)' /\ Others(c)
<1> DEFINE I == In(c, "server")
<1>0. /\ "client" \in Sides /\ "server" \in Sides /\ Peer("server") = "client"
      /\ "respond" \in ClientPCs \cup ServerPCs
  BY PeerFacts DEF ServerPCs
<1>1. Len(I) >= 2 /\ I \in Seq(Cells) /\ I # <<>> /\ Len(I) \in Nat
  <2>1. Len(I) >= 2 /\ I \in Seq(Cells)
    BY <1>0, SockTypes DEF HasMessage
  <2> QED
    BY <2>1
<1>2. ~Late(c) /\ req[c] = None /\ Early(c)
  BY DEF ConnInv, Places, Late, Early
<1>3. Client(c) \notin {"idle", "connect", "request"} /\ op[c] \in Kinds
  BY <1>1 DEF ConnInv, Places, StateTypeOK
<1>4. /\ Len(I) <= 2 /\ routine[c] = Routine(op[c])
      /\ \A i \in 1 .. Len(I) : I[i] = RequestCells(c)[i + 2]
  BY DEF ConnInv, Arrives
<1>5. Received(c, "server") = RequestBody(op[c], need[c])
  <2>1. I[2] = RequestCells(c)[2 + 2]
    BY <1>1, <1>4
  <2>2. RequestCells(c)[4] = <<"body", RequestBody(op[c], need[c])>>
    BY DEF RequestCells
  <2> QED
    BY <2>1, <2>2 DEF Received
<1>6. req'[c] = Request(op[c], need[c]) /\ DOMAIN req' = Conns
      /\ \A d \in Conns \ {c} : req'[d] = req[d]
  <2>1. routine[c] = 2 <=> op[c] = "load"
    BY <1>4 DEF Routine
  <2> QED
    BY <1>3, <1>5, <2>1, DecodeRequest DEF StateTypeOK
<1>7. /\ pc' \in [Conns -> [Sides -> ClientPCs \cup ServerPCs]]
      /\ Server(c)' = "respond" /\ Client(c)' = Client(c)
      /\ \A d \in Conns \ {c} : pc'[d] = pc[d]
  BY <1>0, GoesEffect DEF Client, Server
<1>8. /\ sock' \in [Conns -> Sockets] /\ \A d \in Conns \ {c} : sock'[d] = sock[d]
      /\ In(c, "client")' = In(c, "client")
      /\ In(c, "server")' \in Seq(Cells) /\ Len(In(c, "server")') = Len(I) - 2
      /\ \A t \in Sides : sock'[c][t].fin = sock[c][t].fin /\ sock'[c][t].err = sock[c][t].err
  BY <1>1, Read2Step
<1>9. StateTypeOK' /\ Others(c)
  BY <1>6, <1>7, <1>8 DEF StateTypeOK, Others, Same, dataVars
<1>10. Early(c)' /\ ~Late(c)' /\ ConData(c)' = ConData(c) /\ Fin(c)' = Fin(c)
  BY <1>0, <1>7, <1>8 DEF Early, Late, ConData, Fin
<1>11. Places(c)'
  <2>1. req'[c] # None
    BY <1>3, <1>6, RequestIsSome
  <2> QED
    BY <1>2, <1>3, <1>4, <1>6, <1>7, <1>8, <1>10, <2>1 DEF ConnInv, Places, ServerPCs
<1>12. Ends(c)'
  BY <1>0, <1>7, <1>8, <1>10 DEF ConnInv, Ends
<1>13. Arrives(c)'
  <2>1. In(c, "server")' = <<>>
    BY <1>1, <1>4, <1>8
  <2> QED
    BY <1>7, <2>1 DEF Arrives
<1>14. Follows(c)'
  BY <1>10 DEF Follows
<1>15. Answers(c)'
  BY <1>2, <1>7, <1>8, <1>10 DEF ConnInv, Answers
<1>16. Data(c)'
  BY <1>7, <1>10 DEF ConnInv, Data, dataVars
<1> QED
  BY <1>9, <1>11, <1>12, <1>13, <1>14, <1>15, <1>16 DEF ConnInv

(* A handler gives up before it has a request.                             *)
LEMMA NoRequestKeeps ==
  ASSUME StateTypeOK, NEW c \in Conns, ConnInv(c), Server(c) = "read",
         Goes(c, "server", "routine"), sock' = [sock EXCEPT ![c] = ErrorSeen(@, "server")],
         UNCHANGED <<alive, result, op, need, routine, req, rsp, con_data, dataVars, accepted,
                     queued, faults>>
  PROVE  StateTypeOK' /\ ConnInv(c)' /\ Others(c)
<1> DEFINE k == ErrorSeen(sock[c], "server")
<1>0. /\ "client" \in Sides /\ "server" \in Sides /\ Peer("server") = "client"
      /\ "routine" \in ClientPCs \cup ServerPCs
  BY PeerFacts DEF ServerPCs
<1>1. sock[c] \in Sockets /\ (\A t \in Sides : sock[c][t].in = In(c, t))
      /\ sock' = [sock EXCEPT ![c] = k]
  BY SockTypes DEF StateTypeOK
<1>2. /\ k \in Sockets /\ k["server"].in = <<>>
      /\ k[Peer("server")].in = sock[c][Peer("server")].in
      /\ \A t \in Sides : k[t].fin = sock[c][t].fin /\ (k[t].err => sock[c][t].err)
  BY <1>0, <1>1, ErrorSeenEffect
<1> HIDE DEF k
<1>3. /\ sock' \in [Conns -> Sockets] /\ sock'[c] = k
      /\ \A t \in Sides : In(c, t)' = k[t].in
      /\ \A d \in Conns \ {c} : sock'[d] = sock[d]
  BY <1>1, <1>2, SockEffect, ZenonT(60)
<1>4. /\ In(c, "server")' = <<>> /\ In(c, "client")' = In(c, "client")
      /\ \A t \in Sides : sock'[c][t].fin = sock[c][t].fin /\ (sock'[c][t].err => sock[c][t].err)
  BY <1>0, <1>1, <1>2, <1>3
<1>5. /\ pc' \in [Conns -> [Sides -> ClientPCs \cup ServerPCs]]
      /\ Server(c)' = "routine" /\ Client(c)' = Client(c)
      /\ \A d \in Conns \ {c} : pc'[d] = pc[d]
  BY <1>0, GoesEffect DEF Client, Server
<1>6. StateTypeOK' /\ Others(c)
  BY <1>3, <1>5 DEF StateTypeOK, Others, Same, dataVars
<1>7. Early(c) /\ req[c] = None
  BY DEF ConnInv, Places, Early
<1>8. Early(c)' /\ ~Late(c)' /\ ConData(c)' = ConData(c) /\ Fin(c)' = Fin(c)
  BY <1>0, <1>4, <1>5, <1>7 DEF Early, Late, ConData, Fin
<1>9. Places(c)'
  BY <1>4, <1>5, <1>7, <1>8 DEF ConnInv, Places, ServerPCs
<1>10. Ends(c)'
  BY <1>0, <1>4, <1>5, <1>8 DEF ConnInv, Ends
<1>11. Arrives(c)'
  <2>1. Len(In(c, "server")') = 0 /\ 1 .. Len(In(c, "server")') = {}
    BY <1>4
  <2> QED
    BY <1>5, <2>1 DEF Arrives
<1>12. Follows(c)'
  BY <1>8 DEF Follows
<1>13. Answers(c)'
  BY <1>4, <1>5, <1>7, <1>8 DEF ConnInv, Answers
<1>14. Data(c)'
  BY <1>5, <1>8 DEF ConnInv, Data, dataVars
<1> QED
  BY <1>6, <1>9, <1>10, <1>11, <1>12, <1>13, <1>14 DEF ConnInv

LEMMA ReadRequestKeeps ==
  ASSUME StateTypeOK, WireInv, NEW c \in Conns, ReadRequest(c)
  PROVE  StateTypeOK' /\ WireInv'
<1>0. ConnInv(c) /\ Server(c) = "read"
      /\ UNCHANGED <<op, need, routine, rsp, con_data, dataVars, accepted, queued, faults>>
  BY DEF WireInv, ReadRequest, Server
<1>1. CASE ServerExits /\ UNCHANGED req
  BY <1>0, <1>1, FaultEffect, ServerExitsKeeps
<1>2. CASE /\ HasMessage(c, "server") /\ Goes(c, "server", "respond")
           /\ req' = [req EXCEPT ![c] =
                IF routine[c] = 2 THEN UnmarshalLoadRequest(Received(c, "server"))
                                  ELSE UnmarshalBackupRequest(Received(c, "server"))]
           /\ sock' = [sock EXCEPT ![c] = Read2(@, "server")]
           /\ UNCHANGED <<alive, result>>
  <2>1. StateTypeOK' /\ ConnInv(c)' /\ Others(c)
    BY <1>0, <1>2, RequestArrives
  <2> QED
    BY <2>1, OthersKeep
<1>3. CASE /\ Goes(c, "server", "routine")
           /\ sock' = [sock EXCEPT ![c] = ErrorSeen(@, "server")]
           /\ UNCHANGED <<alive, req, result>>
  <2>1. StateTypeOK' /\ ConnInv(c)' /\ Others(c)
    BY <1>0, <1>3, NoRequestKeeps
  <2> QED
    BY <2>1, OthersKeep
<1> QED
  BY <1>1, <1>2, <1>3 DEF ReadRequest

(* The server answers.                                                     *)
LEMMA RespondKeeps ==
  ASSUME StateTypeOK, NEW c \in Conns, ConnInv(c), Respond(c)
  PROVE  StateTypeOK' /\ ConnInv(c)' /\ Others(c)
<1>0. /\ "client" \in Sides /\ "server" \in Sides /\ Peer("server") = "client"
      /\ {"routine", "queue", "prepare"} \subseteq ClientPCs \cup ServerPCs
  BY PeerFacts DEF ServerPCs
<1>1. /\ Server(c) = "respond"
      /\ UNCHANGED <<alive, op, need, routine, req, rsp, con_data, dataVars, queued, result>>
  BY DEF Respond, Server, msgVars
<1>2. /\ Early(c) /\ ~Late(c) /\ req[c] # None /\ In(c, "client") = <<>> /\ c \notin accepted
      /\ ConData(c) = <<>> /\ In(c, "server") = <<>>
      /\ Client(c) \in {"response", "returned"} /\ req[c] = Request(op[c], need[c])
      /\ op[c] \in Kinds /\ need[c] \in Chunks
  <2>1. Early(c) /\ ~Late(c) /\ In(c, "server") = <<>>
    BY <1>1 DEF Early, Late, ConnInv, Arrives
  <2> QED
    BY <1>1, <2>1 DEF ConnInv, Places, StateTypeOK
<1>3. req[c].metadata.size = need[c] /\ req[c].only_metadata = (op[c] = "meta")
  BY <1>2, RequestIsSome
<1>4. PICK code \in {STATUS_SUCCESS, STATUS_UNKNOWN_ERROR},
           l \in {"queue", "prepare", "routine"} :
        /\ sock' = [sock EXCEPT ![c] = Sent(@, "server",
                      Message(ResponseBody(op[c], need[c], code)))]
        /\ Goes(c, "server", l)
        /\ \/ accepted' = accepted \cup {c} /\ l = (IF op[c] = "meta" THEN "queue" ELSE "prepare")
           \/ accepted' = accepted /\ l = "routine" /\ op[c] # "meta"
        /\ faults' \in 0 .. MaxFaults
  BY <1>3, FaultEffect DEF Respond
<1>5. PICK b \in Bodies : b = ResponseBody(op[c], need[c], code)
  BY <1>2 DEF Bodies
<1>6. PICK cells \in Seq(Cells) : /\ cells = Message(b) /\ Len(cells) >= 2 /\ Len(cells) <= 2
                                  /\ cells[1] = <<"size", Len(b)>> /\ cells[2] = <<"body", b>>
  <2>1. Message(b) \in Seq(Cells) /\ Len(Message(b)) = 2
        /\ Message(b)[1] = <<"size", Len(b)>> /\ Message(b)[2] = <<"body", b>>
    BY MessageCells
  <2>2. Len(Message(b)) >= 2 /\ Len(Message(b)) <= 2
    <3>1. 2 >= 2 /\ 2 <= 2
      OBVIOUS
    <3> QED
      BY <2>1, <3>1, Zenon
  <2> QED
    BY <2>1, <2>2, Zenon
<1>7. sock' = [sock EXCEPT ![c] = Sent(@, "server", cells)]
  BY <1>4, <1>5, <1>6
<1>8. /\ sock' \in [Conns -> Sockets] /\ \A d \in Conns \ {c} : sock'[d] = sock[d]
      /\ In(c, "server")' = In(c, "server")
      /\ sock[c]["server"].fin => In(c, "client")' = In(c, "client")
      /\ ~sock[c]["server"].fin => In(c, "client")' = In(c, "client") \o cells
      /\ \A t \in Sides : /\ sock'[c][t].fin = sock[c][t].fin
                          /\ sock'[c][t].err => sock[c][t].err
  BY <1>0, <1>7, SentStep, Zenon
<1>9. /\ pc' \in [Conns -> [Sides -> ClientPCs \cup ServerPCs]]
      /\ Server(c)' = l /\ Client(c)' = Client(c)
      /\ \A d \in Conns \ {c} : pc'[d] = pc[d]
  BY <1>0, <1>4, GoesEffect DEF Client, Server
<1>10. StateTypeOK' /\ Others(c)
  BY <1>1, <1>4, <1>8, <1>9 DEF StateTypeOK, Others, Same, dataVars
<1>11. /\ ~Early(c)' /\ Late(c)' /\ ConData(c)' = <<>> /\ Fin(c)' = Fin(c)
       /\ In(c, "server")' = <<>>
  BY <1>0, <1>1, <1>2, <1>4, <1>8, <1>9 DEF Early, Late, ConData, Fin
<1>12. /\ Fin(c) => In(c, "client")' = <<>>
       /\ ~Fin(c) => In(c, "client")' = cells
  <2>1. <<>> \o cells = cells
    OBVIOUS
  <2> QED
    BY <1>2, <1>8, <2>1 DEF Fin
<1>13. Places(c)'
  BY <1>1, <1>2, <1>4, <1>9, <1>11 DEF ConnInv, Places, ServerPCs
<1>14. Ends(c)'
  BY <1>0, <1>1, <1>4, <1>8, <1>9, <1>11 DEF ConnInv, Ends
<1>15. Arrives(c)'
  BY <1>11 DEF Arrives, Early
<1>16. Follows(c)'
  <2>1. 1 .. Len(In(c, "server")') = {}
    BY <1>11
  <2>2. Server(c)' \notin {"sync", "modify", "syncQ", "signal"}
    BY <1>4, <1>9
  <2>3. Client(c)' \in {"response", "returned"}
    BY <1>2, <1>9
  <2>4. Server(c)' = "queue" => op'[c] = "meta"
    BY <1>1, <1>4, <1>9
  <2> QED
    BY <1>11, <2>1, <2>2, <2>3, <2>4 DEF Follows
<1>17. Answers(c)'
  <2>1. CASE Fin(c)
    BY <1>11, <1>12, <2>1 DEF Answers
  <2>2. CASE ~Fin(c)
    <3>1. In(c, "client")' = cells /\ cells[1][1] = "size"
          /\ cells[2] = <<"body", ResponseBody(op[c], need[c], code)>>
      BY <1>5, <1>6, <1>12, <2>2
    <3>2. op'[c] = "meta" => c \in accepted'
      BY <1>1, <1>4
    <3>3. Len(cells) # 1 /\ Len(cells) >= 2
      BY <1>6
    <3> QED
      BY <1>1, <1>4, <3>1, <3>2, <3>3 DEF Answers
  <2> QED
    BY <2>1, <2>2
<1>18. Data(c)'
  <2>1. Server(c)' \in {"prepare", "sync", "modify", "syncQ", "signal", "queue"} => c \in accepted'
    BY <1>4, <1>9
  <2>2. Server(c)' = "queue" => landed'[c] = Moves(op[c], need[c])
    <3>1. op[c] = "meta" => landed[c] = 0
      BY DEF ConnInv, Data, StateTypeOK
    <3> QED
      BY <1>1, <1>4, <1>9, <3>1 DEF Moves, dataVars
  <2> QED
    BY <1>1, <1>2, <1>9, <1>11, <2>1, <2>2 DEF ConnInv, Data, dataVars
<1> QED
  BY <1>10, <1>13, <1>14, <1>15, <1>16, <1>17, <1>18 DEF ConnInv

LEMMA AddKeyKeeps ==
  ASSUME StateTypeOK, NEW c \in Conns, ConnInv(c), AddKey(c)
  PROVE  StateTypeOK' /\ ConnInv(c)' /\ Others(c)
<1>0. "client" \in Sides /\ "server" \in Sides /\ Peer("server") = "client"
      /\ "routine" \in ClientPCs \cup ServerPCs
  BY PeerFacts DEF ServerPCs
<1>1. /\ Server(c) = "queue" /\ queued' = queued \cup {c} /\ Goes(c, "server", "routine")
      /\ UNCHANGED <<alive, op, need, routine, req, rsp, sock, con_data, dataVars, accepted,
                     result, faults>>
  BY DEF AddKey, Server, msgVars
<1>2. /\ pc' \in [Conns -> [Sides -> ClientPCs \cup ServerPCs]]
      /\ Server(c)' = "routine" /\ Client(c)' = Client(c)
      /\ \A d \in Conns \ {c} : pc'[d] = pc[d]
  BY <1>0, <1>1, GoesEffect DEF Client, Server
<1>3. c \in accepted /\ Late(c) /\ req[c] # None
  BY <1>1 DEF ConnInv, Data, Places, Late
<1>4. StateTypeOK' /\ Others(c)
  BY <1>1, <1>2, <1>3 DEF StateTypeOK, Others, Same, dataVars
<1>5. /\ Late(c)' /\ ~Early(c)' /\ ConData(c)' = ConData(c) /\ Fin(c)' = Fin(c)
      /\ In(c, "server")' = In(c, "server") /\ In(c, "client")' = In(c, "client")
  BY <1>1, <1>2, <1>3 DEF Late, Early, ConData, Fin, In
<1>6. Places(c)'
  BY <1>1, <1>2, <1>3, <1>5 DEF ConnInv, Places, ServerPCs
<1>7. Ends(c)'
  BY <1>0, <1>1, <1>2, <1>5 DEF ConnInv, Ends
<1>8. Arrives(c)'
  BY <1>5 DEF Arrives, Early
<1>9. Follows(c)'
  <2>1. Moved(c)' = Moved(c) /\ Written(c)' = Written(c) /\ Consumed(c)' = Consumed(c)
    BY <1>1, <1>2, <1>5 DEF Moved, Written, Consumed, dataVars
  <2> QED
    BY <1>1, <1>2, <1>3, <1>5, <2>1 DEF ConnInv, Follows
<1>10. Answers(c)'
  BY <1>1, <1>2, <1>3, <1>5 DEF ConnInv, Answers
<1>11. Data(c)'
  BY <1>1, <1>2, <1>5 DEF ConnInv, Data, dataVars
<1> QED
  BY <1>4, <1>6, <1>7, <1>8, <1>9, <1>10, <1>11 DEF ConnInv

(* The finish notification arrives.                                        *)
LEMMA SignalArrives ==
  ASSUME StateTypeOK, NEW c \in Conns, ConnInv(c), Server(c) = "signal",
         HasMessage(c, "server"), NEW l \in {"queue", "routine"}, Goes(c, "server", l),
         sock' = [sock EXCEPT ![c] = Read2(@, "server")],
         UNCHANGED <<alive, result, op, need, routine, req, rsp, con_data, dataVars, accepted,
                     queued, faults>>
  PROVE  StateTypeOK' /\ ConnInv(c)' /\ Others(c)
<1> DEFINE I == In(c, "server")
<1>0. /\ "client" \in Sides /\ "server" \in Sides /\ Peer("server") = "client"
      /\ l \in ClientPCs \cup ServerPCs
  BY PeerFacts DEF ServerPCs
<1>1. Len(I) >= 2 /\ I[1][1] = "size" /\ I \in Seq(Cells) /\ 1 \in 1 .. Len(I)
  <2>1. Len(I) >= 2 /\ I[1][1] = "size" /\ I \in Seq(Cells)
    BY <1>0, SockTypes DEF HasMessage
  <2> QED
    BY <2>1
<1>2. Late(c) /\ req[c] # None /\ c \in accepted
  BY DEF ConnInv, Places, Data, Late
<1>3. Moved(c) /\ Client(c) = "returned" /\ Len(I) <= 1 + 1
  BY <1>1, <1>2 DEF ConnInv, Follows
<1>4. /\ sock' \in [Conns -> Sockets] /\ \A d \in Conns \ {c} : sock'[d] = sock[d]
      /\ In(c, "client")' = In(c, "client")
      /\ In(c, "server")' \in Seq(Cells) /\ Len(In(c, "server")') = Len(I) - 2
      /\ \A t \in Sides : sock'[c][t].fin = sock[c][t].fin /\ sock'[c][t].err = sock[c][t].err
  BY <1>1, Read2Step
<1>5. In(c, "server")' = <<>>
  BY <1>1, <1>3, <1>4
<1>6. /\ pc' \in [Conns -> [Sides -> ClientPCs \cup ServerPCs]]
      /\ Server(c)' = l /\ Client(c)' = "returned" /\ Client(c)' = Client(c)
      /\ \A d \in Conns \ {c} : pc'[d] = pc[d]
  BY <1>0, <1>3, GoesEffect DEF Client, Server
<1>7. StateTypeOK' /\ Others(c)
  BY <1>4, <1>6 DEF StateTypeOK, Others, Same, dataVars
<1>8. /\ ~Early(c)' /\ Late(c)' /\ ConData(c)' = ConData(c) /\ Fin(c)' = Fin(c) /\ Fin(c)
      /\ ~Early(c)
  BY <1>0, <1>2, <1>3, <1>4, <1>6 DEF Early, Late, ConData, Fin, ConnInv, Ends
<1>9. Places(c)'
  BY <1>2, <1>4, <1>5, <1>6, <1>8 DEF ConnInv, Places, ServerPCs
<1>10. Ends(c)'
  BY <1>0, <1>4, <1>6, <1>8 DEF ConnInv, Ends
<1>11. Arrives(c)'
  BY <1>8 DEF Arrives, Early
<1>12. Follows(c)'
  <2>1. 1 .. Len(In(c, "server")') = {}
    BY <1>5
  <2>2. Server(c)' \notin {"prepare", "sync", "modify", "syncQ", "signal"}
    BY <1>6
  <2> QED
    BY <1>5, <1>6, <1>8, <2>1, <2>2 DEF Follows
<1>13. Answers(c)'
  BY <1>6 DEF Answers
<1>14. Data(c)'
  BY <1>2, <1>3, <1>6, <1>8 DEF ConnInv, Data, Moved, dataVars
<1> QED
  BY <1>7, <1>9, <1>10, <1>11, <1>12, <1>13, <1>14 DEF ConnInv

LEMMA ReadSignalKeeps ==
  ASSUME StateTypeOK, WireInv, NEW c \in Conns, ReadSignal(c)
  PROVE  StateTypeOK' /\ WireInv'
<1>0. ConnInv(c) /\ Server(c) = "signal"
      /\ UNCHANGED <<op, need, routine, req, rsp, con_data, dataVars, accepted, queued, faults>>
  BY DEF WireInv, ReadSignal, Server, msgVars
<1>1. CASE ServerExits
  BY <1>0, <1>1, FaultEffect, ServerExitsKeeps
<1>2. CASE /\ HasMessage(c, "server")
           /\ Goes(c, "server", IF routine[c] = 1 THEN "queue" ELSE "routine")
           /\ sock' = [sock EXCEPT ![c] = Read2(@, "server")]
           /\ UNCHANGED <<alive, result>>
  <2>1. PICK l \in {"queue", "routine"} : Goes(c, "server", l)
    BY <1>2
  <2>2. StateTypeOK' /\ ConnInv(c)' /\ Others(c)
    BY <1>0, <1>2, <2>1, SignalArrives
  <2> QED
    BY <2>2, OthersKeep
<1>3. CASE /\ NothingToRead(c, "server") /\ Goes(c, "server", "routine")
           /\ sock' = [sock EXCEPT ![c] = ErrorSeen(@, "server")]
           /\ UNCHANGED <<alive, result>>
  <2> DEFINE k == ErrorSeen(sock[c], "server")
  <2>0. "client" \in Sides /\ "server" \in Sides /\ Peer("server") = "client"
    BY PeerFacts
  <2>1. sock[c] \in Sockets /\ (\A t \in Sides : sock[c][t].in = In(c, t))
        /\ sock' = [sock EXCEPT ![c] = k]
    BY <1>3, SockTypes DEF StateTypeOK
  <2>2. /\ k \in Sockets /\ k["server"].in = <<>>
        /\ k[Peer("server")].in = sock[c][Peer("server")].in
        /\ \A t \in Sides : k[t].fin = sock[c][t].fin /\ (k[t].err => sock[c][t].err)
    BY <2>0, <2>1, ErrorSeenEffect
  <2> HIDE DEF k
  <2>3. k["client"].in = In(c, "client")
    BY <2>0, <2>1, <2>2
  <2>4. Fin(c)
    BY <1>0, <1>3, <2>0 DEF NothingToRead, AtEnd, ConnInv, Ends, Fin
  <2>5. faults' \in 0 .. MaxFaults
    BY <1>0, FaultEffect
  <2>6. StateTypeOK' /\ ConnInv(c)' /\ Others(c)
    BY <1>0, <1>3, <2>1, <2>2, <2>3, <2>4, <2>5, HandlerGivesUpKeeps
  <2> QED
    BY <2>6, OthersKeep
<1> QED
  BY <1>1, <1>2, <1>3 DEF ReadSignal

-----------------------------------------------------------------------------
(* The network resets a connection.                                        *)
LEMMA ResetKeeps ==
  ASSUME StateTypeOK, NEW c \in Conns, ConnInv(c), Reset(c)
  PROVE  StateTypeOK' /\ ConnInv(c)' /\ Others(c)
<1> DEFINE I == In(c, "server")
           J == In(c, "client")
<1>0. /\ "client" \in Sides /\ "server" \in Sides /\ "client" # "server"
      /\ \A t \in Sides : t = "client" \/ t = "server"
      /\ I \in Seq(Cells) /\ J \in Seq(Cells)
  BY PeerFacts, SockTypes
<1>1. /\ UNCHANGED <<alive, op, need, routine, req, rsp, pc, con_data, dataVars, accepted,
                     queued, result>>
      /\ Client(c) # "returned" /\ faults' \in 0 .. MaxFaults
  BY <1>0, FaultEffect DEF Reset, Client, msgVars
<1>2. PICK a \in 0 .. Len(J), b \in 0 .. Len(I) :
        sock' = [sock EXCEPT ![c] =
          [client |-> [in |-> SubSeq(J, 1, a), fin |-> TRUE, err |-> TRUE],
           server |-> [in |-> SubSeq(I, 1, b), fin |-> TRUE, err |-> TRUE]]]
  BY DEF Reset
<1> DEFINE J2 == SubSeq(J, 1, a)
           I2 == SubSeq(I, 1, b)
           k == [client |-> [in |-> J2, fin |-> TRUE, err |-> TRUE],
                 server |-> [in |-> I2, fin |-> TRUE, err |-> TRUE]]
<1>3. /\ J2 \in Seq(Cells) /\ Len(J2) = a /\ \A i \in 1 .. a : J2[i] = J[i]
      /\ I2 \in Seq(Cells) /\ Len(I2) = b /\ \A i \in 1 .. b : I2[i] = I[i]
  BY <1>0, PrefixFacts
<1>4. /\ a \in Nat /\ b \in Nat /\ a <= Len(J) /\ b <= Len(I) /\ Len(I) \in Nat /\ Len(J) \in Nat
      /\ (J = <<>> => J2 = <<>>) /\ (I = <<>> => I2 = <<>>)
  <2>1. a \in Nat /\ b \in Nat /\ a <= Len(J) /\ b <= Len(I) /\ Len(I) \in Nat /\ Len(J) \in Nat
    BY <1>0
  <2>2. (J = <<>> => Len(J) = 0) /\ (I = <<>> => Len(I) = 0)
    OBVIOUS
  <2> HIDE DEF J2, I2, I, J
  <2>3. (J = <<>> => a = 0) /\ (I = <<>> => b = 0)
    BY <2>1, <2>2
  <2>4. (a = 0 => J2 = <<>>) /\ (b = 0 => I2 = <<>>)
    BY <1>3
  <2> QED
    BY <2>1, <2>3, <2>4
<1> HIDE DEF J2, I2
<1>5. k \in Sockets /\ sock' = [sock EXCEPT ![c] = k]
  <2>1. k = [t \in Sides |-> k[t]]
    BY DEF Sides
  <2>2. /\ k["client"] \in [in : Seq(Cells), fin : BOOLEAN, err : BOOLEAN]
        /\ k["server"] \in [in : Seq(Cells), fin : BOOLEAN, err : BOOLEAN]
    BY <1>3
  <2>3. sock' = [sock EXCEPT ![c] = k]
    BY <1>2 DEF I2, J2
  <2> HIDE DEF k
  <2>4. k \in Sockets
    BY <1>0, <2>1, <2>2 DEF Sockets
  <2> QED
    BY <2>3, <2>4
<1>5a. /\ k["client"].in = J2 /\ k["server"].in = I2
       /\ k["client"].fin /\ k["server"].fin
  OBVIOUS
<1> HIDE DEF k
<1>6. /\ sock' \in [Conns -> Sockets] /\ sock'[c] = k
      /\ \A t \in Sides : In(c, t)' = k[t].in
      /\ \A d \in Conns \ {c} : sock'[d] = sock[d]
  BY <1>5, SockEffect, ZenonT(60)
<1>7. /\ In(c, "client")' = J2 /\ In(c, "server")' = I2
      /\ sock'[c]["client"].fin /\ sock'[c]["server"].fin
  BY <1>0, <1>6, <1>5a
<1>8. StateTypeOK' /\ Others(c)
  BY <1>1, <1>6 DEF StateTypeOK, Others, Same, dataVars
<1>9. /\ Client(c)' = Client(c) /\ Server(c)' = Server(c) /\ Early(c)' = Early(c)
      /\ Late(c)' = Late(c) /\ ConData(c)' = ConData(c) /\ Fin(c)'
      /\ RequestCells(c)' = RequestCells(c)
  BY <1>1, <1>7 DEF Client, Server, Early, Late, ConData, Fin, RequestCells
<1> HIDE DEF I, J
<1>10. Places(c)'
  BY <1>1, <1>4, <1>7, <1>9 DEF ConnInv, Places, I, J
<1>11. Ends(c)'
  BY <1>0, <1>7, <1>9, <1>6 DEF Ends, Sockets
<1>12. Arrives(c)'
  <2>1. \A i \in 1 .. b : i \in 1 .. Len(I)
    BY <1>4
  <2>2. ASSUME NEW n \in Nat, Len(I) <= n PROVE Len(I2) <= n
    BY <1>3, <1>4, <2>2
  <2>3. Server(c) = "respond" => I2 = <<>>
    BY <1>4 DEF ConnInv, Arrives, I
  <2>4. 1 .. Len(I2) = 1 .. b
    BY <1>3
  <2>5. /\ Len(I) <= 4 => Len(I2) <= 4
        /\ Len(I) <= 2 => Len(I2) <= 2
    BY <2>2
  <2>6. Server(c) \in {"idle", "backlog"} \/ (Server(c) = "routine" /\ req[c] = None) =>
          /\ Len(I2) <= 4
          /\ \A i \in 1 .. b : I2[i] = RequestCells(c)[i]
    BY <1>3, <2>1, <2>5 DEF ConnInv, Arrives, I
  <2>7. Server(c) = "read" =>
          /\ routine[c] = Routine(op[c]) /\ Len(I2) <= 2
          /\ \A i \in 1 .. b : I2[i] = RequestCells(c)[i + 2]
    BY <1>3, <2>1, <2>5 DEF ConnInv, Arrives, I
  <2> QED
    BY <1>1, <1>7, <1>9, <2>3, <2>4, <2>6, <2>7 DEF Arrives
<1>13. Follows(c)'
  <2>1. ASSUME Late(c), NEW i \in 1 .. b PROVE I2[i][1] # "size"
    <3>1. i \in 1 .. Len(I) /\ I2[i] = I[i]
      BY <1>3, <1>4
    <3>2. \A j \in 1 .. Len(I) : I[j][1] = "size" => Client(c) = "returned"
      BY <2>1 DEF ConnInv, Follows, I
    <3> QED
      BY <1>1, <3>1, <3>2
  <2>2. I2 # <<>> => 1 \in 1 .. b
    BY <1>3, <1>4
  <2>3. 1 .. Len(I2) = 1 .. b
    BY <1>3
  <2>4. Late(c) =>
          /\ Server(c) = "prepare" => ConData(c) = <<>>
          /\ Server(c) = "sync" => Len(ConData(c)) <= 1
          /\ Server(c) \in {"modify", "syncQ", "signal"} => Len(ConData(c)) = 2
          /\ Server(c) = "queue" => op[c] = "meta" \/ Client(c) = "returned"
    BY DEF ConnInv, Follows
  <2> QED
    BY <1>1, <1>7, <1>9, <2>1, <2>2, <2>3, <2>4 DEF Follows
<1>14. Answers(c)'
  <2>1. /\ a >= 1 => Len(J) >= 1 /\ J2[1] = J[1]
        /\ a >= 2 => Len(J) >= 2 /\ J2[2] = J[2]
    BY <1>3, <1>4
  <2> QED
    BY <1>1, <1>3, <1>7, <1>9, <2>1 DEF ConnInv, Answers, J
<1>15. Data(c)'
  BY <1>1, <1>9 DEF ConnInv, Data, dataVars
<1> QED
  BY <1>8, <1>10, <1>11, <1>12, <1>13, <1>14, <1>15 DEF ConnInv

-----------------------------------------------------------------------------
(* The invariant holds in every state.                                     *)

LEMMA InitHolds ==
  ASSUME Init
  PROVE  StateTypeOK /\ WireInv
<1>0. "client" \in Sides /\ "server" \in Sides /\ <<>> \in Seq(Cells) /\ <<>> \in Seq(Values)
  BY PeerFacts
<1>1. StateTypeOK
  <2>1. [s \in Sides |-> Socket] \in Sockets
    BY <1>0 DEF Sockets, Socket
  <2>2. "idle" \in ClientPCs \cup ServerPCs /\ 0 \in 0 .. MaxFaults
    BY WireAssumption DEF ClientPCs
  <2> QED
    BY <1>0, <2>1, <2>2 DEF Init, StateTypeOK
<1>2. ASSUME NEW c \in Conns PROVE ConnInv(c)
  <2>1. /\ Client(c) = "idle" /\ Server(c) = "idle" /\ ConData(c) = <<>> /\ ~Fin(c)
        /\ In(c, "server") = <<>> /\ In(c, "client") = <<>>
        /\ \A s \in Sides : ~sock[c][s].err /\ ~sock[c][s].fin
        /\ op[c] = "none" /\ req[c] = None /\ result[c] = "none" /\ accepted = {}
        /\ posted[c] = 0 /\ polled[c] = 0 /\ landed[c] = 0
    BY <1>0 DEF Init, Client, Server, ConData, Fin, In, Socket
  <2>2. Early(c) /\ ~Late(c)
    BY <2>1 DEF Early, Late
  <2>3. Places(c)
    BY <2>1, <2>2 DEF Places, ClientPCs, ServerPCs
  <2>4. Ends(c)
    <3>1. sock[c]["client"].fin = FALSE /\ sock[c]["server"].fin = FALSE
      BY <1>0 DEF Init, Socket
    <3> QED
      BY <1>0, <2>1, <3>1 DEF Ends
  <2>5. Arrives(c)
    <3>1. Len(In(c, "server")) = 0 /\ 1 .. Len(In(c, "server")) = {}
      BY <2>1
    <3> QED
      BY <2>1, <3>1 DEF Arrives
  <2>6. Follows(c) /\ Answers(c)
    BY <2>1, <2>2 DEF Follows, Answers
  <2>7. Data(c)
    BY <2>1, WireAssumption DEF Data
  <2> QED
    BY <2>3, <2>4, <2>5, <2>6, <2>7 DEF ConnInv
<1> QED
  BY <1>1, <1>2 DEF WireInv

LEMMA NextKeeps ==
  ASSUME StateTypeOK, WireInv, [Next]_vars
  PROVE  StateTypeOK' /\ WireInv'
<1>1. CASE UNCHANGED vars
  <2>1. StateTypeOK' /\ \A c \in Conns : Same(c)
    BY <1>1 DEF vars, StateTypeOK, Same
  <2> QED
    BY <2>1, FrameKeeps DEF WireInv
<1>2. CASE Next
  <2>1. PICK c \in Conns : \/ \E kind \in Ops[c], n \in Chunks : Begin(c, kind, n)
                           \/ Progress(c)
                           \/ Reset(c)
    BY <1>2 DEF Next
  <2>2. ConnInv(c)
    BY DEF WireInv
  <2>3. ASSUME StateTypeOK', ConnInv(c)', Others(c) PROVE StateTypeOK' /\ WireInv'
    BY <2>3, OthersKeep
  <2>4. CASE \E kind \in Ops[c], n \in Chunks : Begin(c, kind, n)
    BY <2>2, <2>3, <2>4, BeginKeeps
  <2>5. CASE Reset(c)
    BY <2>2, <2>3, <2>5, ResetKeeps
  <2>6. CASE ClientStep(c)
    BY <2>2, <2>3, <2>6, ConnectKeeps, SendRequestKeeps, ReadResponseKeeps, NoResponseKeeps,
       PostKeeps, PollKeeps, FinishKeeps DEF ClientStep
  <2>7. CASE ServerStep(c)
    <3>1. CASE Accept(c) \/ ReadRoutine(c) \/ ReadRequest(c) \/ ReadSignal(c)
      BY <3>1, AcceptKeeps, ReadRoutineKeeps, ReadRequestKeeps, ReadSignalKeeps
    <3>2. CASE Respond(c) \/ AddKey(c)
      BY <2>2, <2>3, <3>2, RespondKeeps, AddKeyKeeps
    <3> QED
      BY <2>7, <3>1, <3>2 DEF ServerStep
  <2>8. CASE Land(c)
    BY <2>2, <2>3, <2>8, LandKeeps
  <2>9. CASE \E s \in Sides : Handshake(c, s)
    <3>1. PICK s \in Sides : Handshake(c, s)
      BY <2>9
    <3> QED
      BY <2>2, <2>3, <3>1, PrepareKeeps, SyncDataKeeps, ModifyQpKeeps, SyncQKeeps,
         SyncErrorKeeps DEF Handshake
  <2> QED
    BY <2>1, <2>4, <2>5, <2>6, <2>7, <2>8, <2>9 DEF Progress
<1> QED
  BY <1>1, <1>2

(* Client, server and the cells between them always fit together.          *)
THEOREM WireInvariant == Spec => [](StateTypeOK /\ WireInv)
<1>1. Init => StateTypeOK /\ WireInv
  BY InitHolds
<1>2. StateTypeOK /\ WireInv /\ [Next]_vars => (StateTypeOK /\ WireInv)'
  BY NextKeeps
<1> QED
  BY <1>1, <1>2, PTL DEF Spec

(* Neither side acts on a message that was not sent: the server's handler  *)
(* works with the routine and the request of its client, and a load moves  *)
(* data only for the metadata the server answered with, for any number of  *)
(* connections, whatever is cut, lost or refused.                          *)
THEOREM InStepCorrect == Spec => []InStep
<1>1. StateTypeOK /\ WireInv => InStep
  BY DEF WireInv, ConnInv, Places, Data, InStep
<1> QED
  BY <1>1, WireInvariant, PTL

-----------------------------------------------------------------------------
(* Network cards.                                                          *)

LEMMA LeastNat ==
  ASSUME NEW S, S \subseteq Nat, S # {}
  PROVE  \E x \in S : \A y \in S : x <= y
<1>1. \E x \in S : \A y \in S : ~(<<y, x>> \in OpToRel(<, Nat))
  BY NatLessThanWellFounded, WFMin
<1>2. \E x \in S : \A y \in S : ~(y < x)
  BY <1>1, Zenon DEF OpToRel
<1> QED
  BY <1>2

(* There is always a card to choose.                                       *)
LEMMA ChooseNicExists ==
  ASSUME NEW busy \in [NICs -> Nat]
  PROVE  ChooseNic(busy) \in NICs
<1>1. NICs \subseteq Nat /\ 1 \in NICs
  BY WireAssumption DEF NICs
<1>2. PICK b \in {busy[n] : n \in NICs} : \A d \in {busy[n] : n \in NICs} : b <= d
  <2>1. {busy[n] : n \in NICs} \subseteq Nat /\ {busy[n] : n \in NICs} # {}
    BY <1>1
  <2> QED
    BY <2>1, LeastNat
<1>3. PICK n \in {m \in NICs : busy[m] = b} : \A m \in {k \in NICs : busy[k] = b} : n <= m
  <2>1. {m \in NICs : busy[m] = b} \subseteq Nat /\ {m \in NICs : busy[m] = b} # {}
    BY <1>1, <1>2
  <2> QED
    BY <2>1, LeastNat
<1>4. n \in NICs /\ \A m \in NICs : busy[n] < busy[m] \/ (busy[n] = busy[m] /\ n <= m)
  <2>1. ASSUME NEW m \in NICs PROVE busy[n] < busy[m] \/ (busy[n] = busy[m] /\ n <= m)
    <3>1. busy[n] = b /\ b <= busy[m] /\ busy[m] \in Nat /\ b \in Nat
      BY <1>2, <1>3
    <3>2. CASE busy[m] = b
      BY <1>3, <3>1, <3>2
    <3>3. CASE busy[m] # b
      BY <3>1, <3>3
    <3> QED
      BY <3>2, <3>3
  <2> QED
    BY <1>3, <2>1
<1> QED
  BY <1>4 DEF ChooseNic

LEMMA ConstructEffect ==
  ASSUME NicCount, NEW c \in Conns, NEW s \in Sides, nic[c][s] = NoNic, Construct(c, s)
  PROVE  /\ NicCount' /\ nic'[c][s] # NoNic
         /\ \A d \in Conns, t \in Sides : <<d, t>> # <<c, s>> => nic'[d][t] = nic[d][t]
<1> DEFINE n == ChooseNic(busy_[s])
<1>1. n \in NICs /\ n # NoNic /\ busy_[s] \in [NICs -> Nat]
  <2>1. busy_[s] \in [NICs -> Nat]
    BY DEF NicCount
  <2>2. n \in NICs
    BY <2>1, ChooseNicExists
  <2> QED
    BY <2>1, <2>2, WireAssumption DEF NICs, NoNic
<1>2. nic' = [nic EXCEPT ![c][s] = n] /\ busy_' = [busy_ EXCEPT ![s][n] = @ + 1]
  BY DEF Construct
<1> HIDE DEF n
<1>3. /\ nic' \in [Conns -> [Sides -> NICs \cup {NoNic}]] /\ nic'[c][s] = n
      /\ \A d \in Conns, t \in Sides : <<d, t>> # <<c, s>> => nic'[d][t] = nic[d][t]
  BY <1>1, <1>2 DEF NicCount
<1>4. /\ busy_' \in [Sides -> [NICs -> Nat]] /\ busy_'[s][n] = busy_[s][n] + 1
      /\ \A t \in Sides, m \in NICs : <<t, m>> # <<s, n>> => busy_'[t][m] = busy_[t][m]
  BY <1>1, <1>2 DEF NicCount
<1>5. ASSUME NEW t \in Sides, NEW m \in NICs
      PROVE  IsFiniteSet(Holders(t, m)') /\ busy_'[t][m] = Cardinality(Holders(t, m)')
  <2>1. IsFiniteSet(Holders(t, m)) /\ busy_[t][m] = Cardinality(Holders(t, m))
    BY DEF NicCount
  <2>2. CASE t = s /\ m = n
    <3>1. Holders(t, m)' = Holders(t, m) \cup {c} /\ c \notin Holders(t, m)
      BY <1>1, <1>3, <2>2 DEF Holders
    <3>2. /\ IsFiniteSet(Holders(t, m) \cup {c})
          /\ Cardinality(Holders(t, m) \cup {c}) = Cardinality(Holders(t, m)) + 1
      BY <2>1, <3>1, FS_AddElement
    <3> QED
      BY <1>4, <2>1, <2>2, <3>1, <3>2
  <2>3. CASE ~(t = s /\ m = n)
    <3>1. Holders(t, m)' = Holders(t, m)
      <4>1. ASSUME NEW d \in Conns PROVE nic'[d][t] = m <=> nic[d][t] = m
        <5>1. CASE <<d, t>> # <<c, s>>
          BY <1>3, <5>1
        <5>2. CASE d = c /\ t = s
          <6>1. m # NoNic
            BY WireAssumption DEF NICs, NoNic
          <6> QED
            BY <1>3, <2>3, <5>2, <6>1
        <5> QED
          BY <5>1, <5>2
      <4> QED
        BY <4>1 DEF Holders
    <3>2. busy_'[t][m] = busy_[t][m]
      BY <1>4, <2>3
    <3> QED
      BY <2>1, <3>1, <3>2
  <2> QED
    BY <2>2, <2>3
<1> QED
  BY <1>1, <1>3, <1>4, <1>5 DEF NicCount

LEMMA DestroyEffect ==
  ASSUME NicCount, NEW c \in Conns, NEW s \in Sides, nic[c][s] # NoNic, Destroy(c, s)
  PROVE  /\ NicCount' /\ nic'[c][s] = NoNic
         /\ \A d \in Conns, t \in Sides : <<d, t>> # <<c, s>> => nic'[d][t] = nic[d][t]
<1> DEFINE n == nic[c][s]
<1>1. n \in NICs /\ c \in Holders(s, n)
  BY DEF NicCount, Holders
<1>2. nic' = [nic EXCEPT ![c][s] = NoNic] /\ busy_' = [busy_ EXCEPT ![s][n] = @ - 1]
  BY DEF Destroy
<1>3. /\ nic' \in [Conns -> [Sides -> NICs \cup {NoNic}]] /\ nic'[c][s] = NoNic
      /\ \A d \in Conns, t \in Sides : <<d, t>> # <<c, s>> => nic'[d][t] = nic[d][t]
  BY <1>2 DEF NicCount
<1>4. /\ IsFiniteSet(Holders(s, n) \ {c})
      /\ Cardinality(Holders(s, n) \ {c}) = Cardinality(Holders(s, n)) - 1
      /\ Cardinality(Holders(s, n) \ {c}) \in Nat
      /\ busy_[s][n] = Cardinality(Holders(s, n))
  <2>1. IsFiniteSet(Holders(s, n)) /\ busy_[s][n] = Cardinality(Holders(s, n))
    BY <1>1 DEF NicCount
  <2>2. /\ IsFiniteSet(Holders(s, n) \ {c})
        /\ Cardinality(Holders(s, n) \ {c}) = Cardinality(Holders(s, n)) - 1
    BY <1>1, <2>1, FS_RemoveElement
  <2> QED
    BY <2>1, <2>2, FS_CardinalityType
<1>5. /\ busy_' \in [Sides -> [NICs -> Nat]] /\ busy_'[s][n] = busy_[s][n] - 1
      /\ \A t \in Sides, m \in NICs : <<t, m>> # <<s, n>> => busy_'[t][m] = busy_[t][m]
  <2>1. busy_[s][n] - 1 \in Nat
    BY <1>4
  <2> HIDE DEF n
  <2> QED
    BY <1>1, <1>2, <2>1 DEF NicCount
<1>6. ASSUME NEW t \in Sides, NEW m \in NICs
      PROVE  IsFiniteSet(Holders(t, m)') /\ busy_'[t][m] = Cardinality(Holders(t, m)')
  <2>1. IsFiniteSet(Holders(t, m)) /\ busy_[t][m] = Cardinality(Holders(t, m))
    BY DEF NicCount
  <2>0. m # NoNic
    BY WireAssumption DEF NICs, NoNic
  <2>2. CASE t = s /\ m = n
    <3>1. Holders(t, m)' = Holders(s, n) \ {c}
      <4>1. ASSUME NEW d \in Conns PROVE nic'[d][t] = m <=> nic[d][s] = n /\ d # c
        BY <1>3, <2>0, <2>2
      <4> QED
        BY <4>1 DEF Holders
    <3> QED
      BY <1>4, <1>5, <2>2, <3>1
  <2>3. CASE ~(t = s /\ m = n)
    <3>1. Holders(t, m)' = Holders(t, m)
      <4>1. ASSUME NEW d \in Conns PROVE nic'[d][t] = m <=> nic[d][t] = m
        <5>1. CASE <<d, t>> # <<c, s>>
          BY <1>3, <5>1
        <5>2. CASE d = c /\ t = s
          BY <1>3, <2>0, <2>3, <5>2
        <5> QED
          BY <5>1, <5>2
      <4> QED
        BY <4>1 DEF Holders
    <3>2. busy_'[t][m] = busy_[t][m]
      BY <1>5, <2>3
    <3> QED
      BY <2>1, <3>1, <3>2
  <2> QED
    BY <2>2, <2>3
<1> QED
  BY <1>3, <1>5, <1>6 DEF NicCount

(* A thread that has its card goes on.                                     *)
NoCard == {"idle", "backlog", "returned", "left", "dead"}
LEMMA GoesOnNic ==
  ASSUME StateTypeOK, NicInv, NEW c \in Conns, NEW s \in Sides,
         NEW l \in ClientPCs \cup ServerPCs, Goes(c, s, l),
         pc[c][s] \notin NoCard, l \notin NoCard \cup {"connect"}, UNCHANGED nicVars
  PROVE  NicInv'
<1>1. /\ pc'[c][s] = l /\ pc'[c][Peer(s)] = pc[c][Peer(s)]
      /\ \A d \in Conns \ {c} : pc'[d] = pc[d]
  BY GoesEffect
<1>2. \A t \in Sides : t = s \/ t = Peer(s)
  BY PeerFacts
<1>3. /\ HasNic(c, s) /\ HasNic(c, s)' /\ (HasNic(c, Peer(s))' <=> HasNic(c, Peer(s)))
      /\ \A d \in Conns \ {c}, t \in Sides : HasNic(d, t)' <=> HasNic(d, t)
  BY <1>1 DEF HasNic, NoCard
<1>4. NicCount'
  <2>1. \A t, n : Holders(t, n)' = Holders(t, n)
    BY DEF Holders, nicVars
  <2> QED
    BY <2>1 DEF NicInv, NicCount, nicVars
<1>5. ASSUME NEW d \in Conns, NEW t \in Sides
      PROVE  nic'[d][t] # NoNic <=> HasNic(d, t)'
  <2>1. nic'[d][t] = nic[d][t] /\ (nic[d][t] # NoNic <=> HasNic(d, t))
    BY DEF NicInv, nicVars
  <2> QED
    BY <1>2, <1>3, <2>1
<1>6. ASSUME NEW d \in Conns, Client(d)' \in {"idle", "connect"}
      PROVE  Server(d)' \in {"idle", "dead"}
  <2>1. Client(d) \in {"idle", "connect"} => Server(d) \in {"idle", "dead"}
    BY DEF NicInv
  <2>2. CASE d # c
    BY <1>1, <1>6, <2>1, <2>2 DEF Client, Server
  <2>3. CASE d = c /\ s = "client"
    BY <1>1, <1>6, <2>3 DEF Client, NoCard
  <2>4. CASE d = c /\ s = "server"
    <3>1. Client(d)' = Client(d) /\ Server(d) \notin {"idle", "dead"}
      BY <1>1, <2>4, PeerFacts DEF Client, Server, NoCard
    <3> QED
      BY <1>6, <2>1, <3>1
  <2> QED
    BY <2>2, <2>3, <2>4, PeerFacts
<1> QED
  BY <1>4, <1>5, <1>6 DEF NicInv

(* A communicator is constructed when a thread has none, or destroyed with *)
(* the thread's last step.                                                 *)
LEMMA CardChangesNic ==
  ASSUME StateTypeOK, NicInv, NEW c \in Conns, NEW s \in Sides,
         NEW l \in ClientPCs \cup ServerPCs, Goes(c, s, l),
         \/ /\ Construct(c, s) /\ pc[c][s] \in NoCard /\ l \notin NoCard
            /\ \/ s = "client" /\ l = "connect" /\ Client(c) \in {"idle", "connect"}
               \/ s = "server" /\ Server(c) = "backlog"
         \/ Destroy(c, s) /\ pc[c][s] \notin NoCard /\ l \in {"returned", "left"}
  PROVE  NicInv'
<1>1. /\ pc'[c][s] = l /\ pc'[c][Peer(s)] = pc[c][Peer(s)]
      /\ \A d \in Conns \ {c} : pc'[d] = pc[d]
  BY GoesEffect
<1>2. (\A t \in Sides : t = s \/ t = Peer(s)) /\ Peer(s) # s
  BY PeerFacts
<1>3. \A d \in Conns, t \in Sides : <<d, t>> # <<c, s>> => (HasNic(d, t)' <=> HasNic(d, t))
  BY <1>1, <1>2 DEF HasNic
<1>4. NicCount /\ (nic[c][s] # NoNic <=> HasNic(c, s))
  BY DEF NicInv
<1>5. /\ NicCount' /\ (nic'[c][s] # NoNic <=> HasNic(c, s)')
      /\ \A d \in Conns, t \in Sides : <<d, t>> # <<c, s>> => nic'[d][t] = nic[d][t]
  <2>1. CASE Construct(c, s) /\ pc[c][s] \in NoCard /\ l \notin NoCard
    <3>1. nic[c][s] = NoNic /\ HasNic(c, s)'
      BY <1>1, <1>4, <2>1 DEF HasNic, NoCard
    <3> QED
      BY <1>4, <2>1, <3>1, ConstructEffect
  <2>2. CASE Destroy(c, s) /\ pc[c][s] \notin NoCard /\ l \in {"returned", "left"}
    <3>1. nic[c][s] # NoNic /\ ~HasNic(c, s)'
      BY <1>1, <1>4, <2>2 DEF HasNic, NoCard
    <3> QED
      BY <1>4, <2>2, <3>1, DestroyEffect
  <2> QED
    BY <2>1, <2>2
<1>6. ASSUME NEW d \in Conns, NEW t \in Sides
      PROVE  nic'[d][t] # NoNic <=> HasNic(d, t)'
  <2>1. nic[d][t] # NoNic <=> HasNic(d, t)
    BY DEF NicInv
  <2>2. CASE <<d, t>> # <<c, s>>
    BY <1>3, <1>5, <2>1, <2>2
  <2>3. CASE d = c /\ t = s
    BY <1>5, <2>3
  <2> QED
    BY <2>2, <2>3
<1>7. ASSUME NEW d \in Conns, Client(d)' \in {"idle", "connect"}
      PROVE  Server(d)' \in {"idle", "dead"}
  <2>1. Client(d) \in {"idle", "connect"} => Server(d) \in {"idle", "dead"}
    BY DEF NicInv
  <2>2. CASE d # c
    BY <1>1, <1>7, <2>1, <2>2 DEF Client, Server
  <2>3. CASE d = c /\ s = "client"
    <3>1. Server(d)' = Server(d) /\ Client(d)' = l
      BY <1>1, <2>3, PeerFacts DEF Client, Server
    <3>2. Client(d) \in {"idle", "connect"}
      BY <1>7, <2>3, <3>1
    <3> QED
      BY <2>1, <3>1, <3>2
  <2>4. CASE d = c /\ s = "server"
    <3>1. Client(d)' = Client(d) /\ Server(d) \notin {"idle", "dead"}
      BY <1>1, <2>4, PeerFacts DEF Client, Server, NoCard
    <3> QED
      BY <1>7, <2>1, <3>1
  <2> QED
    BY <2>2, <2>3, <2>4, PeerFacts
<1> QED
  BY <1>5, <1>6, <1>7 DEF NicInv

LEMMA ReturnNic ==
  ASSUME StateTypeOK, NicInv, NEW c \in Conns, NEW k, NEW r, Return(c, k, r),
         pc[c]["client"] \notin NoCard
  PROVE  NicInv'
<1>1. "client" \in Sides /\ "returned" \in ClientPCs \cup ServerPCs
  BY PeerFacts DEF ClientPCs
<1> QED
  BY <1>1, CardChangesNic DEF Return

LEMMA ServerExitsNic ==
  ASSUME StateTypeOK, NicInv, ServerExits
  PROVE  NicInv'
<1>0. "client" \in Sides /\ "server" \in Sides /\ "client" # "server"
      /\ \A t \in Sides : t = "client" \/ t = "server"
  BY PeerFacts
<1>1. \A d \in Conns : pc'[d]["client"] = pc[d]["client"] /\ pc'[d]["server"] = "dead"
  BY <1>0 DEF ServerExits, StateTypeOK
<1>2. /\ nic' \in [Conns -> [Sides -> NICs \cup {NoNic}]]
      /\ \A d \in Conns : nic'[d]["client"] = nic[d]["client"] /\ nic'[d]["server"] = NoNic
  BY <1>0 DEF ServerExits, NicInv, NicCount
<1>3. /\ busy_' \in [Sides -> [NICs -> Nat]] /\ busy_'["client"] = busy_["client"]
      /\ \A n \in NICs : busy_'["server"][n] = 0
  BY <1>0 DEF ServerExits, NicInv, NicCount
<1>4. ASSUME NEW t \in Sides, NEW n \in NICs
      PROVE  IsFiniteSet(Holders(t, n)') /\ busy_'[t][n] = Cardinality(Holders(t, n)')
  <2>1. CASE t = "client"
    <3>1. Holders(t, n)' = Holders(t, n)
      BY <1>2, <2>1 DEF Holders
    <3> QED
      BY <1>3, <2>1, <3>1 DEF NicInv, NicCount
  <2>2. CASE t = "server"
    <3>1. n # NoNic
      BY WireAssumption DEF NICs, NoNic
    <3>2. Holders(t, n)' = {}
      BY <1>2, <2>2, <3>1 DEF Holders
    <3> QED
      BY <1>3, <2>2, <3>2, FS_EmptySet
  <2> QED
    BY <1>0, <2>1, <2>2
<1>5. NicCount'
  BY <1>2, <1>3, <1>4 DEF NicCount
<1>6. ASSUME NEW d \in Conns, NEW t \in Sides
      PROVE  nic'[d][t] # NoNic <=> HasNic(d, t)'
  BY <1>0, <1>1, <1>2 DEF NicInv, HasNic
<1>7. ASSUME NEW d \in Conns PROVE Server(d)' \in {"idle", "dead"}
  BY <1>1 DEF Server
<1> QED
  BY <1>5, <1>6, <1>7 DEF NicInv

(* Nothing changes that the invariant speaks of.                           *)
LEMMA SameNic ==
  ASSUME NicInv, UNCHANGED <<pc, nicVars>>
  PROVE  NicInv'
<1>1. /\ \A t, n : Holders(t, n)' = Holders(t, n)
      /\ \A d, t : HasNic(d, t)' <=> HasNic(d, t)
      /\ \A d : Client(d)' = Client(d) /\ Server(d)' = Server(d)
  BY DEF Holders, HasNic, Client, Server, nicVars
<1> QED
  BY <1>1 DEF NicInv, NicCount, nicVars

LEMMA InitNic ==
  ASSUME Init
  PROVE  NicInv
<1>0. "client" \in Sides /\ "server" \in Sides
  BY PeerFacts
<1>1. \A c \in Conns, s \in Sides : nic[c][s] = NoNic /\ pc[c][s] = "idle"
  BY DEF Init
<1>2. nic \in [Conns -> [Sides -> NICs \cup {NoNic}]] /\ busy_ \in [Sides -> [NICs -> Nat]]
      /\ \A s \in Sides, n \in NICs : busy_[s][n] = 0
  BY DEF Init
<1>3. ASSUME NEW s \in Sides, NEW n \in NICs
      PROVE  IsFiniteSet(Holders(s, n)) /\ busy_[s][n] = Cardinality(Holders(s, n))
  <2>1. n # NoNic
    BY WireAssumption DEF NICs, NoNic
  <2>2. Holders(s, n) = {}
    BY <1>1, <2>1 DEF Holders
  <2> QED
    BY <1>2, <2>2, FS_EmptySet
<1> QED
  BY <1>0, <1>1, <1>2, <1>3 DEF NicInv, NicCount, HasNic, Client, Server

LEMMA ConnectNic ==
  ASSUME StateTypeOK, NicInv, NEW c \in Conns, Connect(c)
  PROVE  NicInv'
<1>0. "client" \in Sides /\ "server" \in Sides /\ "client" # "server"
      /\ \A t \in Sides : t = "client" \/ t = "server"
  BY PeerFacts
<1>1. CASE Return(c, sock[c], "failed")
  BY <1>1, ReturnNic DEF Connect, NoCard
<1>2. CASE /\ pc' = [pc EXCEPT ![c]["client"] = "request", ![c]["server"] = "backlog"]
           /\ UNCHANGED nicVars
  <2>1. /\ pc'[c]["client"] = "request" /\ pc'[c]["server"] = "backlog"
        /\ \A d \in Conns \ {c} : pc'[d] = pc[d]
    BY <1>0, <1>2 DEF StateTypeOK
  <2>2. pc[c]["client"] = "connect" /\ pc[c]["server"] \in {"idle", "dead"}
    BY DEF Connect, NicInv, Client, Server
  <2>3. \A d \in Conns, t \in Sides : HasNic(d, t)' <=> HasNic(d, t)
    BY <1>0, <2>1, <2>2 DEF HasNic
  <2>4. \A t, n : Holders(t, n)' = Holders(t, n)
    BY <1>2 DEF Holders, nicVars
  <2>5. ASSUME NEW d \in Conns, Client(d)' \in {"idle", "connect"}
        PROVE  Server(d)' \in {"idle", "dead"}
    BY <2>1, <2>5 DEF NicInv, Client, Server
  <2>6. NicCount'
    BY <1>2, <2>4 DEF NicInv, NicCount, nicVars
  <2>7. \A d \in Conns, t \in Sides : nic'[d][t] # NoNic <=> HasNic(d, t)'
    BY <1>2, <2>3 DEF NicInv, nicVars
  <2> QED
    BY <2>5, <2>6, <2>7 DEF NicInv
<1> QED
  BY <1>1, <1>2 DEF Connect

LEMMA ClientNic ==
  ASSUME StateTypeOK, NicInv, NEW c \in Conns, ClientStep(c)
  PROVE  NicInv'
<1>0. "client" \in Sides /\ {"response", "prepare"} \subseteq ClientPCs \cup ServerPCs
  BY PeerFacts DEF ClientPCs
<1>1. CASE Connect(c)
  BY <1>1, ConnectNic
<1>2. CASE SendRequest(c)
  BY <1>0, <1>2, GoesOnNic DEF SendRequest, NoCard
<1>3. CASE ReadResponse(c)
  <2>1. pc[c]["client"] = "response"
        /\ \/ \E k, r : Return(c, k, r)
           \/ Goes(c, "client", "prepare") /\ UNCHANGED nicVars
    BY <1>3 DEF ReadResponse
  <2> QED
    BY <1>0, <2>1, ReturnNic, GoesOnNic DEF NoCard
<1>4. CASE NoResponse(c)
  BY <1>4, ReturnNic DEF NoResponse, NoCard
<1>5. CASE Post(c)
  BY <1>5, ReturnNic, SameNic DEF Post, NoCard
<1>6. CASE Poll(c)
  BY <1>6, ReturnNic, SameNic DEF Poll, NoCard
<1>7. CASE Finish(c)
  BY <1>7, ReturnNic DEF Finish, NoCard
<1> QED
  BY <1>1, <1>2, <1>3, <1>4, <1>5, <1>6, <1>7 DEF ClientStep

LEMMA ServerNic ==
  ASSUME StateTypeOK, NicInv, NEW c \in Conns, ServerStep(c)
  PROVE  NicInv'
<1>0. /\ "server" \in Sides
      /\ {"routine", "read", "respond", "queue", "prepare", "left"} \subseteq ClientPCs \cup ServerPCs
  BY PeerFacts DEF ServerPCs
<1>1. CASE Accept(c)
  <2>1. CASE ServerExits
    BY <2>1, ServerExitsNic
  <2>2. CASE Goes(c, "server", "routine") /\ Construct(c, "server")
    <3>1. pc[c]["server"] = "backlog" /\ Server(c) = "backlog"
      BY <1>1 DEF Accept, Server
    <3> QED
      BY <1>0, <2>2, <3>1, CardChangesNic DEF NoCard
  <2> QED
    BY <1>1, <2>1, <2>2 DEF Accept
<1>2. CASE ReadRoutine(c)
  <2>0. pc[c]["server"] = "routine"
    BY <1>2 DEF ReadRoutine
  <2>1. CASE ServerExits
    BY <2>1, ServerExitsNic
  <2>2. CASE Goes(c, "server", "read") /\ UNCHANGED nicVars
    BY <1>0, <2>0, <2>2, GoesOnNic DEF NoCard
  <2>3. CASE Goes(c, "server", "left") /\ Destroy(c, "server")
    BY <1>0, <2>0, <2>3, CardChangesNic DEF NoCard
  <2> QED
    BY <1>2, <2>1, <2>2, <2>3 DEF ReadRoutine
<1>3. CASE ReadRequest(c)
  <2>0. pc[c]["server"] = "read"
    BY <1>3 DEF ReadRequest
  <2>1. CASE ServerExits
    BY <2>1, ServerExitsNic
  <2>2. CASE (Goes(c, "server", "respond") \/ Goes(c, "server", "routine")) /\ UNCHANGED nicVars
    BY <1>0, <2>0, <2>2, GoesOnNic DEF NoCard
  <2> QED
    BY <1>3, <2>1, <2>2 DEF ReadRequest
<1>4. CASE Respond(c)
  <2>1. /\ pc[c]["server"] = "respond" /\ UNCHANGED nicVars
        /\ \E l \in {"queue", "prepare", "routine"} : Goes(c, "server", l)
    BY <1>4 DEF Respond
  <2> QED
    BY <1>0, <2>1, GoesOnNic DEF NoCard
<1>5. CASE ReadSignal(c)
  <2>0. pc[c]["server"] = "signal"
    BY <1>5 DEF ReadSignal
  <2>1. CASE ServerExits
    BY <2>1, ServerExitsNic
  <2>2. CASE (Goes(c, "server", "queue") \/ Goes(c, "server", "routine")) /\ UNCHANGED nicVars
    BY <1>0, <2>0, <2>2, GoesOnNic DEF NoCard
  <2> QED
    BY <1>5, <2>1, <2>2 DEF ReadSignal
<1>6. CASE AddKey(c)
  BY <1>0, <1>6, GoesOnNic DEF AddKey, NoCard
<1> QED
  BY <1>1, <1>2, <1>3, <1>4, <1>5, <1>6 DEF ServerStep

LEMMA HandshakeNic ==
  ASSUME StateTypeOK, NicInv, NEW c \in Conns, NEW s \in Sides, Handshake(c, s)
  PROVE  NicInv'
<1>0. /\ {"routine", "sync", "modify", "syncQ", "transfer", "signal"} \subseteq ClientPCs \cup ServerPCs
      /\ "client" \in Sides /\ "server" \in Sides
  BY PeerFacts DEF ServerPCs, ClientPCs
<1>1. /\ pc[c][s] \in {"prepare", "sync", "modify", "syncQ"}
      /\ \/ \E k : HandshakeFails(c, s, k)
         \/ UNCHANGED <<pc, nicVars>>
         \/ /\ \E l \in {"sync", "modify", "syncQ", "transfer", "signal"} : Goes(c, s, l)
            /\ UNCHANGED nicVars
  <2>1. CASE Prepare(c, s)
    BY <2>1 DEF Prepare
  <2>2. CASE SyncData(c, s)
    BY <2>2 DEF SyncData
  <2>3. CASE ModifyQp(c, s)
    BY <2>3 DEF ModifyQp
  <2>4. CASE SyncQ(c, s)
    BY <2>4 DEF SyncQ
  <2>5. CASE SyncError(c, s)
    BY <2>5 DEF SyncError
  <2> QED
    BY <2>1, <2>2, <2>3, <2>4, <2>5 DEF Handshake
<1>2. CASE \E k : HandshakeFails(c, s, k)
  <2>1. PICK k : HandshakeFails(c, s, k)
    BY <1>2
  <2>2. CASE s = "client" /\ Return(c, k, "failed")
    BY <1>1, <2>2, ReturnNic DEF NoCard
  <2>3. CASE s = "server" /\ Goes(c, s, "routine") /\ UNCHANGED nicVars
    BY <1>0, <1>1, <2>3, GoesOnNic DEF NoCard
  <2> QED
    BY <2>1, <2>2, <2>3 DEF HandshakeFails
<1>3. CASE UNCHANGED <<pc, nicVars>>
  BY <1>3, SameNic
<1>4. CASE /\ \E l \in {"sync", "modify", "syncQ", "transfer", "signal"} : Goes(c, s, l)
           /\ UNCHANGED nicVars
  BY <1>0, <1>1, <1>4, GoesOnNic DEF NoCard
<1> QED
  BY <1>1, <1>2, <1>3, <1>4

LEMMA NextNic ==
  ASSUME StateTypeOK, WireInv, NicInv, [Next]_vars
  PROVE  NicInv'
<1>1. CASE UNCHANGED vars
  BY <1>1, SameNic DEF vars, nicVars
<1>2. CASE Next
  <2>1. PICK c \in Conns : \/ \E kind \in Ops[c], n \in Chunks : Begin(c, kind, n)
                           \/ Progress(c)
                           \/ Reset(c)
    BY <1>2 DEF Next
  <2>2. CASE \E kind \in Ops[c], n \in Chunks : Begin(c, kind, n)
    <3>1. "client" \in Sides /\ "connect" \in ClientPCs \cup ServerPCs
      BY PeerFacts DEF ClientPCs
    <3>2. Client(c) = "idle" /\ Construct(c, "client") /\ Goes(c, "client", "connect")
      BY <2>2 DEF Begin, WireInv, ConnInv, Places
    <3> QED
      BY <3>1, <3>2, CardChangesNic DEF NoCard, Client
  <2>3. CASE Reset(c)
    BY <2>3, SameNic DEF Reset
  <2>4. CASE Land(c)
    BY <2>4, SameNic DEF Land
  <2> QED
    BY <2>1, <2>2, <2>3, <2>4, ClientNic, ServerNic, HandshakeNic DEF Progress
<1> QED
  BY <1>1, <1>2

(* Both ends of every connection keep their shape, for any number of       *)
(* connections, cards, chunks and failures.                                *)
THEOREM TypeCorrect == Spec => []TypeOK
<1>1. Init => NicInv
  BY InitNic
<1>2. StateTypeOK /\ WireInv /\ NicInv /\ [Next]_vars => NicInv'
  BY NextNic
<1>3. StateTypeOK /\ WireInv /\ NicInv => TypeOK
  BY DEF StateTypeOK, WireInv, ConnInv, Places, Data, NicInv, NicCount, TypeOK, Client, Server
<1> QED
  BY <1>1, <1>2, <1>3, WireInvariant, PTL DEF Spec

(* At every moment the counts ChooseNic compares are those of the          *)
(* communicators that exist, however operations end: a card is given back  *)
(* exactly once, and an exit of the server process frees all of its.       *)
THEOREM NicBalancedCorrect == Spec => []NicBalanced
<1>1. Init => NicInv
  BY InitNic
<1>2. StateTypeOK /\ WireInv /\ NicInv /\ [Next]_vars => NicInv'
  BY NextNic
<1>3. NicInv => NicBalanced
  BY DEF NicInv, NicCount, NicBalanced, Holders
<1> QED
  BY <1>1, <1>2, <1>3, WireInvariant, PTL DEF Spec

-----------------------------------------------------------------------------
(* Wire implements Transfer.                                               *)

Need == [c \in Conns |-> Moves(op[c], need[c])]
Simulates == T!Next \/ UNCHANGED <<Need, accepted, landed, queued, result>>

(* A step the callers do not see, and a failure.                           *)
LEMMA StutterSim ==
  ASSUME UNCHANGED <<op, need, accepted, landed, queued, result>>
  PROVE  Simulates
  BY DEF Simulates, Need

LEMMA FailSim ==
  ASSUME StateTypeOK, NEW c \in Conns, ConnInv(c), NEW k, Return(c, k, "failed"),
         Client(c) # "returned", UNCHANGED <<op, need, accepted, landed, queued>>
  PROVE  Simulates
<1>1. result[c] = "none" /\ result' = [result EXCEPT ![c] = "failed"] /\ Need' = Need
  BY DEF ConnInv, Places, Return, Need
<1>2. T!Fail(c)
  BY <1>1 DEF T!Fail, Need
<1> QED
  BY <1>2 DEF Simulates, T!Next

LEMMA ConfirmSim ==
  ASSUME StateTypeOK, NEW c \in Conns, ConnInv(c), NEW k, Return(c, k, "ok"),
         Client(c) # "returned", UNCHANGED <<op, need, accepted, landed, queued>>,
         c \in accepted, landed[c] = Moves(op[c], need[c])
  PROVE  Simulates
<1>1. result[c] = "none" /\ result' = [result EXCEPT ![c] = "ok"] /\ Need' = Need
      /\ Need[c] = landed[c]
  BY DEF ConnInv, Places, Return, Need
<1>2. T!Confirm(c)
  BY <1>1 DEF T!Confirm, T!Complete, Need
<1> QED
  BY <1>2 DEF Simulates, T!Next

LEMMA BeginSim ==
  ASSUME StateTypeOK, NEW c \in Conns, ConnInv(c), NEW kind \in Ops[c], NEW n \in Chunks,
         Begin(c, kind, n)
  PROVE  Simulates
<1>1. c \notin accepted /\ UNCHANGED <<accepted, landed, queued, result>>
  BY DEF Begin, ConnInv, Places, dataVars
<1>2. Need' = [Need EXCEPT ![c] = Moves(kind, n)]
  <2>1. /\ op'[c] = kind /\ need'[c] = n
        /\ \A d \in Conns \ {c} : op'[d] = op[d] /\ need'[d] = need[d]
    BY DEF Begin, StateTypeOK
  <2> QED
    BY <2>1 DEF Need
<1>3. Moves(kind, n) \in Chunks \cup {0}
  BY DEF Moves
<1>4. T!Request(c, Moves(kind, n))
  BY <1>1, <1>2 DEF T!Request, Need
<1> QED
  BY <1>3, <1>4 DEF Simulates, T!Next

LEMMA ReadResponseSim ==
  ASSUME StateTypeOK, NEW c \in Conns, ConnInv(c), ReadResponse(c)
  PROVE  Simulates
<1>1. /\ Client(c) = "response" /\ Len(In(c, "client")) >= 1
      /\ UNCHANGED <<op, need, accepted, landed, queued>>
  <2>1. In(c, "client") \in Seq(Cells)
    BY SockTypes, PeerFacts
  <2>2. BodyLost(c, "client") \/ HasMessage(c, "client")
    BY DEF ReadResponse
  <2>3. Len(In(c, "client")) = 1 \/ Len(In(c, "client")) >= 2
    BY <2>2, Zenon DEF BodyLost, HasMessage
  <2>4. \A m \in Nat : m = 1 \/ m >= 2 => m >= 1
    OBVIOUS
  <2>5. Len(In(c, "client")) \in Nat
    BY <2>1
  <2>6. Len(In(c, "client")) >= 1
    BY <2>3, <2>4, <2>5, Zenon
  <2> QED
    BY <2>6 DEF ReadResponse, Client, dataVars
<1>2. \/ \E k : Return(c, k, "failed")
      \/ op[c] = "meta" /\ \E k : Return(c, k, "ok")
      \/ UNCHANGED result
  BY DEF ReadResponse
<1>3. CASE \E k : Return(c, k, "failed")
  BY <1>1, <1>3, FailSim
<1>4. CASE op[c] = "meta" /\ \E k : Return(c, k, "ok")
  <2>1. c \in accepted
    BY <1>1, <1>4 DEF ConnInv, Answers
  <2>2. landed[c] = Moves(op[c], need[c])
    BY <1>4 DEF ConnInv, Data, Moves, StateTypeOK
  <2> QED
    BY <1>1, <1>4, <2>1, <2>2, ConfirmSim
<1>5. CASE UNCHANGED result
  BY <1>1, <1>5, StutterSim
<1> QED
  BY <1>2, <1>3, <1>4, <1>5

LEMMA ClientSim ==
  ASSUME StateTypeOK, NEW c \in Conns, ConnInv(c), ClientStep(c)
  PROVE  Simulates
<1>1. CASE Connect(c)
  BY <1>1, StutterSim, FailSim DEF Connect, Client, msgVars, dataVars
<1>2. CASE SendRequest(c)
  BY <1>2, StutterSim DEF SendRequest, msgVars, dataVars
<1>3. CASE ReadResponse(c)
  BY <1>3, ReadResponseSim
<1>4. CASE NoResponse(c)
  BY <1>4, FailSim DEF NoResponse, Client, msgVars, dataVars
<1>5. CASE Post(c)
  BY <1>5, StutterSim, FailSim DEF Post, Client, msgVars, dataVars
<1>6. CASE Poll(c)
  BY <1>6, StutterSim, FailSim DEF Poll, Client, msgVars, dataVars
<1>7. CASE Finish(c)
  <2>1. Client(c) = "transfer" /\ AllPolled(c)
        /\ UNCHANGED <<op, need, accepted, landed, queued>>
        /\ \E k : Return(c, k, "ok")
    BY <1>7 DEF Finish, Client, msgVars, dataVars
  <2>2. c \in accepted /\ landed[c] = Moves(op[c], need[c])
    BY <2>1, PolledIsMoved DEF Moved
  <2> QED
    BY <2>1, <2>2, ConfirmSim
<1> QED
  BY <1>1, <1>2, <1>3, <1>4, <1>5, <1>6, <1>7 DEF ClientStep

LEMMA ServerSim ==
  ASSUME StateTypeOK, NEW c \in Conns, ConnInv(c), ServerStep(c)
  PROVE  Simulates
<1>1. CASE Accept(c)
  BY <1>1, StutterSim DEF Accept, ServerExits, msgVars, dataVars
<1>2. CASE ReadRoutine(c)
  BY <1>2, StutterSim DEF ReadRoutine, ServerExits, dataVars
<1>3. CASE ReadRequest(c)
  BY <1>3, StutterSim DEF ReadRequest, ServerExits, dataVars
<1>4. CASE ReadSignal(c)
  BY <1>4, StutterSim DEF ReadSignal, ServerExits, msgVars, dataVars
<1>5. CASE Respond(c)
  <2>1. UNCHANGED <<op, need, landed, queued, result>>
        /\ (accepted' = accepted \/ accepted' = accepted \cup {c})
    BY <1>5 DEF Respond, msgVars, dataVars
  <2>2. CASE accepted' = accepted
    BY <2>1, <2>2, StutterSim
  <2>3. CASE accepted' = accepted \cup {c}
    <3>1. T!Accept(c)
      BY <2>1, <2>3 DEF T!Accept
    <3> QED
      BY <3>1 DEF Simulates, T!Next
  <2> QED
    BY <2>1, <2>2, <2>3
<1>6. CASE AddKey(c)
  <2>1. /\ UNCHANGED <<op, need, landed, accepted, result>> /\ queued' = queued \cup {c}
        /\ c \in accepted /\ landed[c] = Moves(op[c], need[c])
    BY <1>6 DEF AddKey, msgVars, dataVars, ConnInv, Data, Server
  <2>2. T!Queue(c)
    BY <2>1 DEF T!Queue, T!Complete
  <2> QED
    BY <2>2 DEF Simulates, T!Next
<1> QED
  BY <1>1, <1>2, <1>3, <1>4, <1>5, <1>6 DEF ServerStep

LEMMA HandshakeSim ==
  ASSUME StateTypeOK, NEW c \in Conns, ConnInv(c), NEW s \in Sides, Handshake(c, s)
  PROVE  Simulates
<1>1. CASE SyncData(c, s) \/ SyncQ(c, s)
  BY <1>1, StutterSim DEF SyncData, SyncQ, msgVars, dataVars
<1>2. CASE Prepare(c, s) \/ ModifyQp(c, s) \/ SyncError(c, s)
  <2>1. /\ UNCHANGED <<op, need, accepted, landed, queued>>
        /\ pc[c][s] \in {"prepare", "sync", "modify", "syncQ"}
        /\ UNCHANGED result \/ \E k : HandshakeFails(c, s, k)
    BY <1>2 DEF Prepare, ModifyQp, SyncError, msgVars, dataVars
  <2>2. \/ UNCHANGED result
        \/ s = "client" /\ \E k : Return(c, k, "failed")
    BY <2>1 DEF HandshakeFails
  <2> QED
    BY <2>1, <2>2, StutterSim, FailSim DEF Client
<1> QED
  BY <1>1, <1>2 DEF Handshake

LEMMA LandSim ==
  ASSUME StateTypeOK, NEW c \in Conns, ConnInv(c), Land(c)
  PROVE  Simulates
<1>1. /\ UNCHANGED <<op, need, accepted, queued, result>> /\ Client(c) = "transfer"
      /\ landed' = [landed EXCEPT ![c] = @ + 1]
  BY DEF Land, Client, msgVars
<1>2. c \in accepted /\ result[c] = "none"
  <2>1. ConData(c) = <<"addr", "keys">>
    BY PeerFacts DEF Land, Linked, ConData
  <2>2. <<"addr", "keys">> # <<>>
    OBVIOUS
  <2>3. ConData(c) # <<>>
    BY <2>1, <2>2, Zenon
  <2> QED
    BY <1>1, <2>3 DEF ConnInv, Data, Places
<1>3. T!Move(c)
  BY <1>1, <1>2 DEF T!Move
<1> QED
  BY <1>3 DEF Simulates, T!Next

LEMMA NextSim ==
  ASSUME StateTypeOK, WireInv, [Next]_vars
  PROVE  Simulates
<1>1. CASE UNCHANGED vars
  BY <1>1, StutterSim DEF vars
<1>2. CASE Next
  <2>1. PICK c \in Conns : \/ \E kind \in Ops[c], n \in Chunks : Begin(c, kind, n)
                           \/ Progress(c)
                           \/ Reset(c)
    BY <1>2 DEF Next
  <2>2. ConnInv(c)
    BY DEF WireInv
  <2>3. CASE Reset(c)
    BY <2>3, StutterSim DEF Reset, msgVars, dataVars
  <2> QED
    BY <2>1, <2>2, <2>3, BeginSim, ClientSim, ServerSim, HandshakeSim, LandSim DEF Progress
<1> QED
  BY <1>1, <1>2

(* The wire implements Transfer for any number of connections, chunks and  *)
(* failures: Backup and LoadRemote return success, and handleBackup queues *)
(* a key, only for a request the server agreed to and data that has moved  *)
(* completely, whatever is cut, reset, lost or refused on the way.         *)
THEOREM TransferRefinement == Spec => Refinement
<1>1. Init => T!Init
  BY DEF Init, T!Init, Moves
<1>2. StateTypeOK /\ WireInv /\ [Next]_vars =>
        [T!Next]_<<Need, accepted, landed, queued, result>>
  BY NextSim DEF Simulates
<1> QED
  BY <1>1, <1>2, WireInvariant, PTL DEF Spec, Refinement, T!TransferSpec, Need

-----------------------------------------------------------------------------
(* Without a failure the handshake has no dead end.                        *)

(* A connection on which nothing has failed. Only a client that returned   *)
(* ends it, and it leaves the server all cells of its handshake; the       *)
(* number of cells on the client's stream is the number the server's       *)
(* handshake has written less those the client's has read.                 *)
Shakes(c) == Server(c) \in {"prepare", "sync", "modify", "syncQ", "signal"}
SentCells(c) == IF Server(c) = "prepare" THEN 0
                ELSE IF Server(c) \in {"sync", "modify"} THEN 2 ELSE 3
TakenCells(c) == IF Client(c) \in {"prepare", "sync"} THEN 0
                 ELSE IF Client(c) \in {"modify", "syncQ"} THEN 2 ELSE 3

CleanEnds(c) ==
  /\ ~sock[c]["client"].err /\ ~sock[c]["server"].err
  /\ Server(c) # "dead" /\ (Fin(c) => Client(c) = "returned")
CleanData(c) ==
  /\ Server(c) = "sync" => ConData(c) = <<>>
  /\ Client(c) \in {"idle", "connect", "request", "response", "prepare", "sync"} =>
       con_data[c]["client"] = <<>>
  /\ Client(c) # "returned" /\ Len(ConData(c)) >= 2 => ConData(c)[2] = "keys"
  /\ op[c] = "load" /\ Client(c) = "prepare" => rsp[c].metadata = Metadata(need[c])
CleanServer(c) ==
  /\ Client(c) = "returned" =>
       /\ ~Early(c)
       /\ Server(c) \in {"prepare", "sync"} => Len(In(c, "server")) >= 3
       /\ Server(c) \in {"modify", "syncQ"} => Len(In(c, "server")) >= 1
  /\ op[c] = "meta" => ~Shakes(c)
  /\ Late(c) /\ ~Shakes(c) => In(c, "server") = <<>>
CleanClient(c) ==
  /\ Client(c) \in {"prepare", "sync", "modify", "syncQ", "transfer"} =>
       Shakes(c) /\ Len(In(c, "client")) = SentCells(c) - TakenCells(c)
  /\ Client(c) = "response" /\ Late(c) /\ op[c] # "meta" =>
       Shakes(c) /\ Len(In(c, "client")) = SentCells(c) + 2
  /\ Client(c) = "response" /\ Len(In(c, "client")) >= 2 =>
       In(c, "client")[2] = <<"body", ResponseBody(op[c], need[c], STATUS_SUCCESS)>>

Clean(c) == CleanEnds(c) /\ CleanData(c) /\ CleanServer(c) /\ CleanClient(c)
CleanInv == faults = 0 => alive /\ \A c \in Conns : Clean(c)

(* A failure counts.                                                       *)
LEMMA NoFail ==
  ASSUME StateTypeOK, faults' = 0
  PROVE  \A kind : ~Fail(kind)
  BY WireAssumption DEF StateTypeOK, Fail

LEMMA CleanFrame ==
  ASSUME NEW c \in Conns, Clean(c), Same(c)
  PROVE  Clean(c)'
<1>0. "client" \in Sides /\ "server" \in Sides
  BY PeerFacts
<1>1. /\ Shakes(c)' = Shakes(c) /\ SentCells(c)' = SentCells(c)
      /\ TakenCells(c)' = TakenCells(c)
  BY SameView DEF Shakes, SentCells, TakenCells
<1>2. CleanEnds(c)' /\ CleanData(c)'
  BY SameView DEF Clean, CleanEnds, CleanData, Same
<1>3. CleanServer(c)'
  BY <1>0, <1>1, SameView DEF Clean, CleanServer, Same
<1>4. CleanClient(c)'
  BY <1>0, <1>1, SameView DEF Clean, CleanClient, Same
<1> QED
  BY <1>2, <1>3, <1>4 DEF Clean

(* A closed socket has no error.                                           *)
LEMMA ClosedErr ==
  ASSUME NEW k \in Sockets, NEW s \in Sides
  PROVE  LET r == Closed(k, s) IN ~r[s].err /\ r[Peer(s)].err = k[Peer(s)].err
<1>1. Peer(s) \in Sides /\ Peer(s) # s
  BY PeerFacts
<1> QED
  BY <1>1 DEF Closed, Socket, Sockets

(* Nobody is at the end before the client has returned.                    *)
LEMMA CleanEnd ==
  ASSUME NEW c \in Conns, ConnInv(c), Clean(c), NEW s \in Sides
  PROVE  /\ AtEnd(c, s) => Fin(c) /\ Client(c) = "returned"
         /\ ~BodyLost(c, s) /\ (NothingToRead(c, s) => Client(c) = "returned")
         /\ Client(c) # "returned" => ~sock[c]["client"].fin /\ ~sock[c]["server"].fin
<1>1. ~sock[c][s].err /\ sock[c]["client"].fin = Fin(c) /\ sock[c]["server"].fin = Fin(c)
      /\ (Fin(c) => Client(c) = "returned")
  BY PeerFacts DEF Clean, CleanEnds, ConnInv, Ends, Fin
<1> QED
  BY <1>1, PeerFacts DEF AtEnd, BodyLost, NothingToRead

(* The client returns from a transfer, or with the answer to a meta.       *)
LEMMA ReturnClean ==
  ASSUME StateTypeOK, NEW c \in Conns, ConnInv(c), Clean(c), NEW k \in Sockets,
         NEW r \in {"ok", "failed"}, Return(c, k, r),
         Client(c) = "transfer" \/ (op[c] = "meta" /\ ~Early(c)),
         Len(k["server"].in) >= Len(In(c, "server")),
         k["server"].in = In(c, "server") \/ Client(c) = "transfer",
         \A t \in Sides : k[t].err => sock[c][t].err,
         UNCHANGED <<op, need, req, con_data>>
  PROVE  Clean(c)'
<1>0. /\ "client" \in Sides /\ "server" \in Sides /\ Peer("client") = "server"
      /\ In(c, "server") \in Seq(Cells) /\ k["server"].in \in Seq(Cells)
  BY PeerFacts, SockTypes DEF Sockets
<1>1. /\ Client(c)' = "returned" /\ Server(c)' = Server(c)
      /\ In(c, "client")' = <<>> /\ In(c, "server")' = k["server"].in
  BY ReturnEffect
<1>2. ~sock'[c]["client"].err /\ ~sock'[c]["server"].err
  <2> DEFINE k2 == Closed(k, "client")
  <2>1. k2 \in Sockets /\ ~k2["client"].err /\ k2["server"].err = k["server"].err
    BY <1>0, ClosedEffect, ClosedErr
  <2>2. sock' = [sock EXCEPT ![c] = k2]
    BY DEF Return
  <2> HIDE DEF k2
  <2>3. sock'[c] = k2
    BY <2>1, <2>2, SockEffect, ZenonT(60)
  <2> QED
    BY <1>0, <2>1, <2>3 DEF Clean, CleanEnds
<1>3. ConData(c)' = ConData(c) /\ Early(c)' = Early(c) /\ Late(c)' = Late(c)
      /\ Shakes(c)' = Shakes(c)
  BY <1>1 DEF ConData, Early, Late, Shakes
<1>4. CleanEnds(c)' /\ CleanData(c)'
  BY <1>1, <1>2, <1>3 DEF Clean, CleanEnds, CleanData
<1>5. CleanServer(c)'
  <2>1. CASE Client(c) = "transfer"
    <3>1. ~Early(c) /\ Shakes(c) /\ Late(c) /\ ~Fin(c)
      BY <2>1 DEF Clean, CleanEnds, CleanClient, ConnInv, Places, Shakes, Late
    <3>2. Len(ConData(c)) = 2 => ConData(c)[2] = "keys"
      BY <2>1 DEF Clean, CleanData
    <3>3. /\ Written(c) = 3
          /\ Len(In(c, "server")) = Written(c) - Consumed(c)
      BY <2>1, <3>1, <3>2 DEF ConnInv, Follows, Written
    <3>4. Server(c) \in {"prepare", "sync"} => Consumed(c) = 0
      <4>1. Server(c) \in {"prepare", "sync"} => ConData(c) = <<>>
        BY <3>1 DEF ConnInv, Follows, Clean, CleanData
      <4> QED
        BY <4>1 DEF Consumed
    <3>5. Server(c) \in {"modify", "syncQ"} => Consumed(c) = 2
      BY <3>1 DEF Consumed, ConnInv, Follows
    <3>6. Len(In(c, "server")) \in Nat /\ Len(k["server"].in) \in Nat
      BY <1>0
    <3>7. Server(c) \in {"prepare", "sync"} => Len(k["server"].in) >= 3
      BY <3>3, <3>4, <3>6
    <3>8. Server(c) \in {"modify", "syncQ"} => Len(k["server"].in) >= 1
      BY <3>3, <3>5, <3>6
    <3>9. op[c] # "meta"
      BY <3>1 DEF Clean, CleanServer
    <3> QED
      BY <1>1, <1>3, <3>1, <3>7, <3>8, <3>9 DEF CleanServer
  <2>2. CASE Client(c) # "transfer"
    <3>1. op[c] = "meta" /\ ~Early(c) /\ ~Shakes(c) /\ k["server"].in = In(c, "server")
      BY <2>2 DEF Clean, CleanServer
    <3>2. Late(c) => In(c, "server") = <<>>
      BY <3>1 DEF Clean, CleanServer
    <3>3. Server(c) \notin {"prepare", "sync", "modify", "syncQ"}
      BY <3>1 DEF Shakes
    <3> QED
      BY <1>1, <1>3, <3>1, <3>2, <3>3 DEF CleanServer
  <2> QED
    BY <2>1, <2>2
<1>6. CleanClient(c)'
  BY <1>1 DEF CleanClient
<1> QED
  BY <1>4, <1>5, <1>6 DEF Clean

(* The client's steps.                                                     *)
LEMMA BeginClean ==
  ASSUME StateTypeOK, NEW c \in Conns, ConnInv(c), Clean(c), NEW kind \in Ops[c],
         NEW n \in Chunks, Begin(c, kind, n)
  PROVE  Clean(c)'
<1>0. "client" \in Sides /\ "connect" \in ClientPCs \cup ServerPCs /\ Peer("client") = "server"
  BY PeerFacts DEF ClientPCs
<1>1. /\ op[c] = "none" /\ Client(c) = "idle"
      /\ UNCHANGED <<sock, req, rsp, con_data>>
  BY DEF Begin, ConnInv, Places
<1>2. Client(c)' = "connect" /\ Server(c)' = Server(c)
  BY <1>0, GoesEffect DEF Begin, Client, Server
<1>3. /\ ~Late(c) /\ ~Late(c)' /\ ~Shakes(c)' /\ Fin(c)' = Fin(c) /\ ConData(c)' = ConData(c)
  BY <1>1, <1>2 DEF ConnInv, Places, Late, Shakes, Fin, ConData
<1>4. CleanEnds(c)' /\ CleanData(c)'
  BY <1>1, <1>2, <1>3 DEF Clean, CleanEnds, CleanData
<1>5. CleanServer(c)' /\ CleanClient(c)'
  BY <1>2, <1>3 DEF CleanServer, CleanClient
<1> QED
  BY <1>4, <1>5 DEF Clean

LEMMA ConnectClean ==
  ASSUME StateTypeOK, NEW c \in Conns, ConnInv(c), Clean(c), alive, Connect(c), faults' = 0
  PROVE  Clean(c)'
<1>1. /\ Client(c) = "connect"
      /\ pc' = [pc EXCEPT ![c]["client"] = "request", ![c]["server"] = "backlog"]
      /\ UNCHANGED <<sock, req, rsp, con_data, op, need>>
  BY NoFail DEF Connect, Client, msgVars
<1>2. Client(c)' = "request" /\ Server(c)' = "backlog"
  BY <1>1, PeerFacts DEF StateTypeOK, Client, Server
<1>3. ~Late(c)' /\ ~Shakes(c)' /\ Fin(c)' = Fin(c) /\ ConData(c)' = ConData(c)
  BY <1>1, <1>2 DEF Late, Shakes, Fin, ConData
<1>4. CleanEnds(c)' /\ CleanData(c)'
  BY <1>1, <1>2, <1>3 DEF Clean, CleanEnds, CleanData
<1>5. CleanServer(c)' /\ CleanClient(c)'
  BY <1>2, <1>3 DEF CleanServer, CleanClient
<1> QED
  BY <1>4, <1>5 DEF Clean

(* The client writes, the server's place stays.                            *)
LEMMA ClientSends ==
  ASSUME StateTypeOK, NEW c \in Conns, ConnInv(c), Clean(c), NEW cells \in Seq(Cells),
         Client(c) # "returned", NEW l \in ClientPCs \ {"returned"}, Goes(c, "client", l),
         sock' = [sock EXCEPT ![c] = Sent(@, "client", cells)],
         UNCHANGED <<op, need, req, rsp, con_data>>
  PROVE  /\ Client(c)' = l /\ Server(c)' = Server(c) /\ CleanEnds(c)'
         /\ In(c, "client")' = In(c, "client")
         /\ Early(c)' = Early(c) /\ Late(c)' = Late(c) /\ Shakes(c)' = Shakes(c)
         /\ SentCells(c)' = SentCells(c) /\ ConData(c)' = ConData(c)
<1>0. "client" \in Sides /\ "server" \in Sides /\ Peer("client") = "server"
  BY PeerFacts
<1>1. Client(c)' = l /\ Server(c)' = Server(c)
  BY <1>0, GoesEffect DEF Client, Server
<1>2. /\ In(c, "client")' = In(c, "client")
      /\ \A t \in Sides : sock'[c][t].fin = sock[c][t].fin /\ (sock'[c][t].err => sock[c][t].err)
  BY <1>0, SentStep, Zenon
<1>3. CleanEnds(c)'
  BY <1>0, <1>1, <1>2 DEF Clean, CleanEnds, Fin
<1> QED
  BY <1>1, <1>2, <1>3 DEF Early, Late, Shakes, SentCells, ConData

LEMMA SendRequestClean ==
  ASSUME StateTypeOK, NEW c \in Conns, ConnInv(c), Clean(c), SendRequest(c)
  PROVE  Clean(c)'
<1> DEFINE cells == Message(RoutineBody(op[c])) \o Message(RequestBody(op[c], need[c]))
<1>1. /\ Client(c) = "request" /\ Goes(c, "client", "response")
      /\ sock' = [sock EXCEPT ![c] = Sent(@, "client", cells)]
      /\ UNCHANGED <<op, need, req, rsp, con_data>>
      /\ "response" \in ClientPCs \ {"returned"}
  BY DEF SendRequest, Client, msgVars, ClientPCs
<1>2. cells \in Seq(Cells)
  <2>1. op[c] \in Kinds /\ need[c] \in Chunks
    BY <1>1 DEF ConnInv, Places, StateTypeOK
  <2>2. RoutineBody(op[c]) \in Bodies /\ RequestBody(op[c], need[c]) \in Bodies
    BY <2>1 DEF Bodies
  <2> QED
    BY <2>2, MessageCells, ConcatFacts
<1> HIDE DEF cells
<1>3. /\ Client(c)' = "response" /\ Server(c)' = Server(c) /\ CleanEnds(c)'
      /\ In(c, "client")' = In(c, "client")
      /\ Late(c)' = Late(c) /\ Shakes(c)' = Shakes(c) /\ ConData(c)' = ConData(c)
  BY <1>1, <1>2, ClientSends
<1>4. ~Late(c) /\ ~Shakes(c) /\ In(c, "client") = <<>>
  BY <1>1 DEF ConnInv, Places, Late, Shakes
<1>5. CleanData(c)'
  BY <1>1, <1>3 DEF Clean, CleanData
<1>6. CleanServer(c)' /\ CleanClient(c)'
  BY <1>3, <1>4 DEF CleanServer, CleanClient
<1> QED
  BY <1>3, <1>5, <1>6 DEF Clean

LEMMA ReadResponseClean ==
  ASSUME StateTypeOK, NEW c \in Conns, ConnInv(c), Clean(c), ReadResponse(c)
  PROVE  Clean(c)'
<1> DEFINE r == Decoded(op[c], Received(c, "client"))
           k == Read2(sock[c], "client")
           J == In(c, "client")
<1>0. /\ "client" \in Sides /\ "server" \in Sides /\ Peer("client") = "server"
      /\ "prepare" \in ClientPCs \cup ServerPCs /\ J \in Seq(Cells)
  BY PeerFacts, SockTypes DEF ClientPCs
<1>1. /\ Client(c) = "response" /\ op[c] \in Kinds
      /\ UNCHANGED <<op, need, req, con_data>>
  BY DEF ReadResponse, ConnInv, Places, Client, StateTypeOK
<1>2. ~BodyLost(c, "client") /\ ~Fin(c)
  BY <1>0, <1>1, CleanEnd DEF Clean, CleanEnds
<1>3. /\ HasMessage(c, "client") /\ rsp' = [rsp EXCEPT ![c] = r]
      /\ \/ r.code # STATUS_SUCCESS
         \/ op[c] = "meta" /\ Return(c, k, "ok")
         \/ /\ op[c] # "meta" /\ sock' = [sock EXCEPT ![c] = k] /\ Goes(c, "client", "prepare")
  BY <1>2 DEF ReadResponse
<1>4. Len(J) >= 2 /\ J # <<>>
  BY <1>0, <1>3 DEF HasMessage
<1>5. r.code = STATUS_SUCCESS /\ (op[c] = "load" => r.metadata = Metadata(need[c]))
  <2>1. Received(c, "client") = ResponseBody(op[c], need[c], STATUS_SUCCESS)
    BY <1>1, <1>4 DEF Clean, CleanClient, Received
  <2> QED
    BY <1>1, <2>1, DecodeResponse DEF Codes
<1>6. ~Early(c) /\ Late(c)
  <2>1. ~Early(c)
    BY <1>4 DEF ConnInv, Places
  <2>2. Server(c) \notin {"left", "dead"} /\ Server(c) \in ServerPCs
    BY <1>2 DEF ConnInv, Places, Ends
  <2> QED
    BY <2>1, <2>2 DEF Early, Late, ServerPCs
<1>7. /\ k \in Sockets /\ k["client"].in = Tail(Tail(J)) /\ k["server"].in = In(c, "server")
      /\ \A t \in Sides : k[t].fin = sock[c][t].fin /\ k[t].err = sock[c][t].err
  <2>1. sock[c] \in Sockets /\ sock[c]["client"].in = J /\ sock[c]["server"].in = In(c, "server")
    BY <1>0, SockTypes
  <2>2. Len(sock[c]["client"].in) >= 2
    BY <1>4, <2>1
  <2>3. /\ k \in Sockets /\ k["client"].in = Tail(Tail(sock[c]["client"].in))
        /\ k[Peer("client")].in = sock[c][Peer("client")].in
        /\ \A t \in Sides : k[t].fin = sock[c][t].fin /\ k[t].err = sock[c][t].err
    BY <1>0, <2>1, <2>2, Read2Effect
  <2> HIDE DEF k
  <2> QED
    BY <1>0, <2>1, <2>3
<1>8. In(c, "server") \in Seq(Cells) /\ Len(In(c, "server")) >= Len(In(c, "server"))
  BY <1>0, SockTypes
<1> HIDE DEF k, r
<1>9. CASE op[c] = "meta" /\ Return(c, k, "ok")
  BY <1>1, <1>6, <1>7, <1>8, <1>9, ReturnClean
<1>10. CASE op[c] # "meta" /\ sock' = [sock EXCEPT ![c] = k] /\ Goes(c, "client", "prepare")
  <2>1. Client(c)' = "prepare" /\ Server(c)' = Server(c)
    BY <1>0, <1>10, GoesEffect DEF Client, Server
  <2>2. sock'[c] = k /\ \A s \in Sides : In(c, s)' = k[s].in
    BY <1>7, <1>10, SockEffect, ZenonT(60)
  <2>3. In(c, "server")' = In(c, "server") /\ Len(In(c, "client")') = Len(J) - 2
    BY <1>0, <1>4, <1>7, <2>2, Tail2Facts
  <2>4. Shakes(c) /\ Len(J) = SentCells(c) + 2
    BY <1>1, <1>6, <1>10 DEF Clean, CleanClient
  <2>5. /\ Shakes(c)' = Shakes(c) /\ SentCells(c)' = SentCells(c) /\ TakenCells(c)' = 0
        /\ SentCells(c) \in Nat /\ ConData(c)' = ConData(c) /\ Late(c)' = Late(c)
    BY <1>1, <2>1 DEF Shakes, SentCells, TakenCells, ConData, Late
  <2>6. CleanEnds(c)'
    BY <1>0, <1>2, <1>7, <2>1, <2>2 DEF Clean, CleanEnds, Fin
  <2>7. CleanData(c)'
    <3>1. rsp'[c] = r
      BY <1>3 DEF StateTypeOK
    <3> QED
      BY <1>1, <1>5, <2>1, <2>5, <3>1 DEF Clean, CleanData
  <2>8. CleanServer(c)'
    BY <1>1, <1>10, <2>1, <2>4, <2>5 DEF CleanServer
  <2>9. CleanClient(c)'
    BY <2>1, <2>3, <2>4, <2>5 DEF CleanClient
  <2> QED
    BY <2>6, <2>7, <2>8, <2>9 DEF Clean
<1> QED
  BY <1>3, <1>5, <1>9, <1>10

LEMMA NoNoResponse ==
  ASSUME NEW c \in Conns, ConnInv(c), Clean(c)
  PROVE  ~NoResponse(c)
  BY CleanEnd, PeerFacts DEF NoResponse, Client

(* Counting chunks moves nothing else; a transfer that ends returns.       *)
LEMMA TransferClean ==
  ASSUME StateTypeOK, NEW c \in Conns, ConnInv(c), Clean(c), faults' = 0,
         Post(c) \/ Poll(c) \/ Finish(c) \/ Land(c)
  PROVE  Clean(c)'
<1>0. /\ "client" \in Sides /\ "server" \in Sides /\ Peer("client") = "server"
      /\ In(c, "server") \in Seq(Cells) /\ sock[c] \in Sockets
      /\ sock[c]["server"].in = In(c, "server")
  BY PeerFacts, SockTypes
<1>1. Client(c) = "transfer" /\ UNCHANGED <<op, need, req, rsp, con_data>>
  BY DEF Post, Poll, Finish, Land, Client, msgVars
<1>2. CASE UNCHANGED <<pc, sock>>
  <2>1. /\ Client(c)' = Client(c) /\ Server(c)' = Server(c) /\ ConData(c)' = ConData(c)
        /\ Fin(c)' = Fin(c) /\ In(c, "client")' = In(c, "client")
        /\ In(c, "server")' = In(c, "server") /\ Early(c)' = Early(c) /\ Late(c)' = Late(c)
    BY <1>1, <1>2 DEF Client, Server, ConData, Fin, In, Early, Late
  <2>2. /\ Shakes(c)' = Shakes(c) /\ SentCells(c)' = SentCells(c)
        /\ TakenCells(c)' = TakenCells(c)
    BY <2>1 DEF Shakes, SentCells, TakenCells
  <2>3. CleanEnds(c)' /\ CleanData(c)'
    BY <1>1, <1>2, <2>1 DEF Clean, CleanEnds, CleanData
  <2>4. CleanServer(c)' /\ CleanClient(c)'
    BY <1>1, <2>1, <2>2 DEF Clean, CleanServer, CleanClient
  <2> QED
    BY <2>3, <2>4 DEF Clean
<1>3. CASE Return(c, sock[c], "failed")
  <2>1. Len(In(c, "server")) >= Len(In(c, "server"))
    BY <1>0
  <2> QED
    BY <1>0, <1>1, <1>3, <2>1, ReturnClean
<1>4. CASE Finish(c)
  <2> DEFINE b == <<AddString(Signal(op[c]))>>
             k == Sent(sock[c], "client", Message(b))
  <2>1. b \in Bodies
    <3>1. op[c] \in Kinds
      BY <1>1 DEF StateTypeOK, ConnInv, Places
    <3> QED
      BY <3>1 DEF Bodies
  <2>2. Return(c, k, "ok")
    BY <1>4 DEF Finish
  <2> HIDE DEF b
  <2>3. Message(b) \in Seq(Cells)
    BY <2>1, MessageCells
  <2>4. /\ k \in Sockets
        /\ k["server"].in = IF sock[c]["client"].fin THEN In(c, "server")
                                                   ELSE In(c, "server") \o Message(b)
        /\ \A t \in Sides : k[t].err => sock[c][t].err
    <3>1. /\ k \in Sockets /\ k["client"].in = sock[c]["client"].in
          /\ k[Peer("client")].in = IF sock[c]["client"].fin THEN sock[c][Peer("client")].in
                                   ELSE sock[c][Peer("client")].in \o Message(b)
          /\ \A t \in Sides : k[t].fin = sock[c][t].fin /\ (k[t].err => sock[c][t].err)
      <4>1. "client" \in Sides /\ sock[c] \in Sockets
        BY <1>0
      <4> QED
        BY <2>3, <4>1, SentEffect, SMTT(60)
    <3> HIDE DEF k
    <3> QED
      BY <1>0, <3>1
  <2> HIDE DEF k
  <2>5. Len(k["server"].in) >= Len(In(c, "server"))
    <3>1. Len(In(c, "server") \o Message(b)) = Len(In(c, "server")) + Len(Message(b))
          /\ Len(Message(b)) \in Nat /\ Len(In(c, "server")) \in Nat
      BY <1>0, <2>3, ConcatFacts
    <3> QED
      BY <2>4, <3>1
  <2> QED
    BY <1>1, <2>2, <2>4, <2>5, ReturnClean
<1> QED
  BY <1>2, <1>3, <1>4, NoFail DEF Post, Poll, Land

(* The server's steps. None of them makes it exit.                         *)
LEMMA AcceptClean ==
  ASSUME StateTypeOK, NEW c \in Conns, ConnInv(c), Clean(c), Accept(c), faults' = 0
  PROVE  Clean(c)' /\ Others(c) /\ alive' = alive
<1>0. "server" \in Sides /\ "routine" \in ClientPCs \cup ServerPCs /\ Peer("server") = "client"
  BY PeerFacts DEF ServerPCs
<1>1. /\ Server(c) = "backlog" /\ Goes(c, "server", "routine")
      /\ UNCHANGED <<alive, sock, op, need, routine, req, rsp, con_data, dataVars, accepted,
                     result>>
  BY NoFail DEF Accept, Server, msgVars
<1>2. Server(c)' = "routine" /\ Client(c)' = Client(c) /\ \A d \in Conns \ {c} : pc'[d] = pc[d]
  BY <1>0, <1>1, GoesEffect DEF Client, Server
<1>3. Early(c) /\ req[c] = None /\ ~Late(c)' /\ Client(c) # "returned"
  BY <1>1, <1>2 DEF ConnInv, Places, Early, Late, Clean, CleanServer
<1>4. /\ Client(c) \in {"idle", "connect", "request", "response"} /\ ~Shakes(c)'
      /\ In(c, "client") = <<>> /\ In(c, "client")' = <<>> /\ ConData(c)' = ConData(c)
      /\ Fin(c)' = Fin(c)
  BY <1>1, <1>2, <1>3 DEF ConnInv, Places, Shakes, In, ConData, Fin
<1>5. CleanEnds(c)' /\ CleanData(c)'
  BY <1>1, <1>2, <1>4 DEF Clean, CleanEnds, CleanData
<1>6. CleanServer(c)' /\ CleanClient(c)'
  BY <1>2, <1>3, <1>4 DEF CleanServer, CleanClient
<1> QED
  BY <1>1, <1>2, <1>5, <1>6 DEF Clean, Others, Same, dataVars

(* A server that has not answered yet reads a message.                     *)
LEMMA EarlyReads ==
  ASSUME StateTypeOK, NEW c \in Conns, ConnInv(c), Clean(c), Early(c),
         HasMessage(c, "server"), sock' = [sock EXCEPT ![c] = Read2(@, "server")],
         NEW l \in {"read", "respond"}, Goes(c, "server", l),
         UNCHANGED <<op, need, rsp, con_data>>
  PROVE  Clean(c)' /\ \A d \in Conns \ {c} : pc'[d] = pc[d] /\ sock'[d] = sock[d]
<1>0. /\ "server" \in Sides /\ "client" \in Sides /\ l \in ClientPCs \cup ServerPCs
      /\ Peer("server") = "client" /\ In(c, "server") \in Seq(Cells)
  BY PeerFacts, SockTypes DEF ServerPCs
<1>1. Server(c)' = l /\ Client(c)' = Client(c) /\ \A d \in Conns \ {c} : pc'[d] = pc[d]
  BY <1>0, GoesEffect DEF Client, Server
<1>2. Len(In(c, "server")) >= 2
  BY DEF HasMessage
<1>3. /\ \A d \in Conns \ {c} : sock'[d] = sock[d]
      /\ In(c, "client")' = In(c, "client")
      /\ \A t \in Sides : sock'[c][t].fin = sock[c][t].fin /\ sock'[c][t].err = sock[c][t].err
  BY <1>2, Read2Step
<1>4. /\ Client(c) \in {"idle", "connect", "request", "response"} /\ In(c, "client") = <<>>
      /\ ~Late(c)' /\ ~Shakes(c)' /\ ConData(c)' = ConData(c)
  BY <1>1 DEF ConnInv, Places, Clean, CleanServer, Late, Shakes, ConData
<1>5. CleanEnds(c)' /\ CleanData(c)'
  BY <1>0, <1>1, <1>3, <1>4 DEF Clean, CleanEnds, CleanData, Fin
<1>6. CleanServer(c)' /\ CleanClient(c)'
  BY <1>1, <1>3, <1>4 DEF CleanServer, CleanClient
<1> QED
  BY <1>1, <1>3, <1>5, <1>6 DEF Clean

LEMMA ReadRoutineClean ==
  ASSUME StateTypeOK, NEW c \in Conns, ConnInv(c), Clean(c), ReadRoutine(c)
  PROVE  Clean(c)' /\ Others(c) /\ alive' = alive
<1>0. /\ "server" \in Sides /\ "client" \in Sides /\ "left" \in ClientPCs \cup ServerPCs
      /\ Peer("server") = "client" /\ In(c, "server") \in Seq(Cells) /\ sock[c] \in Sockets
  BY PeerFacts, SockTypes DEF ServerPCs
<1>1. /\ Server(c) = "routine"
      /\ UNCHANGED <<op, need, req, rsp, con_data, dataVars, accepted>>
  BY DEF ReadRoutine, Server
<1>2. In(c, "server") # <<>> => req[c] = None /\ Early(c)
  BY <1>1 DEF Clean, CleanServer, Late, Shakes, Early
<1>3. ~HugeSize(c, "server")
  <2> SUFFICES ASSUME HugeSize(c, "server") PROVE FALSE
    OBVIOUS
  <2>1. In(c, "server") # <<>> /\ In(c, "server")[1] = <<"con", "addr">>
    BY <1>0 DEF HugeSize
  <2>2. In(c, "server")[1] = RequestCells(c)[1]
    BY <1>0, <1>1, <1>2, <2>1 DEF ConnInv, Arrives
  <2>3. RequestCells(c)[1][1] = "size"
    BY DEF RequestCells
  <2> QED
    BY <2>1, <2>2, <2>3
<1>4. CASE /\ HasMessage(c, "server")
           /\ routine' = [routine EXCEPT ![c] = Get("size_t", Received(c, "server"), 1)]
           /\ sock' = [sock EXCEPT ![c] = Read2(@, "server")]
           /\ Goes(c, "server", "read") /\ UNCHANGED <<alive, nicVars, result>>
  <2>1. Early(c)
    BY <1>0, <1>2, <1>4 DEF HasMessage
  <2>2. Clean(c)' /\ \A d \in Conns \ {c} : pc'[d] = pc[d] /\ sock'[d] = sock[d]
    BY <1>1, <1>4, <2>1, EarlyReads
  <2>3. \A d \in Conns \ {c} : routine'[d] = routine[d]
    BY <1>4 DEF StateTypeOK
  <2> QED
    BY <1>1, <1>4, <2>2, <2>3 DEF Others, Same, dataVars
<1>5. CASE /\ NothingToRead(c, "server") \/ BodyLost(c, "server")
           /\ Goes(c, "server", "left") /\ sock' = [sock EXCEPT ![c] = Closed(@, "server")]
           /\ UNCHANGED <<alive, routine, result>>
  <2> DEFINE k == Closed(sock[c], "server")
  <2>1. Client(c) = "returned" /\ Fin(c)
    BY <1>0, <1>5, CleanEnd DEF ConnInv, Ends
  <2>2. Server(c)' = "left" /\ Client(c)' = Client(c) /\ \A d \in Conns \ {c} : pc'[d] = pc[d]
    BY <1>0, <1>5, GoesEffect DEF Client, Server
  <2>3. k \in Sockets /\ ~k["server"].err /\ k[Peer("server")].err = sock[c][Peer("server")].err
    BY <1>0, ClosedEffect, ClosedErr
  <2>4. sock' = [sock EXCEPT ![c] = k]
    BY <1>5 DEF StateTypeOK
  <2> HIDE DEF k
  <2>5. sock'[c] = k /\ \A d \in Conns \ {c} : sock'[d] = sock[d]
    BY <2>3, <2>4, SockEffect, ZenonT(60)
  <2>6. ConData(c)' = ConData(c) /\ ~Early(c)' /\ ~Late(c)' /\ ~Shakes(c)'
    BY <1>1, <2>2 DEF ConData, Early, Late, Shakes
  <2>7. CleanEnds(c)' /\ CleanData(c)'
    BY <1>0, <1>1, <2>1, <2>2, <2>3, <2>5, <2>6 DEF Clean, CleanEnds, CleanData
  <2>8. CleanServer(c)' /\ CleanClient(c)'
    BY <2>1, <2>2, <2>6 DEF CleanServer, CleanClient
  <2> QED
    BY <1>1, <1>5, <2>2, <2>5, <2>7, <2>8 DEF Clean, Others, Same, dataVars
<1> QED
  BY <1>3, <1>4, <1>5 DEF ReadRoutine

LEMMA ReadRequestClean ==
  ASSUME StateTypeOK, NEW c \in Conns, ConnInv(c), Clean(c), ReadRequest(c)
  PROVE  Clean(c)' /\ Others(c) /\ alive' = alive
<1>0. "server" \in Sides
  BY PeerFacts
<1>1. Server(c) = "read" /\ Early(c) /\ Client(c) # "returned"
  BY DEF ReadRequest, Server, Early, Clean, CleanServer
<1>2. /\ UNCHANGED <<alive, op, need, routine, rsp, con_data, dataVars, accepted, result>>
      /\ HasMessage(c, "server") /\ sock' = [sock EXCEPT ![c] = Read2(@, "server")]
      /\ Goes(c, "server", "respond") /\ \E v : req' = [req EXCEPT ![c] = v]
  BY <1>0, <1>1, CleanEnd DEF ReadRequest
<1>3. Clean(c)' /\ \A d \in Conns \ {c} : pc'[d] = pc[d] /\ sock'[d] = sock[d]
  BY <1>1, <1>2, EarlyReads
<1>4. \A d \in Conns \ {c} : req'[d] = req[d]
  BY <1>2 DEF StateTypeOK
<1> QED
  BY <1>2, <1>3, <1>4 DEF Others, Same, dataVars

(* The server writes to a client that has not returned.                    *)
LEMMA ServerSends ==
  ASSUME StateTypeOK, NEW c \in Conns, ConnInv(c), Clean(c), NEW cells \in Seq(Cells),
         NEW l \in ServerPCs \ {"dead"}, Goes(c, "server", l),
         sock' = [sock EXCEPT ![c] = Sent(@, "server", cells)]
  PROVE  /\ Client(c)' = Client(c) /\ Server(c)' = l /\ CleanEnds(c)'
         /\ In(c, "server")' = In(c, "server")
         /\ Client(c) # "returned" => In(c, "client")' = In(c, "client") \o cells
         /\ In(c, "client") \in Seq(Cells)
<1>0. "client" \in Sides /\ "server" \in Sides /\ Peer("server") = "client"
  BY PeerFacts
<1>1. Client(c)' = Client(c) /\ Server(c)' = l
  BY <1>0, GoesEffect DEF Client, Server
<1>2. /\ sock' \in [Conns -> Sockets] /\ \A d \in Conns \ {c} : sock'[d] = sock[d]
      /\ In(c, "server")' = In(c, "server")
      /\ sock[c]["server"].fin => In(c, "client")' = In(c, "client")
      /\ ~sock[c]["server"].fin => In(c, "client")' = In(c, "client") \o cells
      /\ \A t \in Sides : /\ sock'[c][t].fin = sock[c][t].fin
                          /\ sock'[c][t].err => sock[c][t].err
  BY <1>0, SentStep, Zenon
<1>3. CleanEnds(c)'
  BY <1>0, <1>1, <1>2 DEF Clean, CleanEnds, Fin
<1>4. Client(c) # "returned" => ~sock[c]["server"].fin
  BY DEF Clean, CleanEnds, Fin
<1> QED
  BY <1>0, <1>1, <1>2, <1>3, <1>4, SockTypes

LEMMA RespondClean ==
  ASSUME StateTypeOK, NEW c \in Conns, ConnInv(c), Clean(c), Respond(c), faults' = 0
  PROVE  Clean(c)'
<1> DEFINE b == ResponseBody(op[c], req[c].metadata.size, STATUS_SUCCESS)
           l == IF req[c].only_metadata THEN "queue" ELSE "prepare"
<1>1. /\ Server(c) = "respond" /\ Early(c) /\ Goes(c, "server", l)
      /\ sock' = [sock EXCEPT ![c] = Sent(@, "server", Message(b))]
      /\ UNCHANGED <<op, need, req, rsp, con_data>> /\ l \in ServerPCs \ {"dead"}
  BY NoFail DEF Respond, Server, Early, msgVars, ServerPCs
<1>2. /\ Client(c) = "response" /\ In(c, "client") = <<>> /\ In(c, "server") = <<>>
      /\ ConData(c) = <<>> /\ req[c] # None
  BY <1>1 DEF ConnInv, Places, Arrives, Clean, CleanServer
<1>3. op[c] \in Kinds /\ need[c] \in Chunks /\ req[c] = Request(op[c], need[c])
  BY <1>2 DEF ConnInv, Places, StateTypeOK
<1>4. /\ b = ResponseBody(op[c], need[c], STATUS_SUCCESS) /\ b \in Bodies
      /\ l = IF op[c] = "meta" THEN "queue" ELSE "prepare"
  <2>1. req[c].metadata.size = need[c] /\ req[c].only_metadata = (op[c] = "meta")
    BY <1>3, RequestIsSome
  <2>2. b = ResponseBody(op[c], need[c], STATUS_SUCCESS)
    BY <2>1
  <2>3. b \in Bodies
    BY <1>3, <2>2 DEF Bodies
  <2> QED
    BY <2>1, <2>2, <2>3
<1> HIDE DEF b, l
<1>5. /\ Message(b) \in Seq(Cells) /\ Len(Message(b)) = 2 /\ Message(b)[2] = <<"body", b>>
  BY <1>4, MessageCells
<1>6. /\ Client(c)' = Client(c) /\ Server(c)' = l /\ CleanEnds(c)'
      /\ In(c, "server")' = In(c, "server")
      /\ Client(c) # "returned" => In(c, "client")' = In(c, "client") \o Message(b)
  BY <1>1, <1>5, ServerSends
<1>7. In(c, "client")' = Message(b)
  BY <1>2, <1>5, <1>6
<1>8. ConData(c)' = <<>> /\ Client(c)' = "response" /\ (Shakes(c)' <=> op[c] # "meta")
      /\ (op[c] # "meta" => SentCells(c)' = 0)
  BY <1>1, <1>2, <1>4, <1>6 DEF ConData, Shakes, SentCells
<1>9. CleanData(c)'
  BY <1>1, <1>2, <1>8 DEF Clean, CleanData
<1>10. CleanServer(c)'
  BY <1>1, <1>2, <1>6, <1>8 DEF CleanServer
<1>11. CleanClient(c)'
  <2>1. In(c, "client")'[2] = <<"body", ResponseBody(op[c], need[c], STATUS_SUCCESS)>>
    BY <1>4, <1>5, <1>7
  <2>2. op[c] # "meta" => Len(In(c, "client")') = SentCells(c)' + 2
    <3>1. 2 = 0 + 2
      OBVIOUS
    <3> QED
      BY <1>5, <1>7, <1>8, <3>1, Zenon
  <2> QED
    BY <1>1, <1>8, <2>1, <2>2 DEF CleanClient
<1> QED
  BY <1>6, <1>9, <1>10, <1>11 DEF Clean

(* The handler ends: nothing is left on the server's stream.               *)
LEMMA HandlerEnds ==
  ASSUME NEW c \in Conns, ConnInv(c), Clean(c), Late(c),
         Client(c) = "returned" \/ ~Shakes(c),
         Server(c)' \in {"queue", "routine"}, Client(c)' = Client(c), In(c, "server")' = <<>>,
         CleanEnds(c)', In(c, "client")' = In(c, "client"),
         UNCHANGED <<op, need, req, rsp, con_data>>
  PROVE  Clean(c)'
<1>1. /\ ~Shakes(c)' /\ ConData(c)' = ConData(c) /\ req[c] # None /\ ~Early(c)' /\ Late(c)'
  BY DEF Shakes, ConData, Early, Late, ConnInv, Places
<1>2. /\ Client(c) \notin {"prepare", "sync", "modify", "syncQ", "transfer"}
      /\ Client(c) = "response" => op[c] = "meta"
  BY DEF Clean, CleanClient
<1>3. CleanData(c)'
  BY <1>1 DEF Clean, CleanData
<1>4. CleanServer(c)'
  BY <1>1 DEF CleanServer
<1>5. CleanClient(c)'
  BY <1>1, <1>2 DEF Clean, CleanClient
<1> QED
  BY <1>3, <1>4, <1>5 DEF Clean

LEMMA AddKeyClean ==
  ASSUME StateTypeOK, NEW c \in Conns, ConnInv(c), Clean(c), AddKey(c)
  PROVE  Clean(c)'
<1>0. "server" \in Sides /\ "routine" \in ClientPCs \cup ServerPCs /\ Peer("server") = "client"
  BY PeerFacts DEF ServerPCs
<1>1. /\ Server(c) = "queue" /\ UNCHANGED <<op, need, req, rsp, con_data, sock>>
  BY DEF AddKey, Server, msgVars
<1>2. Server(c)' = "routine" /\ Client(c)' = Client(c)
  BY <1>0, GoesEffect DEF AddKey, Client, Server
<1>3. Late(c) /\ ~Shakes(c) /\ In(c, "server") = <<>>
  BY <1>1 DEF Late, Shakes, Clean, CleanServer
<1>4. In(c, "server")' = <<>> /\ In(c, "client")' = In(c, "client") /\ CleanEnds(c)'
  BY <1>1, <1>2, <1>3 DEF In, Clean, CleanEnds, Fin
<1> QED
  BY <1>1, <1>2, <1>3, <1>4, HandlerEnds

LEMMA ReadSignalClean ==
  ASSUME StateTypeOK, NEW c \in Conns, ConnInv(c), Clean(c), ReadSignal(c)
  PROVE  Clean(c)' /\ Others(c) /\ alive' = alive
<1>0. /\ "client" \in Sides /\ "server" \in Sides /\ Peer("server") = "client"
      /\ {"queue", "routine"} \subseteq ClientPCs \cup ServerPCs
      /\ In(c, "server") \in Seq(Cells) /\ sock[c] \in Sockets
      /\ sock[c]["client"].in = In(c, "client")
  BY PeerFacts, SockTypes DEF ServerPCs
<1>1. /\ Server(c) = "signal" /\ Late(c)
      /\ UNCHANGED <<op, need, routine, req, rsp, con_data, dataVars, accepted>>
  BY DEF ReadSignal, Server, msgVars, Late
<1>2. ASSUME NEW l \in {"queue", "routine"}, Goes(c, "server", l), UNCHANGED <<alive, result>>,
             Client(c) = "returned",
             In(c, "server")' = <<>>, In(c, "client")' = In(c, "client"),
             \A t \in Sides : sock'[c][t].fin = sock[c][t].fin
                              /\ (sock'[c][t].err => sock[c][t].err),
             \A d \in Conns \ {c} : sock'[d] = sock[d]
      PROVE  Clean(c)' /\ Others(c) /\ alive' = alive
  <2>1. Server(c)' = l /\ Client(c)' = Client(c) /\ \A d \in Conns \ {c} : pc'[d] = pc[d]
    BY <1>0, <1>2, GoesEffect DEF Client, Server
  <2>2. CleanEnds(c)'
    BY <1>0, <1>2, <2>1 DEF Clean, CleanEnds, Fin
  <2>3. Clean(c)'
    BY <1>1, <1>2, <2>1, <2>2, HandlerEnds
  <2> QED
    BY <1>1, <1>2, <2>1, <2>3 DEF Others, Same, dataVars
<1>3. CASE /\ HasMessage(c, "server") /\ sock' = [sock EXCEPT ![c] = Read2(@, "server")]
           /\ Goes(c, "server", IF routine[c] = 1 THEN "queue" ELSE "routine")
           /\ UNCHANGED <<alive, nicVars, result>>
  <2>1. PICK l \in {"queue", "routine"} : Goes(c, "server", l)
    BY <1>3
  <2>2. Len(In(c, "server")) >= 2 /\ In(c, "server")[1][1] = "size"
    BY <1>3 DEF HasMessage
  <2>3. Client(c) = "returned" /\ Len(In(c, "server")) <= 2
    <3>1. 1 \in 1 .. Len(In(c, "server"))
      BY <1>0, <2>2
    <3>2. Client(c) = "returned" /\ Len(In(c, "server")) <= 1 + 1
      BY <1>1, <2>2, <3>1 DEF ConnInv, Follows
    <3> QED
      BY <1>0, <3>2
  <2>4. /\ \A d \in Conns \ {c} : sock'[d] = sock[d]
        /\ In(c, "client")' = In(c, "client") /\ In(c, "server")' \in Seq(Cells)
        /\ Len(In(c, "server")') = Len(In(c, "server")) - 2
        /\ \A t \in Sides : sock'[c][t].fin = sock[c][t].fin /\ sock'[c][t].err = sock[c][t].err
    BY <1>3, <2>2, Read2Step
  <2>5. In(c, "server")' = <<>>
    BY <1>0, <2>2, <2>3, <2>4
  <2> QED
    BY <1>2, <1>3, <2>1, <2>3, <2>4, <2>5
<1>4. CASE /\ NothingToRead(c, "server") /\ Goes(c, "server", "routine")
           /\ sock' = [sock EXCEPT ![c] = ErrorSeen(@, "server")]
           /\ UNCHANGED <<alive, nicVars, result>>
  <2> DEFINE k == ErrorSeen(sock[c], "server")
  <2>1. /\ k \in Sockets /\ k["server"].in = <<>>
        /\ k[Peer("server")].in = sock[c][Peer("server")].in
        /\ \A t \in Sides : k[t].fin = sock[c][t].fin /\ (k[t].err => sock[c][t].err)
    BY <1>0, ErrorSeenEffect
  <2>2. sock' = [sock EXCEPT ![c] = k]
    BY <1>4 DEF StateTypeOK
  <2> HIDE DEF k
  <2>3. /\ sock'[c] = k /\ \A s \in Sides : In(c, s)' = k[s].in
        /\ \A d \in Conns \ {c} : sock'[d] = sock[d]
    BY <2>1, <2>2, SockEffect, ZenonT(60)
  <2>4. Client(c) = "returned"
    BY <1>0, <1>4, CleanEnd
  <2>5. In(c, "server")' = <<>> /\ In(c, "client")' = In(c, "client")
    BY <1>0, <2>1, <2>3
  <2> QED
    BY <1>2, <1>4, <2>1, <2>3, <2>4, <2>5
<1> QED
  BY <1>0, <1>3, <1>4, CleanEnd DEF ReadSignal

(* The handshake: one side goes on, the other stays where it is.           *)
LEMMA ClientShakes ==
  ASSUME StateTypeOK, NEW c \in Conns, ConnInv(c), Clean(c),
         Client(c) \in {"prepare", "sync", "modify", "syncQ"},
         Client(c)' \in {"sync", "modify", "syncQ", "transfer"},
         Server(c)' = Server(c), ConData(c)' = ConData(c), CleanEnds(c)',
         Client(c)' = "sync" => con_data'[c]["client"] = <<>>,
         Len(In(c, "client")') = SentCells(c) - TakenCells(c)',
         UNCHANGED <<op, need, req>>
  PROVE  Clean(c)'
<1>1. /\ Shakes(c) /\ Shakes(c)' = Shakes(c) /\ SentCells(c)' = SentCells(c)
      /\ Late(c)' = Late(c)
  BY DEF Clean, CleanClient, Shakes, SentCells, Late
<1>2. CleanData(c)'
  BY DEF Clean, CleanData
<1>3. CleanServer(c)'
  BY <1>1 DEF Clean, CleanServer
<1>4. CleanClient(c)'
  BY <1>1 DEF CleanClient
<1> QED
  BY <1>2, <1>3, <1>4 DEF Clean

LEMMA ServerShakes ==
  ASSUME StateTypeOK, NEW c \in Conns, ConnInv(c), Clean(c),
         Server(c) \in {"prepare", "sync", "modify", "syncQ"},
         Server(c)' \in {"sync", "modify", "syncQ", "signal"},
         Client(c)' = Client(c), CleanEnds(c)',
         con_data'[c]["client"] = con_data[c]["client"],
         Server(c)' = "sync" => ConData(c)' = <<>>,
         Client(c) # "returned" /\ Len(ConData(c)') >= 2 => ConData(c)'[2] = "keys",
         Client(c) # "returned" =>
           Len(In(c, "client")') = Len(In(c, "client")) + (SentCells(c)' - SentCells(c)),
         Client(c) = "response" /\ Len(In(c, "client")) >= 2 =>
           In(c, "client")'[2] = In(c, "client")[2],
         Client(c) = "returned" =>
           /\ Server(c)' = "sync" => Len(In(c, "server")') >= 3
           /\ Server(c)' \in {"modify", "syncQ"} => Len(In(c, "server")') >= 1,
         UNCHANGED <<op, need, req, rsp>>
  PROVE  Clean(c)'
<1>1. /\ Shakes(c) /\ Shakes(c)' /\ Late(c) /\ ~Early(c)' /\ op[c] # "meta"
      /\ TakenCells(c)' = TakenCells(c)
  BY DEF Clean, CleanServer, Shakes, Late, Early, TakenCells
<1>2. /\ SentCells(c) \in Nat /\ SentCells(c)' \in Nat /\ TakenCells(c) \in Nat
      /\ Len(In(c, "client")) \in Nat
  BY PeerFacts, SockTypes DEF SentCells, TakenCells
<1>3. CleanData(c)'
  BY DEF Clean, CleanData
<1>4. CleanServer(c)'
  BY <1>1 DEF CleanServer
<1>5. Client(c) = "response" => Len(In(c, "client")) >= 2
  <2>1. Client(c) = "response" => ~Fin(c)
    BY DEF Clean, CleanEnds
  <2> QED
    BY <1>1, <2>1 DEF ConnInv, Answers
<1>6. CleanClient(c)'
  <2>1. Client(c) \in {"prepare", "sync", "modify", "syncQ", "transfer"} =>
          Len(In(c, "client")') = SentCells(c)' - TakenCells(c)'
    BY <1>1, <1>2 DEF Clean, CleanClient
  <2>2. Client(c) = "response" => Len(In(c, "client")') = SentCells(c)' + 2
    BY <1>1, <1>2 DEF Clean, CleanClient
  <2>3. Client(c) = "response" =>
          In(c, "client")'[2] = <<"body", ResponseBody(op[c], need[c], STATUS_SUCCESS)>>
    BY <1>5 DEF Clean, CleanClient
  <2> QED
    BY <1>1, <2>1, <2>2, <2>3 DEF CleanClient
<1> QED
  BY <1>3, <1>4, <1>6 DEF Clean

(* The server writes part of its handshake.                                *)
LEMMA ServerShakesWriting ==
  ASSUME StateTypeOK, NEW c \in Conns, ConnInv(c), Clean(c), NEW cells \in Seq(Cells),
         \/ Server(c) = "prepare" /\ Goes(c, "server", "sync") /\ Len(cells) = 2
         \/ Server(c) = "modify" /\ Goes(c, "server", "syncQ") /\ Len(cells) = 1,
         sock' = [sock EXCEPT ![c] = Sent(@, "server", cells)],
         UNCHANGED <<op, need, req, rsp, con_data>>
  PROVE  Clean(c)'
<1> DEFINE J == In(c, "client")
<1>1. PICK l \in {"sync", "syncQ"} : /\ Goes(c, "server", l)
                                     /\ Server(c) = "prepare" <=> l = "sync"
                                     /\ Server(c) \in {"prepare", "modify"}
  OBVIOUS
<1>2. /\ Client(c)' = Client(c) /\ Server(c)' = l /\ CleanEnds(c)'
      /\ In(c, "server")' = In(c, "server")
      /\ Client(c) # "returned" => In(c, "client")' = J \o cells
      /\ J \in Seq(Cells)
  <2>1. l \in ServerPCs \ {"dead"}
    BY DEF ServerPCs
  <2> QED
    BY <1>1, <2>1, ServerSends
<1>3. Len(cells) = SentCells(c)' - SentCells(c)
  <2>1. CASE Server(c) = "prepare"
    <3>1. SentCells(c)' - SentCells(c) = 2
      BY <1>1, <1>2, <2>1 DEF SentCells
    <3> QED
      BY <2>1, <3>1, Zenon
  <2>2. CASE Server(c) = "modify"
    <3>1. SentCells(c)' - SentCells(c) = 1
      BY <1>1, <1>2, <2>2 DEF SentCells
    <3> QED
      BY <2>2, <3>1, Zenon
  <2> QED
    BY <1>1, <2>1, <2>2
<1>4. /\ Len(J) \in Nat /\ Len(J \o cells) = Len(J) + Len(cells)
      /\ \A k \in 1 .. Len(J) : (J \o cells)[k] = J[k]
  BY <1>2, ConcatFacts
<1>5. Client(c) # "returned" => Len(In(c, "client")') = Len(J) + (SentCells(c)' - SentCells(c))
  BY <1>2, <1>3, <1>4
<1>6. Client(c) = "response" /\ Len(J) >= 2 => In(c, "client")'[2] = J[2]
  <2>1. Len(J) >= 2 => 2 \in 1 .. Len(J)
    BY <1>4
  <2> QED
    BY <1>2, <1>4, <2>1
<1>7. ConData(c)' = ConData(c) /\ (Server(c) = "prepare" => ConData(c) = <<>>)
  BY DEF ConData, ConnInv, Follows, Late
<1>8. Client(c) = "returned" =>
        /\ Server(c)' = "sync" => Len(In(c, "server")') >= 3
        /\ Server(c)' \in {"modify", "syncQ"} => Len(In(c, "server")') >= 1
  BY <1>1, <1>2 DEF Clean, CleanServer
<1>9. Client(c) # "returned" /\ Len(ConData(c)') >= 2 => ConData(c)'[2] = "keys"
  BY <1>7 DEF Clean, CleanData
<1> QED
  BY <1>1, <1>2, <1>5, <1>6, <1>7, <1>8, <1>9, ServerShakes

LEMMA PrepareClean ==
  ASSUME StateTypeOK, NEW c \in Conns, ConnInv(c), Clean(c), NEW s \in Sides, Prepare(c, s),
         faults' = 0
  PROVE  Clean(c)'
<1>0. /\ s = "client" \/ s = "server"
      /\ "sync" \in ClientPCs \ {"returned"}
  BY PeerFacts DEF ClientPCs
<1>1. pc[c][s] = "prepare" /\ UNCHANGED <<op, need, req, rsp, con_data>>
  BY DEF Prepare, msgVars
<1>2. ~Unallocatable(c, s)
  <2> SUFFICES ASSUME Unallocatable(c, s) PROVE FALSE
    OBVIOUS
  <2>1. Client(c) = "prepare" /\ op[c] = "load" /\ rsp[c].metadata.size = 0
    BY <1>1 DEF Unallocatable, Client
  <2>2. rsp[c].metadata = Metadata(need[c]) /\ need[c] \in Chunks
    BY <2>1 DEF Clean, CleanData, ConnInv, Places
  <2>3. Metadata(need[c]).size = need[c]
    BY DEF Metadata
  <2> QED
    BY <2>1, <2>2, <2>3, WireAssumption
<1>3. PICK cells \in Seq(Cells) : cells = <<AddrCell, KeysCell>>
  BY HandshakeInCells
<1>4. Goes(c, s, "sync") /\ sock' = [sock EXCEPT ![c] = Sent(@, s, cells)] /\ Len(cells) = 2
  BY <1>2, <1>3, NoFail DEF Prepare, AddrCell, KeysCell
<1>5. CASE s = "server"
  <2>1. Server(c) = "prepare" /\ Goes(c, "server", "sync")
        /\ sock' = [sock EXCEPT ![c] = Sent(@, "server", cells)]
    BY <1>1, <1>4, <1>5 DEF Server
  <2> QED
    BY <1>1, <1>4, <2>1, ServerShakesWriting
<1>6. CASE s = "client"
  <2>1. Client(c) = "prepare" /\ Goes(c, "client", "sync")
        /\ sock' = [sock EXCEPT ![c] = Sent(@, "client", cells)]
    BY <1>1, <1>4, <1>6 DEF Client
  <2>2. /\ Client(c)' = "sync" /\ Server(c)' = Server(c) /\ CleanEnds(c)'
        /\ In(c, "client")' = In(c, "client") /\ ConData(c)' = ConData(c)
    BY <1>0, <1>1, <2>1, ClientSends
  <2>3. Len(In(c, "client")') = SentCells(c) - TakenCells(c)'
    BY <2>1, <2>2 DEF Clean, CleanClient, TakenCells
  <2>4. con_data'[c]["client"] = <<>>
    BY <1>1, <2>1 DEF Clean, CleanData
  <2> QED
    BY <1>1, <2>1, <2>2, <2>3, <2>4, ClientShakes
<1> QED
  BY <1>0, <1>5, <1>6

LEMMA ModifyQpClean ==
  ASSUME StateTypeOK, NEW c \in Conns, ConnInv(c), Clean(c), NEW s \in Sides, ModifyQp(c, s),
         faults' = 0
  PROVE  Clean(c)'
<1>0. /\ s = "client" \/ s = "server"
      /\ "syncQ" \in ClientPCs \ {"returned"}
  BY PeerFacts DEF ClientPCs
<1>1. pc[c][s] = "modify" /\ UNCHANGED <<op, need, req, rsp, con_data>>
  BY DEF ModifyQp, msgVars
<1>3. PICK cells \in Seq(Cells) : cells = <<QCell>>
  BY HandshakeInCells
<1>4. Goes(c, s, "syncQ") /\ sock' = [sock EXCEPT ![c] = Sent(@, s, cells)] /\ Len(cells) = 1
  BY <1>3, NoFail DEF ModifyQp, QCell
<1>5. CASE s = "server"
  <2>1. Server(c) = "modify" /\ Goes(c, "server", "syncQ")
        /\ sock' = [sock EXCEPT ![c] = Sent(@, "server", cells)]
    BY <1>1, <1>4, <1>5 DEF Server
  <2> QED
    BY <1>1, <1>4, <2>1, ServerShakesWriting
<1>6. CASE s = "client"
  <2>1. Client(c) = "modify" /\ Goes(c, "client", "syncQ")
        /\ sock' = [sock EXCEPT ![c] = Sent(@, "client", cells)]
    BY <1>1, <1>4, <1>6 DEF Client
  <2>2. /\ Client(c)' = "syncQ" /\ Server(c)' = Server(c) /\ CleanEnds(c)'
        /\ In(c, "client")' = In(c, "client") /\ ConData(c)' = ConData(c)
    BY <1>0, <1>1, <2>1, ClientSends
  <2>3. Len(In(c, "client")') = SentCells(c) - TakenCells(c)'
    BY <2>1, <2>2 DEF Clean, CleanClient, TakenCells
  <2> QED
    BY <1>1, <2>1, <2>2, <2>3, ClientShakes
<1> QED
  BY <1>0, <1>5, <1>6

LEMMA NoSyncError ==
  ASSUME NEW c \in Conns, Clean(c), NEW s \in Sides
  PROVE  ~SyncError(c, s)
  BY PeerFacts DEF SyncError, Clean, CleanEnds

(* A side of the handshake reads one cell, or two.                         *)
LEMMA HandshakeReads ==
  ASSUME StateTypeOK, NEW c \in Conns, NEW s \in Sides, NEW p \in Sides, p = Peer(s),
         NEW n \in {1, 2}, Len(In(c, s)) >= n,
         sock' = [sock EXCEPT ![c] = IF n = 1 THEN Read1(@, s) ELSE Read2(@, s)]
  PROVE  /\ In(c, p)' = In(c, p) /\ Len(In(c, s)') = Len(In(c, s)) - n
         /\ \A t \in Sides : sock'[c][t].fin = sock[c][t].fin /\ sock'[c][t].err = sock[c][t].err
<1>1. /\ sock[c] \in Sockets /\ sock[c][s].in = In(c, s) /\ sock[c][p].in = In(c, p)
      /\ In(c, s) \in Seq(Cells) /\ Len(In(c, s)) \in Nat
  BY SockTypes
<1>2. PICK k \in Sockets :
        /\ sock' = [sock EXCEPT ![c] = k]
        /\ Len(k[s].in) = Len(In(c, s)) - n /\ k[p].in = In(c, p)
        /\ \A t \in Sides : k[t].fin = sock[c][t].fin /\ k[t].err = sock[c][t].err
  <2>1. CASE n = 1
    <3> DEFINE r == Read1(sock[c], s)
    <3>1. sock[c][s].in # <<>> /\ In(c, s) # <<>>
      BY <1>1, <2>1
    <3>2. /\ r \in Sockets /\ r[s].in = Tail(sock[c][s].in)
          /\ r[Peer(s)].in = sock[c][Peer(s)].in
          /\ \A t \in Sides : r[t].fin = sock[c][t].fin /\ r[t].err = sock[c][t].err
      BY <1>1, <3>1, Read1Effect
    <3>3. sock' = [sock EXCEPT ![c] = r]
      BY <2>1 DEF StateTypeOK
    <3> HIDE DEF r
    <3>4. Len(Tail(In(c, s))) = Len(In(c, s)) - 1
      BY <1>1, <3>1, TailFacts
    <3>5. Len(r[s].in) = Len(In(c, s)) - n /\ r[p].in = In(c, p)
      BY <1>1, <2>1, <3>2, <3>4
    <3> QED
      BY <3>2, <3>3, <3>5
  <2>2. CASE n = 2
    <3> DEFINE r == Read2(sock[c], s)
    <3>1. Len(sock[c][s].in) >= 2 /\ Len(In(c, s)) >= 2
      BY <1>1, <2>2
    <3>2. /\ r \in Sockets /\ r[s].in = Tail(Tail(sock[c][s].in))
          /\ r[Peer(s)].in = sock[c][Peer(s)].in
          /\ \A t \in Sides : r[t].fin = sock[c][t].fin /\ r[t].err = sock[c][t].err
      BY <1>1, <3>1, Read2Effect
    <3>3. sock' = [sock EXCEPT ![c] = r]
      BY <2>2 DEF StateTypeOK
    <3> HIDE DEF r
    <3>4. Len(Tail(Tail(In(c, s)))) = Len(In(c, s)) - 2
      BY <1>1, <3>1, Tail2Facts
    <3>5. Len(r[s].in) = Len(In(c, s)) - n /\ r[p].in = In(c, p)
      BY <1>1, <2>2, <3>2, <3>4
    <3> QED
      BY <3>2, <3>3, <3>5
  <2> QED
    BY <2>1, <2>2
<1>3. sock'[c] = k /\ \A t \in Sides : In(c, t)' = k[t].in
  BY <1>2, SockEffect, ZenonT(60)
<1> QED
  BY <1>2, <1>3

LEMMA SyncQClean ==
  ASSUME StateTypeOK, NEW c \in Conns, ConnInv(c), Clean(c), NEW s \in Sides, SyncQ(c, s)
  PROVE  Clean(c)'
<1> DEFINE l == IF s = "client" THEN "transfer" ELSE "signal"
<1>0. /\ s = "client" \/ s = "server"
      /\ "client" \in Sides /\ "server" \in Sides /\ l \in ClientPCs \cup ServerPCs
      /\ Peer("client") = "server" /\ Peer("server") = "client"
      /\ In(c, s) \in Seq(Cells)
  BY PeerFacts, SockTypes DEF ClientPCs, ServerPCs
<1>1. /\ pc[c][s] = "syncQ" /\ In(c, s) # <<>> /\ Goes(c, s, l)
      /\ sock' = [sock EXCEPT ![c] = Read1(@, s)]
      /\ UNCHANGED <<op, need, req, rsp, con_data>>
  BY DEF SyncQ, msgVars
<1>2. pc'[c][s] = l /\ pc'[c][Peer(s)] = pc[c][Peer(s)]
  BY <1>0, <1>1, GoesEffect
<1>3. Len(In(c, s)) >= 1
  BY <1>0, <1>1
<1>4. ConData(c)' = ConData(c)
  BY <1>1 DEF ConData
<1>5. CASE s = "client"
  <2>1. Client(c) = "syncQ" /\ Client(c)' = "transfer" /\ Server(c)' = Server(c)
    BY <1>0, <1>1, <1>2, <1>5 DEF Client, Server
  <2>2. /\ Len(In(c, "client")') = Len(In(c, "client")) - 1
        /\ \A t \in Sides : sock'[c][t].fin = sock[c][t].fin /\ sock'[c][t].err = sock[c][t].err
    BY <1>0, <1>1, <1>3, <1>5, HandshakeReads
  <2>3. CleanEnds(c)'
    BY <1>0, <2>1, <2>2 DEF Clean, CleanEnds, Fin
  <2>4. Len(In(c, "client")') = SentCells(c) - TakenCells(c)'
    <3>1. Len(In(c, "client")) = SentCells(c) - TakenCells(c)
      BY <2>1 DEF Clean, CleanClient
    <3> QED
      BY <2>1, <2>2, <3>1 DEF SentCells, TakenCells
  <2> QED
    BY <1>1, <1>4, <2>1, <2>3, <2>4, ClientShakes
<1>6. CASE s = "server"
  <2>1. Server(c) = "syncQ" /\ Server(c)' = "signal" /\ Client(c)' = Client(c)
    BY <1>0, <1>1, <1>2, <1>6 DEF Client, Server
  <2>2. /\ In(c, "client")' = In(c, "client")
        /\ \A t \in Sides : sock'[c][t].fin = sock[c][t].fin /\ sock'[c][t].err = sock[c][t].err
    BY <1>0, <1>1, <1>3, <1>6, HandshakeReads
  <2>3. CleanEnds(c)'
    BY <1>0, <2>1, <2>2 DEF Clean, CleanEnds, Fin
  <2>4. Len(In(c, "client")') = Len(In(c, "client")) + (SentCells(c)' - SentCells(c))
    <3>1. Len(In(c, "client")) \in Nat
      BY <1>0, SockTypes
    <3> QED
      BY <2>1, <2>2, <3>1 DEF SentCells
  <2>5. Client(c) # "returned" /\ Len(ConData(c)') >= 2 => ConData(c)'[2] = "keys"
    BY <1>4 DEF Clean, CleanData
  <2> QED
    BY <1>1, <2>1, <2>2, <2>3, <2>4, <2>5, ServerShakes
<1> QED
  BY <1>0, <1>5, <1>6

(* With both parts of the peer's data at hand one read takes them.         *)
LEMMA SyncWhole ==
  ASSUME StateTypeOK, NEW c \in Conns, NEW s \in Sides, SyncData(c, s), faults' = 0,
         con_data[c][s] = <<>>, Len(In(c, s)) >= 2
  PROVE  /\ con_data' = [con_data EXCEPT ![c][s] = <<In(c, s)[1][2], In(c, s)[2][2]>>]
         /\ sock' = [sock EXCEPT ![c] = Read2(@, s)] /\ Goes(c, s, "modify")
<1>1. Len(In(c, s)) \in Nat
  BY SockTypes
<1>2. Len(In(c, s)) # 1
  <2>1. \A m \in Nat : m >= 2 => m # 1
    OBVIOUS
  <2> QED
    BY <1>1, <2>1, Zenon
<1>3. Len(con_data[c][s]) # 1
  OBVIOUS
<1>4. ~Fail("split")
  BY NoFail
<1> QED
  BY <1>2, <1>3, <1>4, Zenon DEF SyncData

(* On a clean connection they are.                                         *)
LEMMA SyncFinds ==
  ASSUME StateTypeOK, NEW c \in Conns, ConnInv(c), Clean(c), NEW s \in Sides,
         pc[c][s] = "sync", In(c, s) # <<>>
  PROVE  /\ con_data[c][s] = <<>> /\ Len(In(c, s)) >= 2
         /\ s = "server" => /\ Client(c) = "returned" => Len(In(c, s)) >= 3
                            /\ Client(c) # "returned" => In(c, s)[2][2] = "keys"
<1>0. /\ s = "client" \/ s = "server"
      /\ In(c, s) \in Seq(Cells) /\ Len(In(c, s)) \in Nat /\ Len(In(c, s)) > 0
  BY PeerFacts, SockTypes
<1>1. CASE s = "client"
  <2>1. /\ Client(c) = "sync" /\ con_data[c][s] = <<>>
        /\ Len(In(c, s)) = SentCells(c) - TakenCells(c)
    BY <1>1 DEF Client, Clean, CleanData, CleanClient
  <2>2. SentCells(c) - TakenCells(c) \in {0, 2, 3}
    BY <2>1 DEF SentCells, TakenCells
  <2>3. Len(In(c, s)) >= 2
    BY <1>0, <2>1, <2>2
  <2> QED
    BY <1>1, <2>1, <2>3
<1>2. CASE s = "server"
  <2>1. Server(c) = "sync" /\ ConData(c) = <<>> /\ con_data[c][s] = <<>> /\ Late(c)
    BY <1>2 DEF Server, Late, ConData, Clean, CleanData
  <2>2. CASE Client(c) = "returned"
    BY <1>0, <1>2, <2>1, <2>2 DEF Clean, CleanServer
  <2>3. CASE Client(c) # "returned"
    <3>1. ~Fin(c)
      BY <2>3 DEF Clean, CleanEnds
    <3>2. Client(c) \in {"sync", "modify", "syncQ", "transfer"}
      BY <1>2, <2>1, <2>3, <3>1 DEF ConnInv, Places, Follows, ClientPCs
    <3>3. Len(ConData(c)) # 2
      BY <2>1
    <3>4. Wellformed(c)
      BY <2>1, <3>1, <3>2, <3>3, SyncFacts DEF InHandshake
    <3>5. Consumed(c) = 0 /\ Written(c) \in {2, 3}
      BY <2>1 DEF Consumed, Written
    <3>6. Len(In(c, s)) >= 2
      BY <1>0, <1>2, <3>4, <3>5 DEF Wellformed
    <3>7. 2 \in 1 .. Len(In(c, s)) /\ 2 + Consumed(c) = 2
      BY <1>0, <3>5, <3>6
    <3>8. In(c, s)[2] = HandshakeCells[2]
      BY <1>2, <3>4, <3>7 DEF Wellformed
    <3>9. In(c, s)[2][2] = "keys"
      BY <3>8, HandshakeInCells
    <3> QED
      BY <2>1, <2>3, <3>6, <3>9
  <2> QED
    BY <2>2, <2>3
<1> QED
  BY <1>0, <1>1, <1>2

LEMMA SyncDataClean ==
  ASSUME StateTypeOK, NEW c \in Conns, ConnInv(c), Clean(c), NEW s \in Sides, SyncData(c, s),
         faults' = 0
  PROVE  Clean(c)'
<1>0. /\ s = "client" \/ s = "server"
      /\ "client" \in Sides /\ "server" \in Sides /\ "modify" \in ClientPCs \cup ServerPCs
      /\ Peer("client") = "server" /\ Peer("server") = "client"
      /\ In(c, s) \in Seq(Cells) /\ Len(In(c, s)) \in Nat
  BY PeerFacts, SockTypes DEF ClientPCs
<1>1. /\ pc[c][s] = "sync" /\ In(c, s) # <<>> /\ UNCHANGED <<op, need, req, rsp>>
  BY DEF SyncData, msgVars
<1>2. /\ con_data[c][s] = <<>> /\ Len(In(c, s)) >= 2
      /\ s = "server" => /\ Client(c) = "returned" => Len(In(c, s)) >= 3
                         /\ Client(c) # "returned" => In(c, s)[2][2] = "keys"
  BY <1>1, SyncFinds
<1>3. PICK g : /\ con_data' = [con_data EXCEPT ![c][s] = g]
               /\ g[2] = In(c, s)[2][2]
               /\ sock' = [sock EXCEPT ![c] = Read2(@, s)] /\ Goes(c, s, "modify")
  BY <1>2, SyncWhole
<1>4. /\ 2 \in {1, 2}
      /\ sock' = [sock EXCEPT ![c] = IF 2 = 1 THEN Read1(@, s) ELSE Read2(@, s)]
  BY <1>3
<1>5. pc'[c][s] = "modify" /\ pc'[c][Peer(s)] = pc[c][Peer(s)]
  BY <1>0, <1>3, GoesEffect
<1>6. con_data'[c][s] = g /\ \A t \in Sides \ {s} : con_data'[c][t] = con_data[c][t]
  BY <1>3 DEF StateTypeOK
<1>7. CASE s = "client"
  <2>1. Client(c) = "sync" /\ Client(c)' = "modify" /\ Server(c)' = Server(c)
    BY <1>0, <1>1, <1>5, <1>7 DEF Client, Server
  <2>2. /\ Len(In(c, "client")') = Len(In(c, "client")) - 2
        /\ \A t \in Sides : sock'[c][t].fin = sock[c][t].fin /\ sock'[c][t].err = sock[c][t].err
    BY <1>0, <1>2, <1>4, <1>7, HandshakeReads
  <2>3. CleanEnds(c)'
    BY <1>0, <2>1, <2>2 DEF Clean, CleanEnds, Fin
  <2>4. Len(In(c, "client")') = SentCells(c) - TakenCells(c)'
    <3>1. Len(In(c, "client")) = SentCells(c) - TakenCells(c)
      BY <2>1 DEF Clean, CleanClient
    <3>2. TakenCells(c) = 0 /\ TakenCells(c)' = 2 /\ SentCells(c) \in Nat
      BY <2>1 DEF SentCells, TakenCells
    <3> QED
      BY <2>2, <3>1, <3>2
  <2>5. ConData(c)' = ConData(c)
    BY <1>0, <1>6, <1>7 DEF ConData
  <2> QED
    BY <1>1, <2>1, <2>3, <2>4, <2>5, ClientShakes
<1>8. CASE s = "server"
  <2>1. Server(c) = "sync" /\ Server(c)' = "modify" /\ Client(c)' = Client(c)
    BY <1>0, <1>1, <1>5, <1>8 DEF Client, Server
  <2>2. /\ In(c, "client")' = In(c, "client") /\ Len(In(c, "server")') = Len(In(c, "server")) - 2
        /\ \A t \in Sides : sock'[c][t].fin = sock[c][t].fin /\ sock'[c][t].err = sock[c][t].err
    BY <1>0, <1>2, <1>4, <1>8, HandshakeReads
  <2>3. CleanEnds(c)'
    BY <1>0, <2>1, <2>2 DEF Clean, CleanEnds, Fin
  <2>4. Len(In(c, "client")') = Len(In(c, "client")) + (SentCells(c)' - SentCells(c))
    <3>1. Len(In(c, "client")) \in Nat
      BY <1>0, SockTypes
    <3> QED
      BY <2>1, <2>2, <3>1 DEF SentCells
  <2>5. Client(c) # "returned" => ConData(c)'[2] = "keys"
    BY <1>2, <1>3, <1>6, <1>8 DEF ConData
  <2>6. Client(c) = "returned" => Len(In(c, "server")') >= 1
    BY <1>0, <1>2, <1>8, <2>2
  <2>7. con_data'[c]["client"] = con_data[c]["client"]
    BY <1>0, <1>6, <1>8
  <2> QED
    BY <1>1, <2>1, <2>2, <2>3, <2>4, <2>5, <2>6, <2>7, ServerShakes
<1> QED
  BY <1>0, <1>7, <1>8

(* The count of failures never goes down.                                  *)
LEMMA FaultsStay ==
  ASSUME StateTypeOK, [Next]_vars, faults' = 0
  PROVE  faults = 0
<1>1. faults \in Nat /\ \A kind : ~Fail(kind)
  BY NoFail, WireAssumption DEF StateTypeOK
<1>2. ASSUME NEW c \in Conns, ClientStep(c) PROVE UNCHANGED faults
  BY <1>1, <1>2 DEF ClientStep, Connect, SendRequest, ReadResponse, NoResponse, Post, Poll, Finish
<1>3. ASSUME NEW c \in Conns, ServerStep(c) PROVE UNCHANGED faults
  BY <1>1, <1>3 DEF ServerStep, Accept, ReadRoutine, ReadRequest, Respond, ReadSignal, AddKey
<1>4. ASSUME NEW c \in Conns, NEW s \in Sides, Handshake(c, s) PROVE UNCHANGED faults
  BY <1>1, <1>4 DEF Handshake, Prepare, SyncData, ModifyQp, SyncQ, SyncError
<1>5. ASSUME NEW c \in Conns, NEW kind, NEW n, Begin(c, kind, n) PROVE UNCHANGED faults
  BY <1>5 DEF Begin
<1>6. ASSUME NEW c \in Conns, Land(c) \/ Reset(c) PROVE UNCHANGED faults
  BY <1>1, <1>6 DEF Land, Reset
<1>7. UNCHANGED vars => UNCHANGED faults
  BY DEF vars
<1> QED
  BY <1>2, <1>3, <1>4, <1>5, <1>6, <1>7 DEF Next, Progress

LEMMA CleanInit ==
  ASSUME Init
  PROVE  CleanInv
<1>0. "client" \in Sides /\ "server" \in Sides
  BY PeerFacts
<1>1. ASSUME NEW c \in Conns PROVE Clean(c)
  <2>1. /\ Client(c) = "idle" /\ Server(c) = "idle" /\ ConData(c) = <<>> /\ ~Fin(c)
        /\ ~sock[c]["client"].err /\ ~sock[c]["server"].err /\ con_data[c]["client"] = <<>>
        /\ op[c] = "none"
    BY <1>0 DEF Init, Client, Server, ConData, Fin, Socket
  <2>2. CleanEnds(c) /\ CleanData(c)
    BY <2>1 DEF CleanEnds, CleanData
  <2>3. CleanServer(c) /\ CleanClient(c)
    BY <2>1 DEF CleanServer, CleanClient, Late, Shakes
  <2> QED
    BY <2>2, <2>3 DEF Clean
<1> QED
  BY <1>1 DEF Init, CleanInv

LEMMA CleanNext ==
  ASSUME StateTypeOK, WireInv, CleanInv, [Next]_vars
  PROVE  CleanInv'
<1> SUFFICES ASSUME faults' = 0 PROVE alive' /\ \A c \in Conns : Clean(c)'
  BY DEF CleanInv
<1>1. alive /\ \A c \in Conns : Clean(c) /\ ConnInv(c)
  BY FaultsStay DEF CleanInv, WireInv
<1>2. CASE UNCHANGED vars
  <2>1. alive' = alive /\ \A c \in Conns : Same(c)
    BY <1>2 DEF vars, Same
  <2> QED
    BY <1>1, <2>1, CleanFrame
<1>3. CASE Next
  <2>1. PICK c \in Conns : \/ \E kind \in Ops[c], n \in Chunks : Begin(c, kind, n)
                           \/ Progress(c)
                           \/ Reset(c)
    BY <1>3 DEF Next
  <2>2. ConnInv(c) /\ Clean(c)
    BY <1>1
  <2>3. ASSUME Clean(c)', Others(c), alive' = alive
        PROVE  alive' /\ \A d \in Conns : Clean(d)'
    BY <1>1, <2>3, CleanFrame DEF Others
  <2>4. CASE \E kind \in Ops[c], n \in Chunks : Begin(c, kind, n)
    <3>1. PICK kind \in Ops[c], n \in Chunks : Begin(c, kind, n)
      BY <2>4
    <3>2. alive' = alive
      BY <3>1 DEF Begin
    <3> QED
      BY <2>2, <2>3, <3>1, <3>2, BeginKeeps, BeginClean
  <2>5. CASE Reset(c)
    BY <2>5, NoFail DEF Reset
  <2>6. CASE ClientStep(c)
    <3>1. alive' = alive
      BY <2>6 DEF ClientStep, Connect, SendRequest, ReadResponse, NoResponse, Post, Poll, Finish
    <3>2. Others(c)
      BY <2>2, <2>6, ConnectKeeps, SendRequestKeeps, ReadResponseKeeps, NoResponseKeeps,
         PostKeeps, PollKeeps, FinishKeeps DEF ClientStep
    <3>3. Clean(c)'
      BY <1>1, <2>2, <2>6, ConnectClean, SendRequestClean, ReadResponseClean, NoNoResponse,
         TransferClean DEF ClientStep
    <3> QED
      BY <2>3, <3>1, <3>2, <3>3
  <2>7. CASE ServerStep(c)
    <3>1. CASE Accept(c) \/ ReadRoutine(c) \/ ReadRequest(c) \/ ReadSignal(c)
      BY <2>2, <2>3, <3>1, AcceptClean, ReadRoutineClean, ReadRequestClean, ReadSignalClean
    <3>2. CASE Respond(c) \/ AddKey(c)
      <4>1. alive' = alive
        BY <3>2 DEF Respond, AddKey
      <4> QED
        BY <2>2, <2>3, <3>2, <4>1, RespondKeeps, AddKeyKeeps, RespondClean, AddKeyClean
    <3> QED
      BY <2>7, <3>1, <3>2 DEF ServerStep
  <2>8. CASE Land(c)
    <3>1. alive' = alive
      BY <2>8 DEF Land
    <3> QED
      BY <2>2, <2>3, <2>8, <3>1, LandKeeps, TransferClean
  <2>9. CASE \E s \in Sides : Handshake(c, s)
    <3>1. PICK s \in Sides : Handshake(c, s)
      BY <2>9
    <3>2. alive' = alive
      BY <3>1 DEF Handshake, Prepare, SyncData, ModifyQp, SyncQ, SyncError
    <3>3. Others(c)
      BY <2>2, <3>1, PrepareKeeps, SyncDataKeeps, ModifyQpKeeps, SyncQKeeps, SyncErrorKeeps
      DEF Handshake
    <3>4. Clean(c)'
      BY <2>2, <3>1, PrepareClean, SyncDataClean, ModifyQpClean, SyncQClean, NoSyncError
      DEF Handshake
    <3> QED
      BY <2>3, <3>2, <3>3, <3>4
  <2> QED
    BY <2>1, <2>4, <2>5, <2>6, <2>7, <2>8, <2>9 DEF Progress
<1> QED
  BY <1>2, <1>3

(* A clean connection has no dead end.                                     *)
LEMMA CleanGoesOn ==
  ASSUME StateTypeOK, NEW c \in Conns, ConnInv(c), Clean(c)
  PROVE  ~WaitsForever(c) /\ \A s \in Sides : ~Spins(c, s)
<1>0. "client" \in Sides /\ "server" \in Sides /\ Sides = {"client", "server"}
  BY PeerFacts
<1>1. ~Spins(c, "client")
  BY <1>0, CleanEnd DEF Spins, Client, AtEnd
<1>2. ~Spins(c, "server")
  <2> SUFFICES ASSUME Spins(c, "server") PROVE FALSE
    OBVIOUS
  <2>1. Server(c) \in {"sync", "syncQ"} /\ In(c, "server") = <<>> /\ Client(c) = "returned"
    BY <1>0, CleanEnd DEF Spins, Server, AtEnd
  <2>2. Len(In(c, "server")) >= 1
    BY <1>0, <2>1, SockTypes DEF Clean, CleanServer
  <2> QED
    BY <2>1, <2>2
<1>3. ~WaitsForever(c)
  <2> SUFFICES ASSUME WaitsForever(c) PROVE FALSE
    OBVIOUS
  <2>1. /\ Client(c) \in {"sync", "syncQ"} /\ Server(c) \in {"routine", "signal"}
        /\ In(c, "client") = <<>>
    BY DEF WaitsForever, Client, Server
  <2>2. Server(c) = "signal" /\ Len(In(c, "client")) = SentCells(c) - TakenCells(c)
    BY <2>1 DEF Clean, CleanClient, Shakes
  <2>3. SentCells(c) - TakenCells(c) >= 1
    BY <2>1, <2>2 DEF SentCells, TakenCells
  <2> QED
    BY <2>1, <2>2, <2>3
<1> QED
  BY <1>0, <1>1, <1>2, <1>3

(* As long as nothing has failed, every connection is clean: the server    *)
(* runs, and no stream ends before its client has returned.                *)
THEOREM CleanInvariance == Spec => []CleanInv
<1>1. Init => CleanInv
  BY CleanInit
<1>2. StateTypeOK /\ WireInv /\ CleanInv /\ [Next]_vars => CleanInv'
  BY CleanNext
<1> QED
  BY <1>1, <1>2, WireInvariant, PTL DEF Spec

(* Neither side reads at end of file again and again, and the two do not   *)
(* wait for each other, unless something failed before: however the steps  *)
(* of any number of connections interleave, sock_sync_data finds both      *)
(* parts of its peer's data, and each "Q" reaches a side that waits for it.*)
THEOREM DeadEndCorrect == Spec => []DeadEndNeedsFault
<1>1. StateTypeOK /\ WireInv /\ CleanInv => DeadEndNeedsFault
  <2> SUFFICES ASSUME StateTypeOK, WireInv, CleanInv, ~(faults > 0)
               PROVE  \A c \in Conns : ~WaitsForever(c) /\ \A s \in Sides : ~Spins(c, s)
    BY DEF DeadEndNeedsFault
  <2>1. faults = 0
    BY WireAssumption DEF StateTypeOK
  <2> QED
    BY <2>1, CleanGoesOn DEF CleanInv, WireInv
<1> QED
  BY <1>1, WireInvariant, CleanInvariance, PTL
=============================================================================
