------------------------------- MODULE Loader -------------------------------
(***************************************************************************)
(* Loading a checkpoint on one node of the ring: engine.load in a training *)
(* process, HttpServiceImpl::getMetadata, and remoteFileLoader with its    *)
(* request channel, its map of ongoing files and its one thread.           *)
(*                                                                         *)
(* A file is saved by this node ("own"), by the previous node, whose       *)
(* backups this node keeps ("backup"), or by another ("remote"). What the  *)
(* rest of the system does to it meanwhile (saves, backups, writes to      *)
(* disk, evictions: see Lifecycle) is the environment, in coarse steps.    *)
(***************************************************************************)
EXTENDS Integers, Sequences, FiniteSets

CONSTANTS
  Files, NoFile,  \* checkpoint files; "no file"
  Places,         \* where a file may be saved: own, backup or remote
  Ranks,          \* training processes of this node that load files
  Cap,            \* capacity of req_ch_
  Faults,         \* what may fail
  MaxSaves,       \* bound: saves per file
  MaxFaults       \* bound: failures per behaviour

ASSUME LoaderAssumption ==
  /\ NoFile \notin Files
  /\ Places \in [Files -> SUBSET {"own", "backup", "remote"}]
  /\ Cap \in Nat \ {0}
  /\ Faults \subseteq {"db", "net"}
  /\ MaxSaves \in Nat /\ MaxFaults \in Nat

NONE == "NONE"
NoFd == 0
Torn == -1          \* not the complete data of any save
FdNumbers == 1 .. (Cardinality(Files) * (MaxSaves + MaxFaults + 1))

VARIABLES
  place,                \* where the file is saved: does not change
  ready_,               \* bootstrap has ended
  row, saves, saving,   \* state of the row; saves begun; one is under way
  remote,               \* data in the owner's memory (0: none)
  entry,                \* Storage of this node: the memfd of a file
  fd,                   \* open descriptors: file and data behind each
  disk,                 \* data of the file on disk (0: none)
  copying,              \* the backup of the file is being written
  req_ch, ongoing_files,\* requests; loading or ready, if listed
  locked,               \* rw_mutex_ was left locked
  wpc, wkey, wsave,     \* the loader's thread: step, file, save it reads
  rpc, rfile, rsaw, rfd,\* a rank and its handler: step, file, row, memfd
  got,                  \* what torch.load reads
  loads, failed,        \* history: remote loads per file, failed ones
  evicted, faults       \* history: evicted files; failures so far

envVars  == <<place, ready_, row, saves, saving, remote, disk, copying, evicted>>
memVars  == <<entry, fd>>
loadVars == <<req_ch, ongoing_files, locked, wpc, wkey, wsave, loads, failed>>
rankVars == <<rpc, rfile, rsaw, rfd, got>>
vars == <<place, ready_, row, saves, saving, remote, entry, fd, disk, copying,
          req_ch, ongoing_files, locked, wpc, wkey, wsave, rpc, rfile, rsaw, rfd, got, loads,
          failed, evicted, faults>>

Closed == [file |-> NoFile, data |-> 0]
Nothing == [file |-> NoFile, data |-> 0]

Init ==
  /\ place \in {p \in [Files -> {"own", "backup", "remote"}] :
                  \A f \in Files : p[f] \in Places[f]}
  /\ ready_ = FALSE
  /\ row = [f \in Files |-> NONE]
  /\ saves = [f \in Files |-> 0]
  /\ saving = {}
  /\ remote = [f \in Files |-> 0]
  /\ entry = [f \in Files |-> NoFd]
  /\ fd = [n \in FdNumbers |-> Closed]
  /\ disk = [f \in Files |-> 0]
  /\ copying = {}
  /\ req_ch = <<>>
  /\ ongoing_files = [f \in Files |-> "absent"]
  /\ locked = FALSE
  /\ wpc = "take" /\ wkey = NoFile /\ wsave = 0
  /\ rpc = [r \in Ranks |-> "idle"]
  /\ rfile = [r \in Ranks |-> NoFile]
  /\ rsaw = [r \in Ranks |-> NONE]
  /\ rfd = [r \in Ranks |-> NoFd]
  /\ got = [r \in Ranks |-> Nothing]
  /\ loads = [f \in Files |-> 0]
  /\ failed = {}
  /\ evicted = {}
  /\ faults = 0

Fail(kind) == kind \in Faults /\ faults < MaxFaults /\ faults' = faults + 1

-----------------------------------------------------------------------------
(* The environment. A new memfd has the lowest free number; FdNumbers is   *)
(* a bound on how many are open, large enough to be never reached.         *)
FreeFd(n) == fd[n] = Closed /\ \A m \in FdNumbers : fd[m] = Closed => n <= m

(* The file's memory on this node, allocated if need be, holds data d.     *)
Hold(f, d) ==
  \E n \in FdNumbers :
    /\ IF entry[f] = NoFd THEN FreeFd(n) ELSE n = entry[f]
    /\ entry' = [entry EXCEPT ![f] = n]
    /\ fd' = [fd EXCEPT ![n] = [file |-> f, data |-> d]]

Bootstrapped ==
  /\ ~ready_
  /\ ready_' = TRUE
  /\ UNCHANGED <<place, row, saves, saving, remote, disk, copying, evicted, memVars, loadVars,
                 rankVars, faults>>

(* createMetadata ... the copy ... updateMetadata.                         *)
SaveBegin(f) ==
  /\ saves[f] < MaxSaves
  /\ f \notin saving
  /\ saving' = saving \cup {f}
  /\ saves' = [saves EXCEPT ![f] = @ + 1]
  /\ row' = [row EXCEPT ![f] = "PENDING"]
  /\ IF place[f] = "own" THEN Hold(f, Torn) /\ UNCHANGED remote
     ELSE remote' = [remote EXCEPT ![f] = Torn] /\ UNCHANGED memVars
  /\ UNCHANGED <<place, ready_, disk, copying, evicted, loadVars, rankVars, faults>>

SaveEnd(f) ==
  /\ f \in saving
  /\ saving' = saving \ {f}
  /\ row' = [row EXCEPT ![f] = "CACHED"]
  /\ IF place[f] = "own" THEN Hold(f, saves[f]) /\ UNCHANGED remote
     ELSE remote' = [remote EXCEPT ![f] = saves[f]] /\ UNCHANGED memVars
  /\ UNCHANGED <<place, ready_, saves, disk, copying, evicted, loadVars, rankVars, faults>>

(* The owner writes its backup into memory of this node.                   *)
BackupBegin(f) ==
  /\ place[f] = "backup"
  /\ row[f] = "CACHED" /\ f \notin copying
  /\ Hold(f, Torn)
  /\ copying' = copying \cup {f}
  /\ UNCHANGED <<place, ready_, row, saves, saving, remote, disk, evicted, loadVars, rankVars, faults>>

BackupEnd(f) ==
  /\ f \in copying /\ f \notin saving
  /\ Hold(f, remote[f])
  /\ copying' = copying \ {f}
  /\ row' = [row EXCEPT ![f] = "BACKED_UP"]
  /\ UNCHANGED <<place, ready_, saves, saving, remote, disk, evicted, loadVars, rankVars, faults>>

(* The file is on disk (its backup elsewhere is of no interest here).      *)
Persisted(f) ==
  /\ row[f] = IF place[f] = "backup" THEN "BACKED_UP" ELSE "CACHED"
  /\ row' = [row EXCEPT ![f] = "PERSISTENT"]
  /\ disk' = [disk EXCEPT ![f] = saves[f]]
  /\ UNCHANGED <<place, ready_, saves, saving, remote, copying, evicted, memVars, loadVars, rankVars,
                 faults>>

(* An eviction: the row first, the memory later.                           *)
Evict(f) ==
  /\ row[f] = "PERSISTENT"
  /\ row' = [row EXCEPT ![f] = "OBSOLESCENT"]
  /\ evicted' = evicted \cup {f}
  /\ UNCHANGED <<place, ready_, saves, saving, remote, disk, copying, memVars, loadVars, rankVars,
                 faults>>

(* Faulty variant: the memfd is not closed.                                *)
ReleaseOpen(f) ==
  /\ row[f] = "OBSOLESCENT"
  /\ remote' = [remote EXCEPT ![f] = 0]
  /\ entry' = IF place[f] # "remote" THEN [entry EXCEPT ![f] = NoFd] ELSE entry
  /\ UNCHANGED <<place, ready_, row, saves, saving, disk, copying, evicted, fd, loadVars,
                 rankVars, faults>>

(* Storage::Delete closes the memfd. A copy the loader made is not known   *)
(* to anybody: only the owner and the next node delete theirs.             *)
Release(f) ==
  /\ row[f] = "OBSOLESCENT"
  /\ remote[f] # 0 \/ entry[f] # NoFd
  /\ remote' = [remote EXCEPT ![f] = 0]
  /\ IF place[f] # "remote" /\ entry[f] # NoFd
     THEN /\ fd' = [fd EXCEPT ![entry[f]] = Closed]
          /\ entry' = [entry EXCEPT ![f] = NoFd]
     ELSE UNCHANGED memVars
  /\ UNCHANGED <<place, ready_, row, saves, saving, disk, copying, evicted, loadVars, rankVars, faults>>

Environment ==
  \/ Bootstrapped
  \/ \E f \in Files : SaveBegin(f) \/ SaveEnd(f) \/ BackupBegin(f) \/ BackupEnd(f)
                      \/ Persisted(f) \/ Evict(f) \/ Release(f)

-----------------------------------------------------------------------------
(* getMetadata, one handler per request of a rank.                         *)
Goes(r, l) == rpc' = [rpc EXCEPT ![r] = l]

(* engine.load: LoadMetaRequest.                                           *)
Ask(r, f) ==
  /\ rpc[r] = "idle"
  /\ rfile' = [rfile EXCEPT ![r] = f]
  /\ Goes(r, "wait_ready")
  /\ UNCHANGED <<envVars, memVars, loadVars, rsaw, rfd, got, faults>>

(* The handler waits for the bootstrap, in the end in vain.                *)
WaitReady(r) ==
  /\ rpc[r] = "wait_ready"
  /\ Goes(r, IF ready_ THEN "row" ELSE "error")
  /\ UNCHANGED <<envVars, memVars, loadVars, rfile, rsaw, rfd, got, faults>>

(* Own files and backups are here; others are loaded first.                *)
NextStep(f, s) ==
  IF s \in {NONE, "BROKEN", "OBSOLESCENT", "PENDING"} THEN "error"
  ELSE IF place[f] = "remote" THEN "add" ELSE "storage"

LoadRow(r) ==
  LET f == rfile[r] IN
  /\ rpc[r] = "row"
  /\ \/ /\ rsaw' = [rsaw EXCEPT ![r] = row[f]]
        /\ Goes(r, NextStep(f, row[f]))
        /\ UNCHANGED faults
     \/ Fail("db") /\ Goes(r, "error") /\ UNCHANGED rsaw
  /\ UNCHANGED <<envVars, memVars, loadVars, rfile, rfd, got>>

AddKey(r) ==
  /\ rpc[r] = "add"
  /\ Len(req_ch) < Cap
  /\ req_ch' = Append(req_ch, rfile[r])
  /\ Goes(r, "poll")
  /\ UNCHANGED <<envVars, memVars, ongoing_files, locked, wpc, wkey, wsave, loads, failed,
                 rfile, rsaw, rfd, got, faults>>

(* exist && ready, as safeRead sees them under the lock.                   *)
SafeRead(f) == ~locked /\ ongoing_files[f] = "ready"

(* WaitUntilFileReady: safeRead every 250 ms until the file is ready.      *)
WaitUntilFileReady(r) ==
  /\ rpc[r] = "poll"
  /\ SafeRead(rfile[r])
  /\ Goes(r, "storage")
  /\ UNCHANGED <<envVars, memVars, loadVars, rfile, rsaw, rfd, got, faults>>

(* Storage::Load, and the answer.                                          *)
LookUp(r) ==
  LET n == entry[rfile[r]] IN
  /\ rpc[r] = "storage"
  /\ rfd' = [rfd EXCEPT ![r] = n]
  /\ Goes(r, IF n = NoFd THEN "error" ELSE "open")
  /\ UNCHANGED <<envVars, memVars, loadVars, rfile, rsaw, got, faults>>

(* engine.load opens /proc/pid/fd/memfd, or the file on disk.              *)
Open(r) ==
  LET f == rfile[r]
      there == fd[rfd[r]] IN
  /\ rpc[r] = "open"
  /\ \/ /\ there # Closed
        /\ got' = [got EXCEPT ![r] = there]
        /\ Goes(r, "loaded")
     \/ /\ there = Closed /\ disk[f] # 0
        /\ got' = [got EXCEPT ![r] = [file |-> f, data |-> disk[f]]]
        /\ Goes(r, "loaded")
     \/ there = Closed /\ disk[f] = 0 /\ Goes(r, "error") /\ UNCHANGED got
  /\ UNCHANGED <<envVars, memVars, loadVars, rfile, rsaw, rfd, faults>>

Handler(r) ==
  WaitReady(r) \/ LoadRow(r) \/ AddKey(r) \/ WaitUntilFileReady(r) \/ LookUp(r) \/ Open(r)

-----------------------------------------------------------------------------
(* remoteFileLoader's thread.                                              *)

(* Faulty variant: requests for a file that is listed are not skipped.     *)
Skips(f) == FALSE

(* "client request to read file, workqueue already processing, wait..."    *)
Listed(f) == ongoing_files[f] # "absent"

(* safeInsert on a listed file returns without unlocking.                  *)
SafeInsert(f) ==
  IF ongoing_files[f] # "absent"
  THEN locked' = TRUE /\ UNCHANGED ongoing_files
  ELSE /\ ongoing_files' = [ongoing_files EXCEPT ![f] = "loading"]
       /\ UNCHANGED locked

(* Take a request: skip it if its file is listed, else list the file.      *)
Take ==
  LET f == Head(req_ch) IN
  /\ wpc = "take"
  /\ req_ch # <<>>
  /\ req_ch' = Tail(req_ch)
  /\ \/ Listed(f) /\ UNCHANGED <<ongoing_files, locked, wpc, wkey>>
     \/ /\ ~Listed(f)
        /\ ~locked
        /\ SafeInsert(f)
        /\ IF ongoing_files[f] # "absent"
           THEN UNCHANGED <<wpc, wkey>>
           ELSE wkey' = f /\ wpc' = "request"
  /\ UNCHANGED <<envVars, memVars, wsave, loads, failed, rankVars, faults>>

(* safeErase: "so that blocking client can enqueue key again".             *)
GiveUp ==
  /\ ongoing_files' = [ongoing_files EXCEPT ![wkey] = "absent"]
  /\ failed' = failed \cup {wkey}
  /\ wpc' = "take" /\ wkey' = NoFile /\ wsave' = 0
  /\ UNCHANGED <<req_ch, locked, loads>>

(* LoadRemote up to the handshake: the owner has the file, memory is       *)
(* allocated and saved in Storage before anything is read into it. Without *)
(* a positive response, or without memory here, the call returns.          *)
LoadRemoteBegin ==
  /\ wpc = "request"
  /\ ~locked
  /\ \/ /\ remote[wkey] # 0
        /\ \E n \in FdNumbers :
           /\ FreeFd(n)
           /\ entry' = [entry EXCEPT ![wkey] = n]
           /\ fd' = [fd EXCEPT ![n] = [file |-> wkey, data |-> Torn]]
        /\ wpc' = "read" /\ wsave' = remote[wkey]
        /\ UNCHANGED <<req_ch, ongoing_files, locked, wkey, loads, failed, faults>>
     \/ /\ \/ remote[wkey] = 0 /\ UNCHANGED faults
           \/ Fail("net")
        /\ GiveUp
        /\ UNCHANGED memVars
  /\ UNCHANGED <<envVars, rankVars>>

(* Faulty variant: the file is ready although the read failed.             *)
LoadRemoteEndCareless ==
  /\ wpc = "read"
  /\ ~locked
  /\ \/ /\ fd' = [fd EXCEPT ![entry[wkey]].data = wsave]
        /\ UNCHANGED faults
     \/ Fail("net") /\ UNCHANGED fd
  /\ ongoing_files' = [ongoing_files EXCEPT ![wkey] = "ready"]
  /\ loads' = [loads EXCEPT ![wkey] = @ + 1]
  /\ wpc' = "take" /\ wkey' = NoFile /\ wsave' = 0
  /\ UNCHANGED <<envVars, entry, req_ch, locked, failed, rankVars>>

(* Faulty variant: the map forgets the file when it is loaded.             *)
LoadRemoteEndErases ==
  /\ wpc = "read"
  /\ ~locked
  /\ fd' = [fd EXCEPT ![entry[wkey]].data = wsave]
  /\ ongoing_files' = [ongoing_files EXCEPT ![wkey] = "absent"]
  /\ loads' = [loads EXCEPT ![wkey] = @ + 1]
  /\ wpc' = "take" /\ wkey' = NoFile /\ wsave' = 0
  /\ UNCHANGED <<envVars, entry, req_ch, locked, failed, rankVars, faults>>

SafeUpdate(f) == ongoing_files' = [ongoing_files EXCEPT ![f] = "ready"]

(* The handshake and the RDMA read end: what was one save all along is     *)
(* read as such; then safeUpdate. A failed one leaves the entry behind. Or *)
(* the owner's end is lost in the handshake, and sock_sync_data does not   *)
(* return: the dead ends of Wire.                                          *)
LoadRemoteEnd ==
  /\ wpc = "read"
  /\ ~locked
  /\ \/ /\ fd' = [fd EXCEPT ![entry[wkey]].data =
                    IF remote[wkey] = wsave THEN wsave ELSE Torn]
        /\ SafeUpdate(wkey)
        /\ loads' = [loads EXCEPT ![wkey] = @ + 1]
        /\ wpc' = "take" /\ wkey' = NoFile /\ wsave' = 0
        /\ UNCHANGED <<req_ch, locked, failed, faults>>
     \/ Fail("net") /\ GiveUp /\ UNCHANGED fd
     \/ /\ Fail("net")
        /\ wpc' = "stuck"
        /\ UNCHANGED <<fd, req_ch, ongoing_files, locked, wkey, wsave, loads, failed>>
  /\ UNCHANGED <<envVars, entry, rankVars>>

Reconcile == Take \/ LoadRemoteBegin \/ LoadRemoteEnd

Next ==
  \/ Environment
  \/ \E r \in Ranks : Handler(r) \/ \E f \in Files : Ask(r, f)
  \/ Reconcile

Spec == Init /\ [][Next]_vars

(* Handlers and the loader's thread keep running; nobody has to ask, save, *)
(* back up or evict.                                                       *)
FairSpec == Spec /\ WF_vars(Reconcile) /\ \A r \in Ranks : WF_vars(Handler(r))

-----------------------------------------------------------------------------
(* "all ranks may require the same model state, load remotely once is      *)
(* enough": however many ranks ask, a file is read from its owner once.    *)
LoadedOnce == \A f \in Files : loads[f] <= 1

(* A file that was saved once and not evicted is loaded as it was saved,   *)
(* by whatever way: no unfinished remote read, no half-copied backup once  *)
(* the row says BACKED_UP, no other file's memory.                         *)
LoadsIntact ==
  \A r \in Ranks :
    LET f == rfile[r] IN
    /\ rpc[r] = "loaded"
    /\ saves[f] = 1 /\ f \notin evicted
    /\ place[f] = "backup" => rsaw[r] # "CACHED"
    => got[r] = [file |-> f, data |-> 1]

(* Descriptors are not lost: each open one belongs to an entry, unless a   *)
(* load into it failed.                                                    *)
NoDescriptorLost ==
  \A n \in FdNumbers :
    fd[n] # Closed => entry[fd[n].file] = n \/ fd[n].file \in failed

(* The loader's only thread stays in a handshake: it takes no request any  *)
(* more, of this file or another.                                          *)
LoaderStuck == wpc = "stuck"

(* Every rank gets its answer, also when the loader's thread is stuck if   *)
(* the file is on this node; except that a remote load of its file failed  *)
(* while it was waiting, when nobody queues the file again.                *)
Answered ==
  \A r \in Ranks :
    rpc[r] = "wait_ready" ~>
      \/ rpc[r] \in {"loaded", "error"}
      \/ rfile[r] \in failed
      \/ LoaderStuck /\ \E f \in Files : rfile[r] = f /\ place[f] = "remote"
=============================================================================
