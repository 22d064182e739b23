---------------------------- MODULE LoaderProofs ----------------------------
(***************************************************************************)
(* Proofs about Loader, for any ranks, files, requests and failures: a     *)
(* remote file is read from its owner at most once (OnceInv), no           *)
(* descriptor is lost (FdInv), and a rank reads what was saved             *)
(* (IntactInv).                                                            *)
(***************************************************************************)
EXTENDS Loader, TLAPS

RankPCs == {"idle", "wait_ready", "row", "add", "poll", "storage", "open", "loaded", "error"}

(* Requests name files: a handler past its start has one.                  *)
RankShape ==
  /\ rpc \in [Ranks -> RankPCs]
  /\ rfile \in [Ranks -> Files \cup {NoFile}]
  /\ \A r \in Ranks : rpc[r] # "idle" => rfile[r] \in Files

LoaderShape ==
  /\ req_ch \in Seq(Files)
  /\ ongoing_files \in [Files -> {"absent", "loading", "ready"}]
  /\ loads \in [Files -> Nat]

(* The file the thread works on is listed as loading; a file was loaded    *)
(* once if it is listed as ready, and never otherwise.                     *)
Working == wpc # "take" => wkey \in Files /\ ongoing_files[wkey] = "loading"
Counted ==
  \A f \in Files : /\ ongoing_files[f] = "ready" => loads[f] = 1
                   /\ ongoing_files[f] # "ready" => loads[f] = 0

OnceInv == RankShape /\ LoaderShape /\ Working /\ Counted

LEMMA InitOnce == Init => OnceInv
<1> SUFFICES ASSUME Init PROVE OnceInv
  OBVIOUS
<1>1. RankShape
  BY DEF Init, RankShape, RankPCs
<1>2. LoaderShape
  BY DEF Init, LoaderShape
<1>3. Working /\ Counted
  BY DEF Init, Working, Counted
<1> QED
  BY <1>1, <1>2, <1>3 DEF OnceInv

(* What leaves ranks and loader alone preserves the invariant.             *)
LEMMA QuietOnce ==
  ASSUME OnceInv, UNCHANGED <<loadVars, rankVars>>
  PROVE  OnceInv'
  BY DEF OnceInv, RankShape, LoaderShape, Working, Counted, loadVars, rankVars

LEMMA EnvironmentOnce == ASSUME OnceInv, Environment PROVE OnceInv'
<1>1. UNCHANGED <<loadVars, rankVars>>
  BY DEF Environment, Bootstrapped, SaveBegin, SaveEnd, BackupBegin, BackupEnd, Persisted,
         Evict, Release
<1> QED
  BY <1>1, QuietOnce

(* A handler goes on, with its file.                                       *)
LEMMA HandlerGoesOnce ==
  ASSUME OnceInv, NEW r \in Ranks, NEW l \in RankPCs, Goes(r, l), rpc[r] # "idle",
         UNCHANGED <<loadVars, rfile>>
  PROVE  OnceInv'
<1>1. RankShape'
  BY DEF OnceInv, RankShape, Goes
<1>2. (LoaderShape /\ Working /\ Counted)'
  BY DEF OnceInv, LoaderShape, Working, Counted, loadVars
<1> QED
  BY <1>1, <1>2 DEF OnceInv

LEMMA AskOnce == ASSUME OnceInv, NEW r \in Ranks, NEW f \in Files, Ask(r, f) PROVE OnceInv'
<1>1. RankShape'
  BY DEF OnceInv, RankShape, Ask, Goes, RankPCs
<1>2. (LoaderShape /\ Working /\ Counted)'
  BY DEF OnceInv, LoaderShape, Working, Counted, Ask, loadVars
<1> QED
  BY <1>1, <1>2 DEF OnceInv

LEMMA AddKeyOnce == ASSUME OnceInv, NEW r \in Ranks, AddKey(r) PROVE OnceInv'
<1>1. RankShape'
  BY DEF OnceInv, RankShape, AddKey, Goes, RankPCs
<1>2. rfile[r] \in Files
  BY DEF OnceInv, RankShape, AddKey
<1>3. LoaderShape'
  BY <1>2 DEF OnceInv, LoaderShape, AddKey
<1>4. (Working /\ Counted)'
  BY DEF OnceInv, Working, Counted, AddKey
<1> QED
  BY <1>1, <1>3, <1>4 DEF OnceInv

LEMMA HandlerOnce == ASSUME OnceInv, NEW r \in Ranks, Handler(r) PROVE OnceInv'
<1>1. CASE WaitReady(r)
  BY <1>1, HandlerGoesOnce DEF WaitReady, RankPCs
<1>2. CASE LoadRow(r)
  <2>1. \E l \in RankPCs : Goes(r, l)
    BY <1>2 DEF LoadRow, NextStep, RankPCs
  <2> QED
    BY <1>2, <2>1, HandlerGoesOnce DEF LoadRow
<1>3. CASE AddKey(r)
  BY <1>3, AddKeyOnce
<1>4. CASE WaitUntilFileReady(r)
  BY <1>4, HandlerGoesOnce DEF WaitUntilFileReady, RankPCs
<1>5. CASE LookUp(r)
  BY <1>5, HandlerGoesOnce DEF LookUp, RankPCs
<1>6. CASE Open(r)
  <2>1. \E l \in RankPCs : Goes(r, l)
    BY <1>6 DEF Open, RankPCs
  <2> QED
    BY <1>6, <2>1, HandlerGoesOnce DEF Open
<1> QED
  BY <1>1, <1>2, <1>3, <1>4, <1>5, <1>6 DEF Handler

(* A request is taken: its file is listed before it is loaded.             *)
LEMMA TakeOnce == ASSUME OnceInv, Take PROVE OnceInv'
<1> DEFINE f == Head(req_ch)
<1>1. f \in Files /\ Tail(req_ch) \in Seq(Files)
  BY DEF Take, OnceInv, LoaderShape
<1>2. RankShape'
  BY DEF OnceInv, RankShape, Take, rankVars
<1>3. CASE ongoing_files[f] # "absent"
  <2>1. UNCHANGED <<ongoing_files, wpc, wkey>>
    BY <1>3 DEF Take, SafeInsert, Listed
  <2> QED
    BY <1>1, <1>2, <2>1 DEF OnceInv, LoaderShape, Working, Counted, Take
<1>4. CASE ongoing_files[f] = "absent"
  <2>1. /\ ongoing_files' = [ongoing_files EXCEPT ![f] = "loading"]
        /\ wkey' = f
    BY <1>4 DEF Take, SafeInsert, Listed
  <2> QED
    BY <1>1, <1>2, <1>4, <2>1 DEF OnceInv, LoaderShape, Working, Counted, Take
<1> QED
  BY <1>3, <1>4

(* The thread gives a file up: it was not loaded.                          *)
LEMMA GiveUpOnce ==
  ASSUME OnceInv, wpc # "take", GiveUp, UNCHANGED rankVars
  PROVE  OnceInv'
<1>1. RankShape'
  BY DEF OnceInv, RankShape, rankVars
<1>2. LoaderShape'
  BY DEF OnceInv, LoaderShape, GiveUp
<1>3. (Working /\ Counted)'
  BY DEF OnceInv, LoaderShape, Working, Counted, GiveUp
<1> QED
  BY <1>1, <1>2, <1>3 DEF OnceInv

LEMMA LoadRemoteBeginOnce == ASSUME OnceInv, LoadRemoteBegin PROVE OnceInv'
<1>1. CASE GiveUp
  BY <1>1, GiveUpOnce DEF LoadRemoteBegin
<1>2. CASE wpc' = "read" /\ UNCHANGED <<req_ch, ongoing_files, wkey, loads>>
  BY <1>2 DEF LoadRemoteBegin, OnceInv, RankShape, LoaderShape, Working, Counted, rankVars
<1> QED
  BY <1>1, <1>2 DEF LoadRemoteBegin

LEMMA LoadRemoteEndOnce == ASSUME OnceInv, LoadRemoteEnd PROVE OnceInv'
<1>1. CASE GiveUp
  BY <1>1, GiveUpOnce DEF LoadRemoteEnd
<1>2. CASE SafeUpdate(wkey) /\ loads' = [loads EXCEPT ![wkey] = @ + 1]
           /\ wpc' = "take" /\ UNCHANGED req_ch
  <2>0. wkey \in Files /\ ongoing_files[wkey] = "loading"
    BY DEF OnceInv, Working, LoadRemoteEnd
  <2>1. wkey \in Files /\ loads[wkey] = 0
    BY <2>0 DEF OnceInv, LoaderShape, Counted
  <2>2. RankShape'
    BY DEF OnceInv, RankShape, LoadRemoteEnd, rankVars
  <2>3. LoaderShape'
    <3>1. loads' \in [Files -> Nat]
      BY <1>2, <2>1 DEF OnceInv, LoaderShape
    <3>2. ongoing_files' \in [Files -> {"absent", "loading", "ready"}]
      BY <1>2 DEF OnceInv, LoaderShape, SafeUpdate
    <3> QED
      BY <1>2, <3>1, <3>2 DEF OnceInv, LoaderShape
  <2>4. Counted'
    BY <1>2, <2>1 DEF OnceInv, LoaderShape, Counted, SafeUpdate
  <2> QED
    BY <1>2, <2>2, <2>3, <2>4 DEF OnceInv, Working
<1>3. CASE wpc' = "stuck" /\ UNCHANGED <<req_ch, ongoing_files, wkey, loads>>
  BY <1>3 DEF LoadRemoteEnd, OnceInv, RankShape, LoaderShape, Working, Counted, rankVars
<1> QED
  BY <1>1, <1>2, <1>3 DEF LoadRemoteEnd

LEMMA NextOnce == OnceInv /\ [Next]_vars => OnceInv'
<1> SUFFICES ASSUME OnceInv, [Next]_vars PROVE OnceInv'
  OBVIOUS
<1>1. CASE Environment
  BY <1>1, EnvironmentOnce
<1>2. ASSUME NEW r \in Ranks, Handler(r) PROVE OnceInv'
  BY <1>2, HandlerOnce
<1>3. ASSUME NEW r \in Ranks, NEW f \in Files, Ask(r, f) PROVE OnceInv'
  BY <1>3, AskOnce
<1>4. CASE Reconcile
  BY <1>4, TakeOnce, LoadRemoteBeginOnce, LoadRemoteEndOnce DEF Reconcile
<1>5. CASE UNCHANGED vars
  BY <1>5, QuietOnce DEF vars, loadVars, rankVars
<1> QED
  BY <1>1, <1>2, <1>3, <1>4, <1>5 DEF Next

(* "load remotely once is enough": for any ranks, files and failures       *)
(* (remoteFileLoader::startReconcile with safeInsert, safeUpdate and       *)
(* safeErase).                                                             *)
THEOREM LoadedOnceCorrect == Spec => []LoadedOnce
<1>1. OnceInv => LoadedOnce
  BY DEF OnceInv, LoaderShape, Counted, LoadedOnce
<1> QED
  BY InitOnce, NextOnce, <1>1, PTL DEF Spec

-----------------------------------------------------------------------------
(* Memory of this node. An entry of Storage names a descriptor of its own  *)
(* file, and a descriptor that no entry names was left by a failed load.   *)
Rows == {NONE, "PENDING", "CACHED", "BACKED_UP", "PERSISTENT", "OBSOLESCENT"}
FdShape ==
  /\ entry \in [Files -> FdNumbers \cup {NoFd}]
  /\ fd \in [FdNumbers -> [file : Files \cup {NoFile}, data : Int]]
  /\ failed \subseteq Files
EntryNames == \A f \in Files : entry[f] # NoFd => fd[entry[f]].file = f
Entered ==
  \A n \in FdNumbers :
    fd[n] # Closed => /\ fd[n].file \in Files
                      /\ entry[fd[n].file] = n \/ fd[n].file \in failed
MemInv == FdShape /\ EntryNames /\ Entered

(* Only remote files are requested, listed and loaded; an entry of a       *)
(* remote file is of a finished load, of the one under way or of one that  *)
(* failed. Only backups are copied.                                        *)
PlaceShape ==
  /\ place \in [Files -> {"own", "backup", "remote"}]
  /\ copying \subseteq {f \in Files : place[f] = "backup"}
  /\ \A i \in 1 .. Len(req_ch) : place[req_ch[i]] = "remote"
  /\ \A r \in Ranks : rpc[r] \in {"add", "poll"} => place[rfile[r]] = "remote"
  /\ wpc # "take" => place[wkey] = "remote"
  /\ wpc = "read" => entry[wkey] # NoFd
RemoteEntries ==
  \A f \in Files :
    place[f] = "remote" /\ entry[f] # NoFd =>
      ongoing_files[f] = "ready" \/ (wpc \in {"read", "stuck"} /\ wkey = f) \/ f \in failed
RemoteInv == PlaceShape /\ RemoteEntries

DataShape == /\ saves \in [Files -> Nat]
             /\ remote \in [Files -> Int]
             /\ wsave \in Int

FdInv == OnceInv /\ MemInv /\ RemoteInv /\ DataShape

(* What a file saved once holds. Its row only moves on, so that whoever    *)
(* saw it complete finds it complete.                                      *)
SavedShape ==
  /\ row \in [Files -> Rows]
  /\ saving \subseteq Files
  /\ rsaw \in [Ranks -> Rows] /\ rfd \in [Ranks -> FdNumbers \cup {NoFd}]
  /\ got = [r \in Ranks |-> got[r]]
Good(f) == saves[f] = 1 /\ f \notin evicted
Whole(f) == entry[f] # NoFd /\ fd[entry[f]].data = 1
Unsaved(f) == row[f] = NONE /\ f \notin saving /\ f \notin copying /\ remote[f] = 0
RowTrue(f) ==
  /\ row[f] \in {"PENDING", "CACHED", "BACKED_UP", "PERSISTENT"}
  /\ row[f] = "PENDING" <=> f \in saving
  /\ f \in copying => row[f] = "CACHED"
DataTrue(f) ==
  /\ place[f] # "own" /\ row[f] # "PENDING" => remote[f] = 1
  /\ place[f] = "own" /\ row[f] # "PENDING" => Whole(f)
  /\ place[f] = "backup" /\ row[f] \in {"BACKED_UP", "PERSISTENT"} => Whole(f)
  /\ place[f] = "remote" /\ ongoing_files[f] = "ready" => Whole(f)
FileInv(f) == /\ saves[f] = 0 => Unsaved(f)
              /\ Good(f) => RowTrue(f) /\ DataTrue(f)

(* A file that a rank saw complete, or that was requested, was complete.   *)
Asked(f) == saves[f] # 0 /\ (Good(f) => row[f] # "PENDING")
Requests ==
  /\ \A i \in 1 .. Len(req_ch) : Asked(req_ch[i])
  /\ wpc # "take" => Asked(wkey)
  /\ wpc = "read" /\ Good(wkey) => wsave = 1
  /\ \A f \in Files : ongoing_files[f] = "ready" => Asked(f)

(* A rank that got past the row, and the memory it was pointed to.         *)
Seen == {"add", "poll", "storage", "open", "loaded"}
Eligible(r) == /\ Good(rfile[r])
               /\ place[rfile[r]] = "backup" => rsaw[r] # "CACHED"
RankInv(r) ==
  /\ rpc[r] \in Seen =>
       /\ Asked(rfile[r])
       /\ place[rfile[r]] = "backup" /\ Eligible(r) =>
            row[rfile[r]] \in {"BACKED_UP", "PERSISTENT"}
  /\ rpc[r] \in {"storage", "open", "loaded"} /\ place[rfile[r]] = "remote" =>
       ongoing_files[rfile[r]] = "ready"
  /\ rpc[r] = "open" /\ Eligible(r) =>
       rfd[r] # NoFd /\ fd[rfd[r]] = [file |-> rfile[r], data |-> 1]
  /\ rpc[r] = "loaded" /\ Eligible(r) => got[r] = [file |-> rfile[r], data |-> 1]

IntactInv == /\ SavedShape
             /\ \A f \in Files : FileInv(f)
             /\ Requests
             /\ \A r \in Ranks : RankInv(r)

-----------------------------------------------------------------------------
(* What Hold does to the memory of this node.                              *)
Held(f, d, n) ==
  /\ entry'[f] = n /\ fd'[n] = [file |-> f, data |-> d]
  /\ \A g \in Files \ {f} : entry'[g] = entry[g]
  /\ \A m \in FdNumbers \ {n} : fd'[m] = fd[m]
  /\ fd[n] = Closed \/ fd[n].file = f
  /\ entry[f] # NoFd => n = entry[f]

LEMMA FdNumber == ASSUME NEW n \in FdNumbers PROVE n # NoFd
  BY DEF FdNumbers, NoFd

(* A descriptor that is free, or the file's own, takes the file's data.    *)
LEMMA PutMem ==
  ASSUME LoaderAssumption, MemInv, NEW f \in Files, NEW d \in Int, NEW n \in FdNumbers,
         fd[n] = Closed \/ fd[n].file = f,
         entry[f] # NoFd => n = entry[f] \/ f \in failed,
         entry' = [entry EXCEPT ![f] = n],
         fd' = [fd EXCEPT ![n] = [file |-> f, data |-> d]], UNCHANGED failed
  PROVE  MemInv'
<1>0. NoFile \notin Files /\ n # NoFd
  BY FdNumber DEF LoaderAssumption
<1>1. /\ entry'[f] = n /\ fd'[n] = [file |-> f, data |-> d]
      /\ \A g \in Files \ {f} : entry'[g] = entry[g]
      /\ \A m \in FdNumbers \ {n} : fd'[m] = fd[m]
  BY DEF MemInv, FdShape
<1>2. FdShape'
  BY DEF MemInv, FdShape
<1>3. EntryNames'
  <2> SUFFICES ASSUME NEW g \in Files, entry'[g] # NoFd PROVE fd'[entry'[g]].file = g
    BY DEF EntryNames
  <2>1. CASE g = f
    BY <1>1, <2>1
  <2>2. CASE g # f
    <3>1. entry[g] # NoFd /\ fd[entry[g]].file = g /\ entry[g] \in FdNumbers
      BY <1>1, <2>2 DEF MemInv, EntryNames, FdShape
    <3>2. Closed.file = NoFile
      BY DEF Closed
    <3>3. entry[g] # n
      BY <1>0, <2>2, <3>1, <3>2
    <3> QED
      BY <1>1, <2>2, <3>1, <3>3
  <2> QED
    BY <2>1, <2>2
<1>4. Entered'
  <2> SUFFICES ASSUME NEW m \in FdNumbers, fd'[m] # Closed
               PROVE  /\ fd'[m].file \in Files
                      /\ entry'[fd'[m].file] = m \/ fd'[m].file \in failed
    BY DEF Entered
  <2>1. CASE m = n
    BY <1>1, <2>1
  <2>2. CASE m # n
    <3>1. fd'[m] = fd[m] /\ fd[m].file \in Files
          /\ (entry[fd[m].file] = m \/ fd[m].file \in failed)
      BY <1>1, <2>2 DEF MemInv, Entered
    <3>2. CASE fd[m].file = f
      <4>1. entry[f] = m => f \in failed
        BY <2>2, FdNumber
      <4> QED
        BY <3>1, <3>2, <4>1
    <3>3. CASE fd[m].file # f
      BY <1>1, <3>1, <3>3
    <3> QED
      BY <3>2, <3>3
  <2> QED
    BY <2>1, <2>2
<1> QED
  BY <1>2, <1>3, <1>4 DEF MemInv

LEMMA HoldMem ==
  ASSUME LoaderAssumption, MemInv, NEW f \in Files, NEW d \in Int, Hold(f, d), UNCHANGED failed
  PROVE  MemInv' /\ \E n \in FdNumbers : Held(f, d, n)
<1>1. PICK n \in FdNumbers :
        /\ IF entry[f] = NoFd THEN FreeFd(n) ELSE n = entry[f]
        /\ entry' = [entry EXCEPT ![f] = n]
        /\ fd' = [fd EXCEPT ![n] = [file |-> f, data |-> d]]
  BY DEF Hold
<1>2. /\ fd[n] = Closed \/ fd[n].file = f
      /\ entry[f] # NoFd => n = entry[f]
  BY <1>1 DEF FreeFd, MemInv, EntryNames
<1>3. MemInv'
  BY <1>1, <1>2, PutMem
<1>4. Held(f, d, n)
  BY <1>1, <1>2 DEF Held, MemInv, FdShape
<1> QED
  BY <1>3, <1>4

LEMMA ReleaseMem ==
  ASSUME LoaderAssumption, MemInv, NEW f \in Files, entry[f] # NoFd,
         fd' = [fd EXCEPT ![entry[f]] = Closed], entry' = [entry EXCEPT ![f] = NoFd],
         UNCHANGED failed
  PROVE  /\ MemInv'
         /\ \A g \in Files \ {f} : entry'[g] = entry[g]
         /\ \A m \in FdNumbers : fd'[m] = fd[m] \/ fd[m].file = f
<1>0. NoFile \notin Files /\ entry[f] \in FdNumbers /\ fd[entry[f]].file = f
      /\ Closed.file = NoFile
  BY DEF LoaderAssumption, MemInv, FdShape, EntryNames, Closed
<1>1. /\ entry'[f] = NoFd /\ fd'[entry[f]] = Closed
      /\ \A g \in Files \ {f} : entry'[g] = entry[g]
      /\ \A m \in FdNumbers \ {entry[f]} : fd'[m] = fd[m]
  BY <1>0 DEF MemInv, FdShape
<1>2. FdShape'
  <2>1. Closed \in [file : Files \cup {NoFile}, data : Int]
    BY DEF Closed
  <2> QED
    BY <2>1 DEF MemInv, FdShape
<1>3. EntryNames'
  <2> SUFFICES ASSUME NEW g \in Files, entry'[g] # NoFd PROVE fd'[entry'[g]].file = g
    BY DEF EntryNames
  <2>1. g # f /\ entry[g] # NoFd /\ fd[entry[g]].file = g /\ entry[g] \in FdNumbers
    BY <1>1 DEF MemInv, EntryNames, FdShape
  <2>2. entry[g] # entry[f]
    BY <1>0, <2>1
  <2> QED
    BY <1>1, <2>1, <2>2
<1>4. Entered'
  <2> SUFFICES ASSUME NEW m \in FdNumbers, fd'[m] # Closed
               PROVE  /\ fd'[m].file \in Files
                      /\ entry'[fd'[m].file] = m \/ fd'[m].file \in failed
    BY DEF Entered
  <2>1. m # entry[f] /\ fd'[m] = fd[m]
    BY <1>1
  <2>2. fd[m].file \in Files /\ (entry[fd[m].file] = m \/ fd[m].file \in failed)
    BY <2>1 DEF MemInv, Entered
  <2> QED
    BY <1>1, <2>1, <2>2
<1> QED
  BY <1>0, <1>1, <1>2, <1>3, <1>4 DEF MemInv

LEMMA MemFrame ==
  ASSUME MemInv, UNCHANGED <<entry, fd, failed>>
  PROVE  MemInv'
  BY DEF MemInv, FdShape, EntryNames, Entered

LEMMA RemoteFrame ==
  ASSUME OnceInv, RemoteInv, UNCHANGED <<place, loadVars, rpc, rfile>>,
         copying' \subseteq {f \in Files : place[f] = "backup"},
         \A f \in Files : place[f] = "remote" => entry'[f] = entry[f]
  PROVE  RemoteInv'
<1>1. PlaceShape'
  BY DEF RemoteInv, PlaceShape, OnceInv, Working, loadVars
<1>2. RemoteEntries'
  BY DEF RemoteInv, RemoteEntries, loadVars
<1> QED
  BY <1>1, <1>2 DEF RemoteInv

(* The environment writes the memory of own files and of backups only.     *)
LEMMA HoldFd ==
  ASSUME LoaderAssumption, FdInv, NEW f \in Files, place[f] # "remote", NEW d \in Int,
         Hold(f, d), UNCHANGED <<place, loadVars, rankVars>>,
         copying' \subseteq {g \in Files : place[g] = "backup"}
  PROVE  (OnceInv /\ MemInv /\ RemoteInv)'
<1>1. OnceInv'
  BY QuietOnce DEF FdInv
<1>2. MemInv' /\ \A g \in Files \ {f} : entry'[g] = entry[g]
  BY HoldMem DEF FdInv, loadVars, Held
<1>3. RemoteInv'
  BY <1>2, RemoteFrame DEF FdInv, rankVars
<1> QED
  BY <1>1, <1>2, <1>3

LEMMA QuietFd ==
  ASSUME FdInv, UNCHANGED <<place, memVars, loadVars, rankVars>>,
         copying' \subseteq {g \in Files : place[g] = "backup"}
  PROVE  (OnceInv /\ MemInv /\ RemoteInv)'
<1>1. OnceInv'
  BY QuietOnce DEF FdInv
<1>2. MemInv'
  BY MemFrame DEF FdInv, loadVars, memVars
<1>3. RemoteInv'
  BY RemoteFrame DEF FdInv, rankVars, memVars
<1> QED
  BY <1>1, <1>2, <1>3

LEMMA EnvironmentFd ==
  ASSUME LoaderAssumption, FdInv, Environment
  PROVE  (OnceInv /\ MemInv /\ RemoteInv)'
<1>0. copying \subseteq {g \in Files : place[g] = "backup"} /\ Torn \in Int
  BY DEF FdInv, RemoteInv, PlaceShape, Torn
<1>1. CASE Bootstrapped
  BY <1>0, <1>1, QuietFd DEF Bootstrapped
<1>2. ASSUME NEW f \in Files, SaveBegin(f) PROVE (OnceInv /\ MemInv /\ RemoteInv)'
  BY <1>0, <1>2, QuietFd, HoldFd DEF SaveBegin
<1>3. ASSUME NEW f \in Files, SaveEnd(f) PROVE (OnceInv /\ MemInv /\ RemoteInv)'
  <2>1. saves[f] \in Int
    BY DEF FdInv, DataShape
  <2> QED
    BY <1>0, <1>3, <2>1, QuietFd, HoldFd DEF SaveEnd
<1>4. ASSUME NEW f \in Files, BackupBegin(f) PROVE (OnceInv /\ MemInv /\ RemoteInv)'
  BY <1>0, <1>4, HoldFd DEF BackupBegin
<1>5. ASSUME NEW f \in Files, BackupEnd(f) PROVE (OnceInv /\ MemInv /\ RemoteInv)'
  <2>1. remote[f] \in Int /\ place[f] # "remote"
    BY <1>0, <1>5 DEF FdInv, DataShape, BackupEnd
  <2> QED
    BY <1>0, <1>5, <2>1, HoldFd DEF BackupEnd
<1>6. ASSUME NEW f \in Files, Persisted(f) \/ Evict(f) PROVE (OnceInv /\ MemInv /\ RemoteInv)'
  BY <1>0, <1>6, QuietFd DEF Persisted, Evict
<1>7. ASSUME NEW f \in Files, Release(f) PROVE (OnceInv /\ MemInv /\ RemoteInv)'
  <2>1. UNCHANGED <<place, copying, loadVars, rankVars, failed>>
    BY <1>7 DEF Release, loadVars
  <2>2. CASE UNCHANGED memVars
    BY <1>0, <2>1, <2>2, QuietFd
  <2>3. CASE /\ place[f] # "remote" /\ entry[f] # NoFd
             /\ fd' = [fd EXCEPT ![entry[f]] = Closed]
             /\ entry' = [entry EXCEPT ![f] = NoFd]
    <3>1. OnceInv'
      BY <2>1, QuietOnce DEF FdInv
    <3>2. MemInv' /\ \A g \in Files \ {f} : entry'[g] = entry[g]
      BY <2>1, <2>3, ReleaseMem DEF FdInv
    <3>3. RemoteInv'
      BY <1>0, <2>1, <2>3, <3>2, RemoteFrame DEF FdInv, rankVars
    <3> QED
      BY <3>1, <3>2, <3>3
  <2> QED
    BY <1>7, <2>2, <2>3 DEF Release
<1> QED
  BY <1>1, <1>2, <1>3, <1>4, <1>5, <1>6, <1>7 DEF Environment

(* A handler: only a file that is remote is added to the requests.         *)
LEMMA RankPlace ==
  ASSUME FdInv, NEW r \in Ranks, Handler(r) \/ \E f \in Files : Ask(r, f)
  PROVE  RemoteInv'
<1>1. UNCHANGED <<place, entry, copying, ongoing_files, wpc, wkey, failed>>
  BY DEF Handler, Ask, WaitReady, LoadRow, AddKey, WaitUntilFileReady, LookUp, Open, envVars,
         memVars, loadVars
<1>2. RemoteEntries'
  BY <1>1 DEF FdInv, RemoteInv, RemoteEntries
<1>3. \A q \in Ranks \ {r} : rpc'[q] = rpc[q] /\ rfile'[q] = rfile[q]
  BY DEF Handler, Ask, WaitReady, LoadRow, AddKey, WaitUntilFileReady, LookUp, Open, Goes,
         FdInv, OnceInv, RankShape
<1>4. rpc'[r] \in {"add", "poll"} => place[rfile'[r]] = "remote"
  <2>1. CASE AddKey(r)
    BY <2>1 DEF AddKey, FdInv, RemoteInv, PlaceShape
  <2>2. CASE LoadRow(r)
    BY <2>2 DEF LoadRow, NextStep, Goes, FdInv, OnceInv, RankShape
  <2>3. CASE WaitReady(r) \/ WaitUntilFileReady(r) \/ LookUp(r) \/ Open(r)
             \/ \E f \in Files : Ask(r, f)
    BY <2>3 DEF WaitReady, WaitUntilFileReady, LookUp, Open, Ask, Goes, FdInv, OnceInv, RankShape
  <2> QED
    BY <2>1, <2>2, <2>3 DEF Handler
<1>5. \A i \in 1 .. Len(req_ch') : place[req_ch'[i]] = "remote"
  <2>1. CASE AddKey(r)
    <3>1. rfile[r] \in Files /\ place[rfile[r]] = "remote" /\ req_ch \in Seq(Files)
      BY <2>1 DEF AddKey, FdInv, RemoteInv, PlaceShape, OnceInv, RankShape, LoaderShape
    <3>2. req_ch' = Append(req_ch, rfile[r])
      BY <2>1 DEF AddKey
    <3> QED
      BY <3>1, <3>2 DEF FdInv, RemoteInv, PlaceShape
  <2>2. CASE ~AddKey(r)
    <3>1. UNCHANGED req_ch
      BY <2>2 DEF Handler, Ask, WaitReady, LoadRow, WaitUntilFileReady, LookUp, Open, loadVars
    <3> QED
      BY <3>1 DEF FdInv, RemoteInv, PlaceShape
  <2> QED
    BY <2>1, <2>2
<1>6. PlaceShape'
  BY <1>1, <1>3, <1>4, <1>5 DEF FdInv, RemoteInv, PlaceShape
<1> QED
  BY <1>2, <1>6 DEF RemoteInv

LEMMA RankFd ==
  ASSUME FdInv, NEW r \in Ranks, Handler(r) \/ \E f \in Files : Ask(r, f)
  PROVE  (OnceInv /\ MemInv /\ RemoteInv)'
<1>1. UNCHANGED <<entry, fd, failed>>
  BY DEF Handler, Ask, WaitReady, LoadRow, AddKey, WaitUntilFileReady, LookUp, Open, memVars,
         loadVars
<1> QED
  BY <1>1, RankPlace, MemFrame, HandlerOnce, AskOnce DEF FdInv

-----------------------------------------------------------------------------
(* The loader's thread.                                                    *)
LEMMA TakeFd == ASSUME FdInv, Take PROVE (MemInv /\ RemoteInv)'
<1> DEFINE f == Head(req_ch)
<1>1. UNCHANGED <<place, copying, entry, fd, failed, rpc, rfile>> /\ wpc = "take"
  BY DEF Take, envVars, memVars, rankVars
<1>2. MemInv'
  BY <1>1, MemFrame DEF FdInv
<1>3. req_ch \in Seq(Files) /\ req_ch # <<>> /\ req_ch' = Tail(req_ch)
  BY DEF Take, FdInv, OnceInv, LoaderShape
<1>4. f \in Files /\ place[f] = "remote"
  BY <1>3 DEF FdInv, RemoteInv, PlaceShape
<1>5. \A i \in 1 .. Len(req_ch') : place[req_ch'[i]] = "remote"
  BY <1>3 DEF FdInv, RemoteInv, PlaceShape
<1>6. wpc' = "take" \/ (wkey' = f /\ wpc' = "request")
  BY <1>1 DEF Take
<1>7. PlaceShape'
  BY <1>1, <1>4, <1>5, <1>6 DEF FdInv, RemoteInv, PlaceShape
<1>8. \A g \in Files : ongoing_files[g] = "ready" => ongoing_files'[g] = "ready"
  BY <1>4 DEF Take, SafeInsert, Listed, FdInv, OnceInv, LoaderShape
<1>9. RemoteEntries'
  BY <1>1, <1>8 DEF FdInv, RemoteInv, RemoteEntries
<1> QED
  BY <1>2, <1>7, <1>9 DEF RemoteInv

LEMMA GiveUpFd ==
  ASSUME FdInv, wpc # "take", GiveUp, UNCHANGED <<envVars, entry, fd, rankVars>>
  PROVE  (MemInv /\ RemoteInv)'
<1>0. wkey \in Files /\ ongoing_files[wkey] = "loading"
  BY DEF FdInv, OnceInv, Working
<1>1. MemInv'
  BY <1>0 DEF FdInv, MemInv, FdShape, EntryNames, Entered, GiveUp
<1>2. PlaceShape'
  BY DEF FdInv, RemoteInv, PlaceShape, GiveUp, envVars, rankVars
<1>3. RemoteEntries'
  BY <1>0 DEF FdInv, RemoteInv, RemoteEntries, GiveUp, OnceInv, LoaderShape, envVars
<1> QED
  BY <1>1, <1>2, <1>3 DEF RemoteInv

LEMMA LoadRemoteBeginFd ==
  ASSUME LoaderAssumption, FdInv, LoadRemoteBegin
  PROVE  (MemInv /\ RemoteInv)'
<1>0. wkey \in Files /\ ongoing_files[wkey] = "loading" /\ wpc = "request"
      /\ place[wkey] = "remote" /\ Torn \in Int
  BY DEF FdInv, OnceInv, Working, LoadRemoteBegin, RemoteInv, PlaceShape, Torn
<1>1. CASE GiveUp /\ UNCHANGED memVars
  BY <1>0, <1>1, GiveUpFd DEF LoadRemoteBegin, memVars
<1>2. ASSUME NEW n \in FdNumbers, FreeFd(n), entry' = [entry EXCEPT ![wkey] = n],
             fd' = [fd EXCEPT ![n] = [file |-> wkey, data |-> Torn]], wpc' = "read",
             UNCHANGED <<req_ch, ongoing_files, wkey, failed>>
      PROVE  (MemInv /\ RemoteInv)'
  <2>1. entry[wkey] # NoFd => wkey \in failed
    BY <1>0 DEF FdInv, RemoteInv, RemoteEntries
  <2>2. MemInv'
    BY <1>0, <1>2, <2>1, PutMem DEF FdInv, FreeFd
  <2>3. n # NoFd /\ entry'[wkey] = n /\ \A g \in Files \ {wkey} : entry'[g] = entry[g]
    BY <1>0, <1>2, FdNumber DEF FdInv, MemInv, FdShape
  <2>4. UNCHANGED <<place, copying, rpc, rfile>>
    BY DEF LoadRemoteBegin, envVars, rankVars
  <2>5. PlaceShape'
    BY <1>0, <1>2, <2>3, <2>4 DEF FdInv, RemoteInv, PlaceShape
  <2>6. RemoteEntries'
    BY <1>0, <1>2, <2>3, <2>4 DEF FdInv, RemoteInv, RemoteEntries
  <2> QED
    BY <2>2, <2>5, <2>6 DEF RemoteInv
<1> QED
  BY <1>1, <1>2 DEF LoadRemoteBegin

LEMMA LoadRemoteEndFd ==
  ASSUME LoaderAssumption, FdInv, LoadRemoteEnd
  PROVE  (MemInv /\ RemoteInv)'
<1>0. wkey \in Files /\ ongoing_files[wkey] = "loading" /\ wpc = "read"
      /\ entry[wkey] \in FdNumbers /\ fd[entry[wkey]].file = wkey
  BY DEF FdInv, OnceInv, Working, LoadRemoteEnd, RemoteInv, PlaceShape, MemInv, FdShape, EntryNames
<1>1. CASE GiveUp /\ UNCHANGED fd
  BY <1>0, <1>1, GiveUpFd DEF LoadRemoteEnd
<1>2. ASSUME NEW d \in Int, fd' = [fd EXCEPT ![entry[wkey]].data = d], SafeUpdate(wkey),
             wpc' = "take", UNCHANGED <<req_ch, failed>>
      PROVE  (MemInv /\ RemoteInv)'
  <2>1. UNCHANGED <<place, copying, entry, rpc, rfile>>
    BY DEF LoadRemoteEnd, envVars, rankVars
  <2>2. fd' = [fd EXCEPT ![entry[wkey]] = [file |-> wkey, data |-> d]]
    <3>1. fd[entry[wkey]] \in [file : Files \cup {NoFile}, data : Int]
      BY <1>0 DEF FdInv, MemInv, FdShape
    <3>2. [fd[entry[wkey]] EXCEPT !.data = d] = [file |-> wkey, data |-> d]
      BY <1>0, <3>1
    <3> QED
      BY <1>2, <3>2
  <2>3. entry' = [entry EXCEPT ![wkey] = entry[wkey]]
    BY <2>1 DEF FdInv, MemInv, FdShape
  <2>4. MemInv'
    BY <1>0, <1>2, <2>2, <2>3, PutMem DEF FdInv
  <2>5. PlaceShape'
    BY <1>2, <2>1 DEF FdInv, RemoteInv, PlaceShape
  <2>6. RemoteEntries'
    BY <1>0, <1>2, <2>1 DEF FdInv, RemoteInv, RemoteEntries, SafeUpdate, OnceInv, LoaderShape
  <2> QED
    BY <2>4, <2>5, <2>6 DEF RemoteInv
<1>3. (IF remote[wkey] = wsave THEN wsave ELSE Torn) \in Int
  BY DEF FdInv, DataShape, Torn
<1>4. CASE wpc' = "stuck" /\ UNCHANGED <<fd, req_ch, ongoing_files, wkey, failed>>
  <2>1. UNCHANGED <<place, copying, entry, rpc, rfile>>
    BY DEF LoadRemoteEnd, envVars, rankVars
  <2>2. MemInv'
    BY <1>4, <2>1 DEF FdInv, MemInv, FdShape, EntryNames, Entered
  <2>3. PlaceShape' /\ RemoteEntries'
    BY <1>0, <1>4, <2>1 DEF FdInv, RemoteInv, PlaceShape, RemoteEntries
  <2> QED
    BY <2>2, <2>3 DEF RemoteInv
<1> QED
  BY <1>1, <1>2, <1>3, <1>4 DEF LoadRemoteEnd

LEMMA DataNext == ASSUME FdInv, [Next]_vars PROVE DataShape'
<1>0. DataShape /\ Torn \in Int
  BY DEF FdInv, Torn
<1>1. CASE Environment
  <2>1. CASE \E f \in Files : SaveBegin(f) \/ SaveEnd(f) \/ Release(f)
    BY <1>0, <2>1 DEF SaveBegin, SaveEnd, Release, DataShape, loadVars
  <2>2. CASE ~ \E f \in Files : SaveBegin(f) \/ SaveEnd(f) \/ Release(f)
    BY <1>0, <1>1, <2>2 DEF Environment, Bootstrapped, BackupBegin, BackupEnd, Persisted, Evict,
       DataShape, loadVars
  <2> QED
    BY <2>1, <2>2
<1>2. ASSUME NEW r \in Ranks, Handler(r) \/ \E f \in Files : Ask(r, f) PROVE DataShape'
  BY <1>0, <1>2 DEF Handler, Ask, WaitReady, LoadRow, AddKey, WaitUntilFileReady, LookUp, Open,
     DataShape, envVars, loadVars
<1>3. CASE Reconcile
  <2>1. CASE Take
    BY <1>0, <2>1 DEF Take, DataShape, envVars
  <2>2. CASE LoadRemoteBegin
    <3>1. wkey \in Files
      BY <2>2 DEF LoadRemoteBegin, FdInv, OnceInv, Working
    <3> QED
      BY <1>0, <2>2, <3>1 DEF LoadRemoteBegin, GiveUp, DataShape, envVars
  <2>3. CASE LoadRemoteEnd
    BY <1>0, <2>3 DEF LoadRemoteEnd, GiveUp, DataShape, envVars
  <2> QED
    BY <1>3, <2>1, <2>2, <2>3 DEF Reconcile
<1>4. CASE UNCHANGED vars
  BY <1>0, <1>4 DEF vars, DataShape
<1> QED
  BY <1>1, <1>2, <1>3, <1>4 DEF Next

LEMMA NextFd == LoaderAssumption /\ FdInv /\ [Next]_vars => FdInv'
<1> SUFFICES ASSUME LoaderAssumption, FdInv, [Next]_vars PROVE (OnceInv /\ MemInv /\ RemoteInv)'
  BY DataNext DEF FdInv
<1>1. CASE Environment
  BY <1>1, EnvironmentFd
<1>2. ASSUME NEW r \in Ranks, Handler(r) \/ \E f \in Files : Ask(r, f)
      PROVE  (OnceInv /\ MemInv /\ RemoteInv)'
  BY <1>2, RankFd
<1>3. CASE Reconcile
  BY <1>3, TakeOnce, LoadRemoteBeginOnce, LoadRemoteEndOnce, TakeFd, LoadRemoteBeginFd,
     LoadRemoteEndFd DEF FdInv, Reconcile
<1>4. CASE UNCHANGED vars
  <2>1. UNCHANGED <<place, memVars, loadVars, rankVars, copying>>
    BY <1>4 DEF vars, memVars, loadVars, rankVars
  <2> QED
    BY <2>1, QuietFd DEF FdInv, RemoteInv, PlaceShape
<1> QED
  BY <1>1, <1>2, <1>3, <1>4 DEF Next

LEMMA InitFd == LoaderAssumption /\ Init => FdInv
<1> SUFFICES ASSUME LoaderAssumption, Init PROVE FdInv
  OBVIOUS
<1>1. MemInv
  <2>1. Closed \in [file : Files \cup {NoFile}, data : Int]
    BY DEF Closed
  <2> QED
    BY <2>1 DEF Init, MemInv, FdShape, EntryNames, Entered
<1>2. RemoteInv
  BY DEF Init, RemoteInv, PlaceShape, RemoteEntries
<1>3. DataShape
  BY DEF Init, DataShape
<1> QED
  BY <1>1, <1>2, <1>3, InitOnce DEF FdInv

(* No descriptor of a memfd is lost, for any ranks, files and bounds: each *)
(* open one belongs to an entry of Storage, or to a file of which a remote *)
(* load failed after memfdCalloc (ClientUtil::LoadRemote, Storage::Save    *)
(* and Storage::Delete).                                                   *)
THEOREM NoDescriptorLostCorrect == Spec => []NoDescriptorLost
<1>1. FdInv => NoDescriptorLost
  BY DEF FdInv, MemInv, Entered, NoDescriptorLost
<1> QED
  BY InitFd, NextFd, LoaderAssumption, <1>1, PTL DEF Spec

-----------------------------------------------------------------------------
(* Data. What a step of the environment about file f leaves alone: the     *)
(* other files, and every descriptor of theirs.                            *)
EnvOf(f) == SaveBegin(f) \/ SaveEnd(f) \/ BackupBegin(f) \/ BackupEnd(f)
            \/ Persisted(f) \/ Evict(f) \/ Release(f)
MemKeeps(f) ==
  /\ \A g \in Files \ {f} : entry'[g] = entry[g]
  /\ \A m \in FdNumbers : fd[m].file \in Files \ {f} => fd'[m] = fd[m]
Keeps(g) == /\ row'[g] = row[g] /\ saves'[g] = saves[g] /\ remote'[g] = remote[g]
            /\ (g \in saving') = (g \in saving)
            /\ (g \in copying') = (g \in copying)
            /\ (g \in evicted') = (g \in evicted)

LEMMA HoldKeeps ==
  ASSUME LoaderAssumption, FdInv, NEW f \in Files, NEW d \in Int, Hold(f, d), UNCHANGED failed
  PROVE  /\ MemKeeps(f)
         /\ entry'[f] # NoFd /\ fd'[entry'[f]].data = d
<1>1. PICK n \in FdNumbers : Held(f, d, n)
  BY HoldMem DEF FdInv
<1>2. Closed.file = NoFile /\ NoFile \notin Files /\ n # NoFd
  BY FdNumber DEF Closed, LoaderAssumption
<1>3. \A m \in FdNumbers : fd[m].file \in Files \ {f} => fd'[m] = fd[m]
  BY <1>1, <1>2 DEF Held
<1> QED
  BY <1>1, <1>2, <1>3 DEF Held, MemKeeps

LEMMA EnvKeeps ==
  ASSUME LoaderAssumption, FdInv, IntactInv, NEW f \in Files, EnvOf(f)
  PROVE  /\ MemKeeps(f)
         /\ \A g \in Files \ {f} : Keeps(g)
         /\ UNCHANGED <<place, loadVars, rankVars>>
<1>0. Torn \in Int /\ saves[f] \in Int /\ remote[f] \in Int
  BY DEF Torn, FdInv, DataShape
<1>1. UNCHANGED <<place, loadVars, rankVars, failed>>
  BY DEF EnvOf, SaveBegin, SaveEnd, BackupBegin, BackupEnd, Persisted, Evict, Release, loadVars
<1>2. \A g \in Files \ {f} : Keeps(g)
  BY DEF EnvOf, SaveBegin, SaveEnd, BackupBegin, BackupEnd, Persisted, Evict, Release, Keeps,
         FdInv, DataShape, IntactInv, SavedShape
<1>3. ASSUME UNCHANGED memVars PROVE MemKeeps(f)
  BY <1>3 DEF memVars, MemKeeps
<1>4. ASSUME NEW d \in Int, Hold(f, d) PROVE MemKeeps(f)
  BY <1>1, <1>4, HoldKeeps
<1>5. ASSUME Release(f), ~UNCHANGED memVars PROVE MemKeeps(f)
  <2>1. /\ entry[f] # NoFd /\ fd' = [fd EXCEPT ![entry[f]] = Closed]
        /\ entry' = [entry EXCEPT ![f] = NoFd]
    BY <1>5 DEF Release
  <2>2. /\ \A g \in Files \ {f} : entry'[g] = entry[g]
        /\ \A m \in FdNumbers : fd'[m] = fd[m] \/ fd[m].file = f
    BY <1>1, <2>1, ReleaseMem DEF FdInv
  <2> QED
    BY <2>2 DEF MemKeeps
<1>6. MemKeeps(f)
  BY <1>0, <1>3, <1>4, <1>5
     DEF EnvOf, SaveBegin, SaveEnd, BackupBegin, BackupEnd, Persisted, Evict
<1> QED
  BY <1>1, <1>2, <1>6

(* A file whose row, data and memory are left alone is as it was, while it *)
(* is not newly listed as ready.                                           *)
LEMMA FileKeeps ==
  ASSUME FdInv, NEW f, NEW g \in Files \ {f}, FileInv(g), MemKeeps(f), Keeps(g),
         UNCHANGED place,
         ongoing_files'[g] = "ready" => ongoing_files[g] = "ready"
  PROVE  FileInv(g)'
<1>1. Whole(g) => Whole(g)'
  <2> SUFFICES ASSUME Whole(g) PROVE Whole(g)'
    OBVIOUS
  <2>1. entry[g] \in FdNumbers /\ fd[entry[g]].file = g
    BY DEF Whole, FdInv, MemInv, FdShape, EntryNames
  <2> QED
    BY <2>1 DEF Whole, MemKeeps
<1>2. Good(g)' = Good(g) /\ Unsaved(g)' = Unsaved(g) /\ RowTrue(g)' = RowTrue(g)
  BY DEF Keeps, Good, Unsaved, RowTrue
<1>3. DataTrue(g) => DataTrue(g)'
  BY <1>1 DEF Keeps, DataTrue
<1>4. saves'[g] = saves[g]
  BY DEF Keeps
<1> QED
  BY <1>2, <1>3, <1>4 DEF FileInv

(* The file of the step itself.                                            *)
LEMMA EnvFile ==
  ASSUME LoaderAssumption, FdInv, IntactInv, NEW f \in Files, EnvOf(f)
  PROVE  FileInv(f)'
<1>0. Torn \in Int /\ saves[f] \in Nat /\ remote[f] \in Int /\ row[f] \in Rows
  BY DEF Torn, FdInv, DataShape, IntactInv, SavedShape
<1>1. FileInv(f) /\ (ongoing_files[f] = "ready" => Asked(f))
  BY DEF IntactInv, Requests
<1>2. UNCHANGED <<place, ongoing_files, failed>>
  BY EnvKeeps DEF loadVars
<1>3. CASE SaveBegin(f)
  <2>1. saves'[f] = saves[f] + 1 /\ row'[f] = "PENDING" /\ f \in saving'
        /\ UNCHANGED <<copying, evicted>>
    BY <1>3 DEF SaveBegin, FdInv, DataShape, IntactInv, SavedShape
  <2>2. saves'[f] # 0 /\ (Good(f)' => saves[f] = 0)
    BY <1>0, <2>1 DEF Good
  <2>3. Good(f)' => RowTrue(f)'
    BY <1>1, <2>1, <2>2 DEF RowTrue, FileInv, Unsaved
  <2>4. Good(f)' => DataTrue(f)'
    BY <1>1, <1>2, <2>1, <2>2 DEF DataTrue, Asked
  <2> QED
    BY <2>2, <2>3, <2>4 DEF FileInv
<1>4. CASE SaveEnd(f)
  <2>1. row'[f] = "CACHED" /\ f \notin saving' /\ f \in saving
        /\ UNCHANGED <<saves, copying, evicted>>
    BY <1>4 DEF SaveEnd, FdInv, DataShape, IntactInv, SavedShape
  <2>2. saves'[f] # 0 /\ Good(f)' = Good(f) /\ ongoing_files'[f] = ongoing_files[f]
    BY <1>1, <1>2, <2>1 DEF Good, FileInv, Unsaved
  <2>3. Good(f) => row[f] = "PENDING" /\ f \notin copying /\ ongoing_files[f] # "ready"
    BY <1>1, <2>1 DEF FileInv, RowTrue, Asked
  <2>4. Good(f) => RowTrue(f)'
    BY <2>1, <2>3 DEF RowTrue
  <2>5. Good(f) /\ place[f] = "own" => Whole(f)'
    BY <1>0, <1>2, <1>4, HoldKeeps DEF SaveEnd, Good, Whole
  <2>6. Good(f) /\ place[f] # "own" => remote'[f] = 1
    BY <1>4 DEF SaveEnd, Good, FdInv, DataShape
  <2>7. Good(f) => DataTrue(f)'
    BY <1>2, <2>1, <2>2, <2>3, <2>5, <2>6 DEF DataTrue
  <2> QED
    BY <2>2, <2>4, <2>7 DEF FileInv
<1>5. CASE BackupBegin(f)
  <2>1. row[f] = "CACHED" /\ place[f] = "backup"
        /\ UNCHANGED <<row, saves, saving, remote, evicted>>
    BY <1>5 DEF BackupBegin
  <2>2. saves'[f] # 0 /\ Good(f)' = Good(f)
    BY <1>1, <2>1 DEF Good, FileInv, Unsaved, NONE
  <2>3. Good(f) => RowTrue(f)'
    BY <1>1, <2>1 DEF RowTrue, FileInv
  <2>4. Good(f) => DataTrue(f)'
    BY <1>1, <1>2, <2>1 DEF DataTrue, FileInv
  <2> QED
    BY <2>2, <2>3, <2>4 DEF FileInv
<1>6. CASE BackupEnd(f)
  <2>1. row'[f] = "BACKED_UP" /\ f \in copying /\ f \notin copying' /\ f \notin saving
        /\ Hold(f, remote[f]) /\ UNCHANGED <<saves, saving, remote, evicted>>
    BY <1>6 DEF BackupEnd, IntactInv, SavedShape
  <2>2. saves'[f] # 0 /\ Good(f)' = Good(f) /\ place[f] = "backup"
    BY <1>1, <2>1 DEF Good, FileInv, Unsaved, FdInv, RemoteInv, PlaceShape
  <2>3. Good(f) => row[f] = "CACHED" /\ remote[f] = 1
    BY <1>1, <2>1, <2>2 DEF FileInv, RowTrue, DataTrue
  <2>4. Good(f) => RowTrue(f)'
    BY <2>1 DEF RowTrue
  <2>5. entry'[f] # NoFd /\ fd'[entry'[f]].data = remote[f]
    BY <1>0, <1>2, <2>1, HoldKeeps
  <2>6. Good(f) => DataTrue(f)'
    BY <1>2, <2>1, <2>2, <2>3, <2>5 DEF DataTrue, Whole
  <2> QED
    BY <2>2, <2>4, <2>6 DEF FileInv
<1>7. CASE Persisted(f)
  <2>1. /\ row[f] = IF place[f] = "backup" THEN "BACKED_UP" ELSE "CACHED"
        /\ row'[f] = "PERSISTENT"
        /\ UNCHANGED <<saves, saving, copying, remote, evicted, entry, fd>>
    BY <1>7 DEF Persisted, IntactInv, SavedShape, memVars
  <2>2. saves'[f] # 0 /\ Good(f)' = Good(f) /\ Whole(f)' = Whole(f)
    BY <1>1, <2>1 DEF Good, Whole, FileInv, Unsaved, NONE
  <2>3. Good(f) => RowTrue(f)'
    BY <1>1, <2>1 DEF RowTrue, FileInv, FdInv, RemoteInv, PlaceShape
  <2>4. Good(f) => DataTrue(f)'
    BY <1>1, <1>2, <2>1, <2>2 DEF DataTrue, FileInv
  <2> QED
    BY <2>2, <2>3, <2>4 DEF FileInv
<1>8. CASE Evict(f)
  BY <1>1, <1>8 DEF Evict, FileInv, Good, Unsaved, NONE
<1>9. CASE Release(f)
  BY <1>1, <1>9 DEF Release, FileInv, Good, Unsaved, RowTrue, NONE
<1> QED
  BY <1>3, <1>4, <1>5, <1>6, <1>7, <1>8, <1>9 DEF EnvOf

(* Whoever saw the file complete still does.                               *)
LEMMA EnvAsked ==
  ASSUME LoaderAssumption, FdInv, IntactInv, NEW f \in Files, EnvOf(f), NEW g \in Files, Asked(g)
  PROVE  /\ Asked(g)'
         /\ Good(g)' => Good(g)
         /\ Good(g)' /\ row[g] \in {"BACKED_UP", "PERSISTENT"} =>
              row'[g] \in {"BACKED_UP", "PERSISTENT"}
         /\ Good(g)' /\ (place[g] = "backup" => row[g] # "CACHED") =>
              \A m \in FdNumbers : fd[m].file = g => fd'[m] = fd[m]
<1>0. saves[g] \in Nat /\ row[g] \in Rows /\ FileInv(g)
  BY DEF FdInv, DataShape, IntactInv, SavedShape
<1>1. CASE g # f
  <2>1. Keeps(g) /\ MemKeeps(f)
    BY <1>1, EnvKeeps
  <2> QED
    BY <1>1, <2>1 DEF Keeps, MemKeeps, Asked, Good
<1>2. CASE g = f
  <2>1. CASE SaveBegin(f)
    <3>1. saves'[g] = saves[g] + 1
      BY <1>2, <2>1 DEF SaveBegin, FdInv, DataShape
    <3>2. saves'[g] # 0 /\ ~Good(g)'
      BY <1>0, <3>1 DEF Good, Asked
    <3> QED
      BY <3>2 DEF Asked
  <2>2. CASE SaveEnd(f)
    <3>1. row'[g] = "CACHED" /\ g \in saving /\ UNCHANGED <<saves, evicted>>
      BY <1>2, <2>2 DEF SaveEnd, IntactInv, SavedShape
    <3>2. ~Good(g)
      BY <1>0, <3>1 DEF FileInv, RowTrue, Asked
    <3> QED
      BY <3>1, <3>2 DEF Asked, Good
  <2>3. CASE BackupBegin(f)
    <3>1. row[g] = "CACHED" /\ place[g] = "backup" /\ UNCHANGED <<row, saves, evicted>>
      BY <1>2, <2>3 DEF BackupBegin
    <3> QED
      BY <3>1 DEF Asked, Good
  <2>4. CASE BackupEnd(f)
    <3>1. row'[g] = "BACKED_UP" /\ g \in copying /\ UNCHANGED <<saves, evicted>>
      BY <1>2, <2>4 DEF BackupEnd, IntactInv, SavedShape
    <3>2. place[g] = "backup" /\ (Good(g) => row[g] = "CACHED")
      BY <1>0, <3>1 DEF FileInv, RowTrue, FdInv, RemoteInv, PlaceShape
    <3> QED
      BY <3>1, <3>2 DEF Asked, Good
  <2>5. CASE Persisted(f)
    <3>1. row'[g] = "PERSISTENT" /\ UNCHANGED <<saves, evicted, fd>>
      BY <1>2, <2>5 DEF Persisted, memVars, IntactInv, SavedShape
    <3> QED
      BY <3>1 DEF Asked, Good
  <2>6. CASE Evict(f)
    BY <1>2, <2>6 DEF Evict, Asked, Good
  <2>7. CASE Release(f)
    <3>1. row[g] = "OBSOLESCENT" /\ UNCHANGED <<row, saves, evicted>>
      BY <1>2, <2>7 DEF Release
    <3>2. ~Good(g)
      BY <1>0, <3>1 DEF FileInv, RowTrue
    <3> QED
      BY <3>1, <3>2 DEF Asked, Good
  <2> QED
    BY <2>1, <2>2, <2>3, <2>4, <2>5, <2>6, <2>7 DEF EnvOf
<1> QED
  BY <1>1, <1>2

(* Requests and ranks, while the environment works.                        *)
LEMMA EnvRank ==
  ASSUME LoaderAssumption, FdInv, IntactInv, NEW f \in Files, EnvOf(f), NEW r \in Ranks
  PROVE  RankInv(r)'
<1>0. PICK g : g = rfile[r]
  OBVIOUS
<1>9. RankInv(r) /\ rfd[r] \in FdNumbers \cup {NoFd}
  BY DEF IntactInv, SavedShape
<1>1. UNCHANGED <<place, ongoing_files, rpc, rfile, rsaw, rfd, got>>
  BY EnvKeeps DEF loadVars, rankVars
<1>2. CASE rpc[r] \notin Seen
  BY <1>1, <1>2 DEF RankInv, Seen
<1>3. CASE rpc[r] \in Seen
  <2>1. g \in Files /\ Asked(g)
    BY <1>0, <1>9, <1>3 DEF RankInv, Seen, FdInv, OnceInv, RankShape
  <2>2. /\ Asked(g)'
        /\ Good(g)' => Good(g)
        /\ Good(g)' /\ row[g] \in {"BACKED_UP", "PERSISTENT"} =>
             row'[g] \in {"BACKED_UP", "PERSISTENT"}
        /\ Good(g)' /\ (place[g] = "backup" => row[g] # "CACHED") =>
             \A m \in FdNumbers : fd[m].file = g => fd'[m] = fd[m]
    BY <2>1, EnvAsked
  <2>3. Eligible(r)' => Good(g)' /\ Eligible(r)
    BY <1>0, <1>1, <2>2 DEF Eligible, Good
  <2>4. place[g] = "backup" /\ Eligible(r)' =>
          row[g] \in {"BACKED_UP", "PERSISTENT"} /\ row'[g] \in {"BACKED_UP", "PERSISTENT"}
    BY <1>0, <1>9, <1>3, <2>2, <2>3 DEF RankInv
  <2>5. rpc[r] = "open" /\ Eligible(r)' =>
          rfd[r] # NoFd /\ fd'[rfd[r]] = [file |-> g, data |-> 1]
    <3> SUFFICES ASSUME rpc[r] = "open", Eligible(r)'
                 PROVE  rfd[r] # NoFd /\ fd'[rfd[r]] = [file |-> g, data |-> 1]
      OBVIOUS
    <3>1. rfd[r] \in FdNumbers /\ fd[rfd[r]] = [file |-> g, data |-> 1]
      BY <1>0, <1>9, <2>3 DEF RankInv
    <3>2. fd[rfd[r]].file = g
      BY <3>1
    <3> QED
      BY <2>2, <2>3, <2>4, <3>1, <3>2, FdNumber
  <2>6. rpc[r] = "loaded" /\ Eligible(r)' => got[r] = [file |-> g, data |-> 1]
    BY <1>0, <1>9, <2>3 DEF RankInv
  <2>7. rpc[r] \in {"storage", "open", "loaded"} /\ place[g] = "remote" =>
          ongoing_files[g] = "ready"
    BY <1>0, <1>9 DEF RankInv
  <2> QED
    BY <1>0, <1>1, <2>2, <2>4, <2>5, <2>6, <2>7 DEF RankInv, Asked, Good
<1> QED
  BY <1>2, <1>3

LEMMA EnvRequests ==
  ASSUME LoaderAssumption, FdInv, IntactInv, NEW f \in Files, EnvOf(f)
  PROVE  Requests'
<1>1. UNCHANGED <<req_ch, ongoing_files, wpc, wkey, wsave>>
  BY EnvKeeps DEF loadVars
<1>2. req_ch \in Seq(Files) /\ (wpc # "take" => wkey \in Files)
  BY DEF FdInv, OnceInv, LoaderShape, Working
<1>3. \A g \in Files : Asked(g) => Asked(g)' /\ (Good(g)' => Good(g))
  BY EnvAsked
<1>4. \A i \in 1 .. Len(req_ch) : req_ch[i] \in Files /\ Asked(req_ch[i])
  BY <1>2 DEF IntactInv, Requests
<1>5. (\A i \in 1 .. Len(req_ch) : Asked(req_ch[i]))'
  <2> SUFFICES ASSUME NEW i \in 1 .. Len(req_ch), NEW g, g = req_ch[i] PROVE Asked(g)'
    BY <1>1 DEF Asked, Good
  <2> QED
    BY <1>3, <1>4
<1>6. (/\ wpc # "take" => Asked(wkey)
       /\ wpc = "read" /\ Good(wkey) => wsave = 1)'
  <2> SUFFICES ASSUME NEW g, g = wkey, wpc # "take"
               PROVE  Asked(g)' /\ (wpc = "read" /\ Good(g)' => wsave = 1)
    BY <1>1 DEF Asked, Good
  <2> QED
    BY <1>2, <1>3 DEF IntactInv, Requests
<1>7. \A g \in Files : ongoing_files[g] = "ready" => Asked(g)'
  BY <1>3 DEF IntactInv, Requests
<1> QED
  BY <1>1, <1>5, <1>6, <1>7 DEF Requests

LEMMA EnvShape ==
  ASSUME FdInv, IntactInv, NEW f \in Files, EnvOf(f)
  PROVE  SavedShape'
<1>1. {"PENDING", "CACHED", "BACKED_UP", "PERSISTENT", "OBSOLESCENT"} \subseteq Rows
  BY DEF Rows
<1>2. UNCHANGED <<rsaw, rfd, got>>
  BY DEF EnvOf, SaveBegin, SaveEnd, BackupBegin, BackupEnd, Persisted, Evict, Release, rankVars
<1>3. row' \in [Files -> Rows] /\ saving' \subseteq Files
  BY <1>1 DEF EnvOf, SaveBegin, SaveEnd, BackupBegin, BackupEnd, Persisted, Evict, Release,
     IntactInv, SavedShape
<1> QED
  BY <1>2, <1>3 DEF IntactInv, SavedShape

LEMMA EnvironmentIntact ==
  ASSUME LoaderAssumption, FdInv, IntactInv, NEW f \in Files, EnvOf(f)
  PROVE  IntactInv'
<1>1. ASSUME NEW g \in Files PROVE FileInv(g)'
  <2>1. CASE g = f
    BY <2>1, EnvFile
  <2>2. CASE g # f
    <3>1. Keeps(g) /\ MemKeeps(f) /\ UNCHANGED <<place, ongoing_files>> /\ FileInv(g)
      BY <2>2, EnvKeeps DEF loadVars, IntactInv
    <3> QED
      BY <2>2, <3>1, FileKeeps
  <2> QED
    BY <2>1, <2>2
<1>2. \A r \in Ranks : RankInv(r)'
  BY EnvRank
<1> QED
  BY <1>1, <1>2, EnvRequests, EnvShape DEF IntactInv

-----------------------------------------------------------------------------
(* The loader's thread: rows and saves stay, memory of one file changes.   *)
LEMMA LoaderRank ==
  ASSUME FdInv, IntactInv, NEW k \in Files, MemKeeps(k), ongoing_files[k] # "ready",
         place[k] = "remote", UNCHANGED <<envVars, rankVars>>, NEW r \in Ranks,
         \A g \in Files : ongoing_files[g] = "ready" => ongoing_files'[g] = "ready"
  PROVE  RankInv(r)'
<1> DEFINE g == rfile[r]
<1>0. RankInv(r) /\ rfd[r] \in FdNumbers \cup {NoFd}
  BY DEF IntactInv, SavedShape
<1>1. UNCHANGED <<place, row, saves, evicted, rpc, rfile, rsaw, rfd, got>>
  BY DEF envVars, rankVars
<1>2. Eligible(r)' = Eligible(r) /\ Asked(g)' = Asked(g)
  BY <1>1 DEF Eligible, Asked, Good
<1>3. rpc[r] # "idle" => g \in Files
  BY DEF FdInv, OnceInv, RankShape
<1>4. rpc[r] = "open" /\ Eligible(r) => fd'[rfd[r]] = [file |-> g, data |-> 1]
  <2> SUFFICES ASSUME rpc[r] = "open", Eligible(r)
               PROVE  fd'[rfd[r]] = [file |-> g, data |-> 1]
    OBVIOUS
  <2>1. rfd[r] \in FdNumbers /\ fd[rfd[r]] = [file |-> g, data |-> 1] /\ g \in Files
    BY <1>0, <1>3 DEF RankInv
  <2>2. g # k
    BY <1>0 DEF RankInv
  <2>3. fd[rfd[r]].file = g
    BY <2>1
  <2> QED
    BY <2>1, <2>2, <2>3 DEF MemKeeps
<1> QED
  BY <1>0, <1>1, <1>2, <1>3, <1>4 DEF RankInv

LEMMA TakeIntact == ASSUME FdInv, IntactInv, Take PROVE IntactInv'
<1> DEFINE k == Head(req_ch)
<1>1. req_ch \in Seq(Files) /\ req_ch # <<>> /\ req_ch' = Tail(req_ch) /\ k \in Files
  BY DEF Take, FdInv, OnceInv, LoaderShape
<1>2. UNCHANGED <<envVars, entry, fd, rankVars>> /\ wpc = "take"
  BY DEF Take, memVars
<1>3. UNCHANGED <<place, row, saves, saving, remote, copying, evicted, rpc, rfile, rsaw, rfd, got>>
  BY <1>2 DEF envVars, rankVars
<1>4. /\ \A g \in Files : ongoing_files'[g] = "ready" <=> ongoing_files[g] = "ready"
      /\ wpc' = "take" \/ (wpc' = "request" /\ wkey' = k)
  BY <1>1, <1>2 DEF Take, SafeInsert, Listed, FdInv, OnceInv, LoaderShape
<1>5. Asked(k) /\ \A i \in 1 .. Len(req_ch') : Asked(req_ch'[i])
  BY <1>1 DEF IntactInv, Requests
<1>6. Requests'
  <2>0. \A g : Asked(g)' = Asked(g)
    BY <1>3 DEF Asked, Good
  <2>1. (\A i \in 1 .. Len(req_ch) : Asked(req_ch[i]))'
    BY <1>3, <1>5 DEF Asked, Good
  <2>2. (wpc # "take" => Asked(wkey))'
    BY <1>3, <1>4, <1>5 DEF Asked, Good
  <2>3. \A g \in Files : ongoing_files'[g] = "ready" => Asked(g)'
    BY <1>4, <2>0 DEF IntactInv, Requests
  <2>4. wpc' # "read"
    BY <1>4
  <2> QED
    BY <2>1, <2>2, <2>3, <2>4 DEF Requests
<1>7. SavedShape'
  BY <1>3 DEF IntactInv, SavedShape
<1>8. \A g \in Files : FileInv(g)'
  BY <1>2, <1>3, <1>4 DEF IntactInv, FileInv, Good, Unsaved, RowTrue, DataTrue, Whole
<1>9. ASSUME NEW r \in Ranks PROVE RankInv(r)'
  <2>1. rpc[r] # "idle" => rfile[r] \in Files
    BY DEF FdInv, OnceInv, RankShape
  <2>2. RankInv(r)
    BY DEF IntactInv
  <2> QED
    BY <1>2, <1>3, <1>4, <2>1, <2>2 DEF RankInv, Eligible, Asked, Good
<1> QED
  BY <1>6, <1>7, <1>8, <1>9 DEF IntactInv

(* The thread leaves file k, which is not listed as ready afterwards.      *)
LEMMA GiveUpIntact ==
  ASSUME FdInv, IntactInv, wpc # "take", GiveUp, UNCHANGED <<envVars, entry, fd, rankVars>>
  PROVE  IntactInv'
<1>0. wkey \in Files /\ ongoing_files[wkey] = "loading" /\ place[wkey] = "remote"
  BY DEF FdInv, OnceInv, Working, RemoteInv, PlaceShape
<1>1. UNCHANGED <<place, row, saves, saving, remote, copying, evicted, rpc, rfile, rsaw, rfd, got,
                  req_ch>>
  BY DEF envVars, rankVars, GiveUp
<1>2. \A g \in Files : ongoing_files'[g] = "ready" <=> ongoing_files[g] = "ready"
  BY <1>0 DEF GiveUp, FdInv, OnceInv, LoaderShape
<1>3. wpc' = "take"
  BY DEF GiveUp
<1>4. \A g : Asked(g)' = Asked(g)
  BY <1>1 DEF Asked, Good
<1>5. Requests'
  <2>1. (\A i \in 1 .. Len(req_ch) : Asked(req_ch[i]))'
    BY <1>1 DEF Asked, Good, IntactInv, Requests
  <2>2. \A g \in Files : ongoing_files'[g] = "ready" => Asked(g)'
    BY <1>2, <1>4 DEF IntactInv, Requests
  <2> QED
    BY <1>3, <2>1, <2>2 DEF Requests
<1>6. SavedShape'
  BY <1>1 DEF IntactInv, SavedShape
<1>7. \A g \in Files : FileInv(g)'
  BY <1>1, <1>2 DEF IntactInv, FileInv, Good, Unsaved, RowTrue, DataTrue, Whole
<1>8. MemKeeps(wkey)
  BY DEF MemKeeps
<1>9. ASSUME NEW r \in Ranks PROVE RankInv(r)'
  BY <1>0, <1>2, <1>8, LoaderRank
<1> QED
  BY <1>5, <1>6, <1>7, <1>9 DEF IntactInv

LEMMA LoadRemoteBeginIntact ==
  ASSUME LoaderAssumption, FdInv, IntactInv, LoadRemoteBegin
  PROVE  IntactInv'
<1>0. wkey \in Files /\ ongoing_files[wkey] = "loading" /\ wpc = "request"
      /\ place[wkey] = "remote"
  BY DEF FdInv, OnceInv, Working, LoadRemoteBegin, RemoteInv, PlaceShape
<1>1. CASE GiveUp /\ UNCHANGED memVars
  BY <1>0, <1>1, GiveUpIntact DEF LoadRemoteBegin, memVars
<1>2. ASSUME NEW n \in FdNumbers, FreeFd(n), entry' = [entry EXCEPT ![wkey] = n],
             fd' = [fd EXCEPT ![n] = [file |-> wkey, data |-> Torn]], wpc' = "read",
             wsave' = remote[wkey], UNCHANGED <<req_ch, ongoing_files, wkey>>
      PROVE  IntactInv'
  <2>1. UNCHANGED <<place, row, saves, saving, remote, copying, evicted, rpc, rfile, rsaw, rfd,
                    got>>
    BY DEF LoadRemoteBegin, envVars, rankVars
  <2>2. MemKeeps(wkey)
    <3>1. fd[n].file \notin Files
      BY <1>2 DEF FreeFd, Closed, LoaderAssumption
    <3> QED
      BY <1>0, <1>2, <3>1 DEF MemKeeps, FdInv, MemInv, FdShape
  <2>3. ASSUME NEW r \in Ranks PROVE RankInv(r)'
    BY <1>0, <1>2, <2>2, LoaderRank DEF LoadRemoteBegin
  <2>4. ASSUME NEW g \in Files PROVE FileInv(g)'
    <3>1. CASE g = wkey
      BY <1>0, <1>2, <2>1, <3>1
         DEF IntactInv, FileInv, Good, Unsaved, RowTrue, DataTrue
    <3>2. CASE g # wkey
      <4>1. Keeps(g) /\ FileInv(g)
        BY <2>1 DEF Keeps, IntactInv
      <4> QED
        BY <1>2, <2>1, <2>2, <3>2, <4>1, FileKeeps
    <3> QED
      BY <3>1, <3>2
  <2>5. SavedShape'
    BY <2>1 DEF IntactInv, SavedShape
  <2>6. Good(wkey) => remote[wkey] = 1
    BY <1>0 DEF IntactInv, FileInv, DataTrue, Requests, Asked
  <2>7. Requests'
    BY <1>0, <1>2, <2>1, <2>6 DEF IntactInv, Requests, Asked, Good
  <2> QED
    BY <2>3, <2>4, <2>5, <2>7 DEF IntactInv
<1> QED
  BY <1>1, <1>2 DEF LoadRemoteBegin

LEMMA LoadRemoteEndIntact ==
  ASSUME LoaderAssumption, FdInv, IntactInv, LoadRemoteEnd
  PROVE  IntactInv'
<1>0. wkey \in Files /\ ongoing_files[wkey] = "loading" /\ wpc = "read"
      /\ place[wkey] = "remote" /\ entry[wkey] # NoFd
      /\ entry[wkey] \in FdNumbers /\ fd[entry[wkey]].file = wkey
  BY DEF FdInv, OnceInv, Working, LoadRemoteEnd, RemoteInv, PlaceShape, MemInv, FdShape, EntryNames
<1>1. CASE GiveUp /\ UNCHANGED fd
  BY <1>0, <1>1, GiveUpIntact DEF LoadRemoteEnd
<1>2. CASE /\ fd' = [fd EXCEPT ![entry[wkey]].data =
                       IF remote[wkey] = wsave THEN wsave ELSE Torn]
           /\ SafeUpdate(wkey) /\ wpc' = "take" /\ UNCHANGED req_ch
  <2>1. UNCHANGED <<place, row, saves, saving, remote, copying, evicted, rpc, rfile, rsaw, rfd,
                    got, entry>>
    BY DEF LoadRemoteEnd, envVars, rankVars
  <2>2. MemKeeps(wkey)
    BY <1>0, <1>2, <2>1 DEF MemKeeps, FdInv, MemInv, FdShape
  <2>3. \A g \in Files : ongoing_files'[g] = IF g = wkey THEN "ready" ELSE ongoing_files[g]
    BY <1>2 DEF SafeUpdate, FdInv, OnceInv, LoaderShape
  <2>4. ASSUME NEW r \in Ranks PROVE RankInv(r)'
    BY <1>0, <2>2, <2>3, LoaderRank DEF LoadRemoteEnd
  <2>5. Asked(wkey) /\ (Good(wkey) => wsave = 1)
    BY <1>0 DEF IntactInv, Requests
  <2>6. Good(wkey) => remote[wkey] = 1
    BY <1>0, <2>5 DEF IntactInv, FileInv, DataTrue, Asked
  <2>7. Good(wkey) => entry'[wkey] # NoFd /\ fd'[entry'[wkey]].data = 1
    <3>1. fd[entry[wkey]] \in [file : Files \cup {NoFile}, data : Int]
      BY <1>0 DEF FdInv, MemInv, FdShape
    <3>2. fd'[entry[wkey]] = [fd[entry[wkey]] EXCEPT !.data =
                                IF remote[wkey] = wsave THEN wsave ELSE Torn]
      BY <1>0, <1>2 DEF FdInv, MemInv, FdShape
    <3>3. Good(wkey) => fd'[entry[wkey]].data = 1
      BY <2>5, <2>6, <3>1, <3>2
    <3> QED
      BY <1>0, <2>1, <3>3
  <2>8. ASSUME NEW g \in Files PROVE FileInv(g)'
    <3>1. CASE g = wkey
      BY <1>0, <2>1, <2>7, <3>1
         DEF IntactInv, FileInv, Good, Unsaved, RowTrue, DataTrue, Whole
    <3>2. CASE g # wkey
      <4>1. Keeps(g) /\ FileInv(g)
        BY <2>1 DEF Keeps, IntactInv
      <4> QED
        BY <2>1, <2>2, <2>3, <3>2, <4>1, FileKeeps
    <3> QED
      BY <3>1, <3>2
  <2>9. SavedShape'
    BY <2>1 DEF IntactInv, SavedShape
  <2>10. Requests'
    <3>1. \A g : Asked(g)' = Asked(g)
      BY <2>1 DEF Asked, Good
    <3>2. (\A i \in 1 .. Len(req_ch) : Asked(req_ch[i]))'
      BY <1>2, <2>1 DEF Asked, Good, IntactInv, Requests
    <3>3. \A g \in Files : ongoing_files'[g] = "ready" => Asked(g)'
      BY <2>3, <2>5, <3>1 DEF IntactInv, Requests
    <3> QED
      BY <1>2, <3>2, <3>3 DEF Requests
  <2> QED
    BY <2>4, <2>8, <2>9, <2>10 DEF IntactInv
<1>3. CASE wpc' = "stuck" /\ UNCHANGED <<fd, req_ch, ongoing_files, wkey, wsave>>
  <2>1. UNCHANGED <<place, row, saves, saving, remote, copying, evicted, rpc, rfile, rsaw, rfd,
                    got, entry>>
    BY DEF LoadRemoteEnd, envVars, rankVars
  <2>2. SavedShape' /\ \A g \in Files : FileInv(g)'
    BY <1>3, <2>1 DEF IntactInv, SavedShape, FileInv, Good, Unsaved, RowTrue, DataTrue, Whole
  <2>3. ASSUME NEW r \in Ranks PROVE RankInv(r)'
    BY <1>3, <2>1 DEF IntactInv, RankInv, Asked, Eligible, Good, Seen
  <2>4. Requests'
    BY <1>0, <1>3, <2>1 DEF IntactInv, Requests, Asked, Good
  <2> QED
    BY <2>2, <2>3, <2>4 DEF IntactInv
<1> QED
  BY <1>1, <1>2, <1>3 DEF LoadRemoteEnd

-----------------------------------------------------------------------------
(* The ranks: only the rank's own state and the requests change.           *)
LEMMA RankOthers ==
  ASSUME FdInv, IntactInv, NEW r \in Ranks, Handler(r) \/ \E f \in Files : Ask(r, f)
  PROVE  /\ UNCHANGED <<envVars, entry, fd, ongoing_files, wpc, wkey, wsave>>
         /\ SavedShape'
         /\ \A q \in Ranks \ {r} : /\ rpc'[q] = rpc[q] /\ rfile'[q] = rfile[q]
                                   /\ rsaw'[q] = rsaw[q] /\ rfd'[q] = rfd[q]
                                   /\ got'[q] = got[q]
<1>1. UNCHANGED <<envVars, entry, fd, ongoing_files, wpc, wkey, wsave>>
  BY DEF Handler, Ask, WaitReady, LoadRow, AddKey, WaitUntilFileReady, LookUp, Open, memVars,
         loadVars
<1>2. rpc[r] # "idle" => rfile[r] \in Files
  BY DEF FdInv, OnceInv, RankShape
<1>3. rsaw' \in [Ranks -> Rows]
  BY <1>2 DEF Handler, Ask, WaitReady, LoadRow, AddKey, WaitUntilFileReady, LookUp, Open,
     IntactInv, SavedShape
<1>4. rfd' \in [Ranks -> FdNumbers \cup {NoFd}]
  BY <1>2 DEF Handler, Ask, WaitReady, LoadRow, AddKey, WaitUntilFileReady, LookUp, Open,
     IntactInv, SavedShape, FdInv, MemInv, FdShape
<1>5. (got = [q \in Ranks |-> got[q]])'
  <2>1. UNCHANGED got \/ \E x : got' = [got EXCEPT ![r] = x]
    BY DEF Handler, Ask, WaitReady, LoadRow, AddKey, WaitUntilFileReady, LookUp, Open
  <2>2. DOMAIN got' = Ranks /\ got' = [q \in DOMAIN got' |-> got'[q]]
    BY <2>1 DEF IntactInv, SavedShape
  <2> QED
    BY <2>2
<1>6. \A q \in Ranks \ {r} : rpc'[q] = rpc[q] /\ rfile'[q] = rfile[q]
  BY DEF Handler, Ask, WaitReady, LoadRow, AddKey, WaitUntilFileReady, LookUp, Open, Goes,
         FdInv, OnceInv, RankShape
<1>7. \A q \in Ranks \ {r} : rsaw'[q] = rsaw[q] /\ rfd'[q] = rfd[q] /\ got'[q] = got[q]
  BY DEF Handler, Ask, WaitReady, LoadRow, AddKey, WaitUntilFileReady, LookUp, Open,
         IntactInv, SavedShape
<1>8. SavedShape'
  BY <1>1, <1>3, <1>4, <1>5 DEF IntactInv, SavedShape, envVars
<1> QED
  BY <1>1, <1>6, <1>7, <1>8

LEMMA RankOwn ==
  ASSUME LoaderAssumption, FdInv, IntactInv, NEW r \in Ranks,
         Handler(r) \/ \E f \in Files : Ask(r, f)
  PROVE  RankInv(r)'
<1>0. PICK g : g = rfile[r]
  OBVIOUS
<1>1. /\ UNCHANGED <<place, row, saves, evicted, entry, fd, ongoing_files>>
      /\ rpc[r] # "idle" => g \in Files
      /\ RankInv(r)
  BY <1>0, RankOthers DEF envVars, IntactInv, FdInv, OnceInv, RankShape
<1>2. rpc \in [Ranks -> RankPCs] /\ rsaw \in [Ranks -> Rows] /\ got = [q \in Ranks |-> got[q]]
      /\ rfd \in [Ranks -> FdNumbers \cup {NoFd}]
  BY DEF FdInv, OnceInv, RankShape, IntactInv, SavedShape
<1>3. CASE rpc'[r] \notin Seen
  BY <1>3 DEF RankInv, Seen
<1>4. CASE LoadRow(r) /\ rpc'[r] \in Seen
  <2>1. /\ g \in Files /\ UNCHANGED rfile /\ rsaw'[r] = row[g] /\ rpc'[r] = NextStep(g, row[g])
    BY <1>0, <1>1, <1>2, <1>4 DEF LoadRow, Goes, Seen
  <2>2. /\ rpc'[r] \in {"add", "storage"} /\ (rpc'[r] = "storage" => place[g] # "remote")
        /\ row[g] \notin {NONE, "OBSOLESCENT", "PENDING"}
    BY <1>4, <2>1 DEF NextStep, Seen
  <2>3. Asked(g) /\ row[g] \in Rows
    BY <2>1, <2>2 DEF IntactInv, FileInv, Unsaved, Asked, SavedShape
  <2>4. row[g] # "CACHED" => row[g] \in {"BACKED_UP", "PERSISTENT"}
    BY <2>2, <2>3 DEF Rows
  <2> QED
    BY <1>0, <1>1, <2>1, <2>2, <2>3, <2>4 DEF RankInv, Eligible, Asked, Good
<1>5. CASE AddKey(r)
  <2>1. UNCHANGED <<rfile, rsaw>> /\ rpc[r] = "add" /\ rpc'[r] = "poll"
    BY <1>2, <1>5 DEF AddKey, Goes
  <2> QED
    BY <1>1, <2>1 DEF RankInv, Eligible, Asked, Good, Seen
<1>6. CASE WaitUntilFileReady(r)
  <2>1. UNCHANGED <<rfile, rsaw>> /\ rpc[r] = "poll" /\ rpc'[r] = "storage"
        /\ ongoing_files[g] = "ready"
    BY <1>0, <1>2, <1>6 DEF WaitUntilFileReady, SafeRead, Goes
  <2> QED
    BY <1>0, <1>1, <2>1 DEF RankInv, Eligible, Asked, Good, Seen
<1>7. CASE LookUp(r) /\ rpc'[r] \in Seen
  <2>1. UNCHANGED <<rfile, rsaw>> /\ rpc[r] = "storage" /\ rpc'[r] = "open"
        /\ rfd'[r] = entry[g] /\ entry[g] # NoFd /\ g \in Files
    BY <1>0, <1>1, <1>2, <1>7 DEF LookUp, Goes, Seen
  <2>2. Eligible(r) => Whole(g)
    <3> SUFFICES ASSUME Eligible(r) PROVE Whole(g)
      OBVIOUS
    <3>1. Good(g) /\ row[g] # "PENDING"
          /\ (place[g] = "backup" => row[g] \in {"BACKED_UP", "PERSISTENT"})
          /\ (place[g] = "remote" => ongoing_files[g] = "ready")
      BY <1>0, <1>1, <2>1 DEF Eligible, RankInv, Seen, Asked
    <3>2. DataTrue(g) /\ place[g] \in {"own", "backup", "remote"}
      BY <2>1, <3>1 DEF IntactInv, FileInv, FdInv, RemoteInv, PlaceShape
    <3> QED
      BY <3>1, <3>2 DEF DataTrue
  <2>3. Whole(g) => fd[entry[g]] = [file |-> g, data |-> 1]
    <3>1. entry[g] \in FdNumbers /\ fd[entry[g]].file = g
          /\ fd[entry[g]] \in [file : Files \cup {NoFile}, data : Int]
      BY <2>1 DEF FdInv, MemInv, FdShape, EntryNames
    <3> QED
      BY <3>1 DEF Whole
  <2>4. Eligible(r)' = Eligible(r) /\ Asked(rfile[r])' = Asked(rfile[r])
    BY <1>1, <2>1 DEF Eligible, Asked, Good
  <2> QED
    BY <1>0, <1>1, <2>1, <2>2, <2>3, <2>4 DEF RankInv, Seen
<1>8. CASE Open(r) /\ rpc'[r] \in Seen
  <2>1. UNCHANGED <<rfile, rsaw>> /\ rpc[r] = "open" /\ rpc'[r] = "loaded"
    BY <1>2, <1>8 DEF Open, Goes, Seen
  <2>2. Eligible(r) => got'[r] = [file |-> g, data |-> 1]
    <3> SUFFICES ASSUME Eligible(r) PROVE got'[r] = [file |-> g, data |-> 1]
      OBVIOUS
    <3>1. fd[rfd[r]] = [file |-> g, data |-> 1]
      BY <1>0, <1>1, <2>1 DEF RankInv
    <3>2. fd[rfd[r]] # Closed
      <4>1. g # NoFile
        BY <1>1, <2>1 DEF LoaderAssumption
      <4>2. fd[rfd[r]].file = g /\ Closed.file = NoFile
        BY <3>1 DEF Closed
      <4> QED
        BY <4>1, <4>2
    <3>3. got' = [got EXCEPT ![r] = fd[rfd[r]]]
      BY <1>8, <3>2 DEF Open
    <3> QED
      BY <1>2, <3>1, <3>3
  <2>4. Eligible(r)' = Eligible(r) /\ Asked(rfile[r])' = Asked(rfile[r])
    BY <1>1, <2>1 DEF Eligible, Asked, Good
  <2> QED
    BY <1>0, <1>1, <2>1, <2>2, <2>4 DEF RankInv, Seen
<1>9. CASE WaitReady(r) \/ \E f \in Files : Ask(r, f)
  <2>1. rpc'[r] \notin Seen
    BY <1>2, <1>9 DEF WaitReady, Ask, Goes, Seen
  <2> QED
    BY <1>3, <2>1
<1> QED
  BY <1>3, <1>4, <1>5, <1>6, <1>7, <1>8, <1>9 DEF Handler

LEMMA RankIntact ==
  ASSUME LoaderAssumption, FdInv, IntactInv, NEW r \in Ranks,
         Handler(r) \/ \E f \in Files : Ask(r, f)
  PROVE  IntactInv'
<1>1. /\ UNCHANGED <<place, row, saves, saving, remote, copying, evicted, entry, fd, ongoing_files,
                     wpc, wkey, wsave>>
      /\ SavedShape'
      /\ \A q \in Ranks \ {r} : /\ rpc'[q] = rpc[q] /\ rfile'[q] = rfile[q]
                                /\ rsaw'[q] = rsaw[q] /\ rfd'[q] = rfd[q]
                                /\ got'[q] = got[q]
  BY RankOthers DEF envVars
<1>2. \A g \in Files : FileInv(g)'
  BY <1>1 DEF IntactInv, FileInv, Good, Unsaved, RowTrue, DataTrue, Whole
<1>3. ASSUME NEW q \in Ranks PROVE RankInv(q)'
  <2>1. CASE q = r
    BY <2>1, RankOwn
  <2>2. CASE q # r
    <3>1. RankInv(q)
      BY DEF IntactInv
    <3> QED
      BY <1>1, <2>2, <3>1 DEF RankInv, Eligible, Asked, Good
  <2> QED
    BY <2>1, <2>2
<1>4. (\A i \in 1 .. Len(req_ch) : Asked(req_ch[i]))'
  <2>1. CASE AddKey(r)
    <3>1. rfile[r] \in Files /\ Asked(rfile[r]) /\ req_ch \in Seq(Files)
      BY <2>1 DEF AddKey, FdInv, OnceInv, RankShape, LoaderShape, IntactInv, RankInv, Seen
    <3>2. req_ch' = Append(req_ch, rfile[r])
      BY <2>1 DEF AddKey
    <3>3. \A i \in 1 .. Len(req_ch') : Asked(req_ch'[i])
      BY <3>1, <3>2 DEF IntactInv, Requests
    <3> QED
      BY <1>1, <3>3 DEF Asked, Good
  <2>2. CASE ~AddKey(r)
    <3>1. UNCHANGED req_ch
      BY <2>2 DEF Handler, Ask, WaitReady, LoadRow, WaitUntilFileReady, LookUp, Open, loadVars
    <3> QED
      BY <1>1, <3>1 DEF Asked, Good, IntactInv, Requests
  <2> QED
    BY <2>1, <2>2
<1>5. Requests'
  BY <1>1, <1>4 DEF IntactInv, Requests, Asked, Good
<1> QED
  BY <1>1, <1>2, <1>3, <1>5 DEF IntactInv

-----------------------------------------------------------------------------
LEMMA NextIntact == LoaderAssumption /\ FdInv /\ IntactInv /\ [Next]_vars => IntactInv'
<1> SUFFICES ASSUME LoaderAssumption, FdInv, IntactInv, [Next]_vars PROVE IntactInv'
  OBVIOUS
<1>1. CASE Bootstrapped \/ UNCHANGED vars
  <2>1. UNCHANGED <<place, row, saves, saving, remote, copying, evicted, memVars, loadVars, rankVars>>
    BY <1>1 DEF Bootstrapped, vars, memVars, loadVars, rankVars
  <2>2. UNCHANGED <<entry, fd, req_ch, ongoing_files, wpc, wkey, wsave, rpc, rfile, rsaw, rfd, got>>
    BY <2>1 DEF memVars, loadVars, rankVars
  <2>3. SavedShape' /\ Requests'
    BY <2>1, <2>2 DEF IntactInv, SavedShape, Requests, Asked, Good
  <2>4. \A f \in Files : FileInv(f)'
    BY <2>1, <2>2 DEF IntactInv, FileInv, Good, Unsaved, RowTrue, DataTrue, Whole
  <2>5. \A r \in Ranks : RankInv(r)'
    BY <2>1, <2>2 DEF IntactInv, RankInv, Eligible, Asked, Good
  <2> QED
    BY <2>3, <2>4, <2>5 DEF IntactInv
<1>2. ASSUME NEW f \in Files, EnvOf(f) PROVE IntactInv'
  BY <1>2, EnvironmentIntact
<1>3. ASSUME NEW r \in Ranks, Handler(r) \/ \E f \in Files : Ask(r, f) PROVE IntactInv'
  BY <1>3, RankIntact
<1>4. CASE Reconcile
  BY <1>4, TakeIntact, LoadRemoteBeginIntact, LoadRemoteEndIntact DEF Reconcile
<1> QED
  BY <1>1, <1>2, <1>3, <1>4 DEF Next, Environment, EnvOf

LEMMA InitIntact == Init => IntactInv
<1> SUFFICES ASSUME Init PROVE IntactInv
  OBVIOUS
<1>1. SavedShape
  BY DEF Init, SavedShape, Rows
<1>2. \A f \in Files : FileInv(f)
  BY DEF Init, FileInv, Unsaved, Good
<1>3. Requests
  BY DEF Init, Requests
<1>4. \A r \in Ranks : RankInv(r)
  BY DEF Init, RankInv, Seen
<1> QED
  BY <1>1, <1>2, <1>3, <1>4 DEF IntactInv

(* A file that was saved once and not evicted is loaded as it was saved,   *)
(* for any ranks, files, requests and failures: whichever way              *)
(* HttpServiceImpl::getMetadata took, the memory it points a rank to holds *)
(* the complete data of that file, and stays so until the rank opens it.   *)
THEOREM LoadsIntactCorrect == Spec => []LoadsIntact
<1>1. OnceInv /\ IntactInv => LoadsIntact
  BY DEF OnceInv, IntactInv, RankInv, Eligible, Good, LoadsIntact
<1>2. Init => FdInv /\ IntactInv
  BY InitFd, InitIntact, LoaderAssumption
<1>3. FdInv /\ IntactInv /\ [Next]_vars => (FdInv /\ IntactInv)'
  BY NextFd, NextIntact, LoaderAssumption
<1>4. FdInv /\ IntactInv => LoadsIntact
  BY <1>1 DEF FdInv
<1> QED
  BY <1>2, <1>3, <1>4, PTL DEF Spec
=============================================================================
