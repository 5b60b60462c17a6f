------------------------------ MODULE Objects ------------------------------
(***************************************************************************)
(* One object of a remote bucket on the target that owns it: the requests  *)
(* that read, write and delete it (ais/tgtobj.go, ais/tgtfcold.go,         *)
(* ais/tgtimpl.go, ais/target.go, xact/xs/prefetch.go), the object's file  *)
(* and extended attributes (core/lfile.go, core/lom_xattr.go), the cache   *)
(* of LOM metadata (core/lom.go, core/lcache.go) and the backend's copy.   *)
(* Requests take and release the object's lock through NameLocker; here    *)
(* every unlock passes the mode the code passes, right or wrong.           *)
(*                                                                         *)
(* A version is named after the request that PUT it; Old is the version    *)
(* that was there before.  The target may crash: its memory (locks, cache, *)
(* requests) is lost, its disk and the backend are not.                    *)
(***************************************************************************)
EXTENDS NameLocker

CONSTANTS
    Obj,            \* the object's uname
    Old,            \* the version the cluster started with
    None,           \* no file, no attributes, no cached entry, no remote object
    Partial,        \* a file that coldStream is still writing
    KindsOf,        \* KindsOf[c]: what request c may be
    Policy,         \* write_policy.md: "immediate", "delayed" or "never"
    UplockTries,    \* _uplock.do calls that fit in timeout.cold_get_conflict
    MaxFaults,      \* bound: I/O and backend errors in one behaviour
    MaxCrashes      \* bound: crashes in one behaviour

Kinds == {"get", "latest", "put", "delete", "evict", "coldget", "trycold", "prefetch", "prelatest"}

VARIABLES
    req,            \* req[c]: what goroutine c does and its local LOM
    file, xattr,    \* the object's file: content version, and version of its metadata
    cache,          \* the mountpath's lcache entry: [ver, dirty]
    remote,         \* the backend's version
    hkmd,           \* the entry evct.f is looking at
    budget,         \* [faults, crashes] so far
    seen            \* what happened: versions the backend accepted (accepted), forced removals (forced),
                    \* the latest write to the file broken off before its attributes (torn), a file that
                    \* coldStream could not move aside, remove or put back (unclean)

objVars == <<req, file, xattr, cache, remote, hkmd, budget, seen>>
allVars == <<vars, objVars>>
disk == <<file, xattr>>

Versions == {Old} \cup Clients

ASSUME ObjAssumption ==
    /\ Obj \in Names /\ NumTries = 1
    /\ KindsOf \in [Clients -> SUBSET Kinds]
    /\ UplockTries \in Nat /\ MaxFaults \in Nat /\ MaxCrashes \in Nat
    /\ {None, Partial} \cap Versions = {} /\ None # Partial /\ Old \notin Clients

Entry(v, d) == [ver |-> v, dirty |-> d]
NoEntry == Entry(None, FALSE)
NoFile == <<None, None>>

ObjInit ==
    /\ Init
    /\ req \in [Clients -> [kind : Kinds, pc : {"start"}, md : {NoEntry}, rd : {None}, rev : {NoFile},
                            vch : {FALSE}, cold : {FALSE}, tries : {0}, res : {"none"}]]
    /\ \A c \in Clients : req[c].kind \in KindsOf[c]
    /\ file \in {None, Old} /\ xattr = file
    /\ cache \in {NoEntry, Entry(file, FALSE)}
    /\ remote \in {None, Old}
    /\ hkmd = NoEntry
    /\ budget = [faults |-> 0, crashes |-> 0]
    /\ seen = [accepted |-> {Old}, forced |-> FALSE, torn |-> FALSE, unclean |-> FALSE]

At(c, s) == req[c].pc = s
Is(c, ks) == req[c].kind \in ks
Gets == {"get", "latest"}
Prefetches == {"prefetch", "prelatest"}

\* request c goes on at s, or is answered; Set also assigns other fields
Set(c, r) == req' = [req EXCEPT ![c] = r]
To(c, s) == Set(c, [req[c] EXCEPT !.pc = s])
Answer(c, res) == Set(c, [req[c] EXCEPT !.pc = "done", !.res = res])

\* an operation of the disk or of the backend fails
Fault == budget.faults < MaxFaults /\ budget' = [budget EXCEPT !.faults = @ + 1]

\* lom.Unlock(exclusive), with the mode the caller passes
Unlk(c, exclusive) ==
    /\ m' = Unlock(m, Obj, exclusive)
    /\ held' = [held EXCEPT ![c][Obj] = "none"]
    /\ UNCHANGED call

\* lom.UncacheDel, lom.Uncache; lom.Recache, lcache.Store
UncacheDel == cache' = NoEntry
Recache(md) == cache' = md

\* lom.Load takes the cached metadata, else reads the file's
LoadedMD == IF cache # NoEntry THEN cache ELSE Entry(xattr, FALSE)
NotExist == cache = NoEntry /\ file = None
LmetaNotFound == cache = NoEntry /\ file # None /\ xattr = None
Loads == ~NotExist /\ ~LmetaNotFound

-----------------------------------------------------------------------------
(* the beginning of a request, up to its lock *)

Start(c) ==
    /\ At(c, "start")
    /\ \/ Is(c, Gets \cup Prefetches) /\ CallLock(c, Obj, FALSE) /\ To(c, "lock")
       \/ Is(c, {"delete", "evict", "coldget"}) /\ CallLock(c, Obj, TRUE) /\ To(c, "lock")
       \/ Is(c, {"trycold"}) /\ CallTry(c, Obj, TRUE) /\ To(c, "lock")
       \/ Is(c, {"put"}) /\ Set(c, [req[c] EXCEPT !.pc = "putremote", !.rd = c]) /\ UNCHANGED vars
    /\ UNCHANGED <<disk, cache, remote, hkmd, budget, seen>>

\* putObject: the checksum is that of the metadata loaded, without a lock, before: nothing
\* to do, neither here nor in the backend
PutSame(c) ==
    /\ At(c, "start") /\ Is(c, {"put"}) /\ Loads
    /\ Answer(c, "ok")
    /\ UNCHANGED <<vars, disk, cache, remote, hkmd, budget, seen>>

\* mutant: a GET that slept in _uplock.do goes on without loading again
LockedNoReload(c) ==
    /\ At(c, "lock")
    /\ Acquire(c)
    /\ To(c, CASE Is(c, Gets) -> IF req[c].tries > 0 THEN "cold" ELSE "load"
               [] Is(c, Prefetches) -> IF call[c].exclusive THEN "rename" ELSE "load"
               [] Is(c, {"coldget", "trycold"}) -> "fetch"
               [] Is(c, {"delete", "evict"}) -> "delete"
               [] Is(c, {"put"}) -> "rename")
    /\ UNCHANGED <<disk, cache, remote, hkmd, budget, seen>>

Locked(c) ==
    /\ At(c, "lock")
    /\ Acquire(c)
    /\ To(c, CASE Is(c, Gets) -> "load"
               [] Is(c, Prefetches) -> IF call[c].exclusive THEN "rename" ELSE "load"
               [] Is(c, {"coldget", "trycold"}) -> "fetch"
               [] Is(c, {"delete", "evict"}) -> "delete"
               [] Is(c, {"put"}) -> "rename")
    /\ UNCHANGED <<disk, cache, remote, hkmd, budget, seen>>

\* lom.TryLock fails: cmn.ErrSkip, and a prefetch drops what is cached
Busy(c) ==
    /\ At(c, "lock")
    /\ TryAgain(c)
    /\ Answer(c, "skip")
    /\ IF Is(c, Prefetches) THEN UncacheDel ELSE UNCHANGED cache
    /\ UNCHANGED <<disk, remote, hkmd, budget, seen>>

-----------------------------------------------------------------------------
(* GET, and the part of a prefetch that looks at what is there *)

Load(c) ==
    /\ At(c, "load")
    /\ \/ /\ Loads
          /\ Set(c, [req[c] EXCEPT !.pc = IF cache = NoEntry THEN "store" ELSE "loaded", !.md = LoadedMD])
          /\ UNCHANGED vars
       \/ /\ NotExist \/ (LmetaNotFound /\ Is(c, Prefetches))
          /\ Set(c, [req[c] EXCEPT !.pc = IF Is(c, Gets) THEN "cold" ELSE "loaded", !.md = NoEntry])
          /\ UNCHANGED vars
       \/ LmetaNotFound /\ Is(c, Gets) /\ Unlk(c, FALSE) /\ Answer(c, "err")
    /\ UNCHANGED <<disk, cache, remote, hkmd, budget, seen>>

\* the slow path of Load(cacheit), or expostfacto: two readers may both get here
Store(c) ==
    /\ \/ At(c, "store") /\ To(c, "loaded") /\ UNCHANGED vars
       \/ At(c, "recache") /\ Unlk(c, FALSE) /\ Answer(c, "ok")
    /\ Recache(req[c].md)
    /\ UNCHANGED <<disk, remote, hkmd, budget, seen>>

\* a GET that does not ask for the latest version; a prefetch of what is there
Loaded(c) ==
    /\ At(c, "loaded")
    /\ \/ Is(c, {"get"}) /\ To(c, "open") /\ UNCHANGED vars
       \/ Is(c, {"prefetch"}) /\ Unlk(c, FALSE)
             /\ IF req[c].md # NoEntry THEN Answer(c, "ok") ELSE To(c, "fetch")
    /\ UNCHANGED <<disk, cache, remote, hkmd, budget, seen>>

\* CheckRemoteMD under the read lock: the backend's version, its absence, or an error
CheckSame(c) ==
    /\ At(c, "loaded") /\ Is(c, {"latest", "prelatest"})
    /\ remote # None /\ remote = req[c].md.ver
    /\ IF Is(c, Gets) THEN To(c, "open") /\ UNCHANGED vars
                      ELSE Unlk(c, FALSE) /\ Answer(c, "ok")
    /\ UNCHANGED <<disk, cache, remote, hkmd, budget, seen>>

CheckDiffers(c) ==
    /\ At(c, "loaded") /\ Is(c, {"latest", "prelatest"})
    /\ remote \notin {None, req[c].md.ver}
    /\ \/ Is(c, Gets) /\ Set(c, [req[c] EXCEPT !.pc = "cold", !.vch = TRUE]) /\ UNCHANGED <<vars, cache>>
       \/ Is(c, Prefetches) /\ Unlk(c, FALSE) /\ To(c, "fetch")
             /\ IF req[c].md # NoEntry THEN UncacheDel ELSE UNCHANGED cache
    /\ UNCHANGED <<disk, remote, hkmd, budget, seen>>

CheckGone(c) ==
    /\ At(c, "loaded") /\ Is(c, {"latest", "prelatest"})
    /\ remote = None
    /\ UncacheDel
    /\ \/ Unlk(c, FALSE) /\ Answer(c, "notfound")
       \/ Is(c, Gets) /\ To(c, "rmforce") /\ UNCHANGED vars       \* versioning.sync
    /\ UNCHANGED <<disk, remote, hkmd, budget, seen>>

CheckFails(c) ==
    /\ At(c, "loaded") /\ Is(c, {"latest", "prelatest"})
    /\ Fault
    /\ UncacheDel /\ Unlk(c, FALSE) /\ Answer(c, "err")
    /\ UNCHANGED <<disk, remote, hkmd, seen>>

\* RemoveObj(force): the file goes while other readers may be at it
RemoveForced(c) ==
    /\ At(c, "rmforce")
    /\ file' = None /\ xattr' = None
    /\ seen' = [seen EXCEPT !.forced = TRUE]
    /\ Unlk(c, FALSE) /\ Answer(c, "notfound")
    /\ UNCHANGED <<cache, remote, hkmd, budget>>

-----------------------------------------------------------------------------
(* cold GET: the lock is upgraded by the lone reader only; others back off *)

ColdLock(c) ==
    /\ At(c, "cold")
    /\ Upgrade(c, Obj)
    /\ To(c, "fetch")
    /\ UNCHANGED <<disk, cache, remote, hkmd, budget, seen>>

\* mutant: the reader that is not alone waits for the write lock
UplockWaits(c) ==
    /\ At(c, "cold") /\ ~UpgradeOK(m, Obj)
    /\ call' = [call EXCEPT ![c] = [op |-> "lock", u |-> Obj, exclusive |-> TRUE]]
    /\ To(c, "lock")
    /\ UNCHANGED <<m, held, disk, cache, remote, hkmd, budget, seen>>

\* no capacity left (fs.Cap)
ColdRefused(c) ==
    /\ At(c, "cold")
    /\ Fault
    /\ Unlk(c, FALSE) /\ Answer(c, "err")
    /\ UNCHANGED <<disk, cache, remote, hkmd, seen>>

\* _uplock.do: let go, sleep, and begin again, or give up with a conflict
Uplock(c) ==
    /\ \/ /\ At(c, "cold") /\ ~UpgradeOK(m, Obj)
          /\ Unlk(c, FALSE)
          /\ IF req[c].tries = UplockTries THEN Answer(c, "conflict")
             ELSE Set(c, [req[c] EXCEPT !.pc = "sleep", !.tries = @ + 1])
       \/ At(c, "sleep") /\ CallLock(c, Obj, FALSE) /\ To(c, "lock")
    /\ UNCHANGED <<disk, cache, remote, hkmd, budget, seen>>

\* GetObjReader gives a reader of the version the backend has now; with the lock
\* (GET, GetCold) or without it (prefetch, which then tries the lock)
Fetch(c) ==
    /\ At(c, "fetch")
    /\ remote # None
    /\ IF Is(c, Prefetches)
       THEN Set(c, [req[c] EXCEPT !.pc = "lock", !.rd = remote]) /\ CallTry(c, Obj, TRUE)
       ELSE /\ \E next \in IF Is(c, Gets) THEN {"rename", "stream"} ELSE {"rename"} :
                  Set(c, [req[c] EXCEPT !.pc = next, !.rd = remote, !.cold = TRUE])
            /\ UNCHANGED vars
    /\ UNCHANGED <<disk, cache, remote, hkmd, budget, seen>>

\* no such object, a backend error, or no room for the work file
FetchFails(c) ==
    /\ At(c, "fetch")
    /\ \/ remote = None /\ UNCHANGED budget
       \/ Fault
    /\ Answer(c, IF remote = None THEN "notfound" ELSE "err")
    /\ IF Is(c, Gets) THEN UNCHANGED cache ELSE UncacheDel
    /\ IF Is(c, Prefetches) THEN UNCHANGED vars ELSE Unlk(c, TRUE)
    /\ UNCHANGED <<disk, remote, hkmd, seen>>

-----------------------------------------------------------------------------
(* PUT, and the writing half of every cold GET *)

\* putRemote comes before the lock
PutRemote(c) ==
    /\ At(c, "putremote") \/ At(c, "retry503")
    /\ remote' = c
    /\ seen' = [seen EXCEPT !.accepted = @ \cup {c}]
    /\ CallLock(c, Obj, TRUE) /\ To(c, "lock")
    /\ UNCHANGED <<disk, cache, hkmd, budget>>

\* the body is not received or not written to the work file
PutWriteFails(c) ==
    /\ At(c, "putremote")
    /\ Fault
    /\ Answer(c, "err")
    /\ UNCHANGED <<vars, disk, cache, remote, hkmd, seen>>

\* mutant: an error is ignored when the backend has some version of the object
PutRemoteFailsIgnored(c) ==
    /\ At(c, "putremote") /\ remote # None
    /\ Fault
    /\ CallLock(c, Obj, TRUE) /\ To(c, "lock")
    /\ UNCHANGED <<disk, cache, remote, hkmd, seen>>

\* an error of the backend, which may have taken the object
PutRemoteFails(c) ==
    /\ At(c, "putremote") \/ At(c, "retry503")
    /\ Fault
    /\ \/ UNCHANGED <<remote, seen>>
       \/ remote' = c /\ seen' = [seen EXCEPT !.accepted = @ \cup {c}]
    /\ \/ At(c, "putremote") /\ To(c, "retry503") /\ UNCHANGED cache
       \/ Answer(c, "err") /\ UncacheDel
    /\ UNCHANGED <<vars, disk, hkmd>>

\* RenameFinalize: the work file, which has no attributes, becomes the object
Rename(c) ==
    /\ At(c, "rename")
    /\ file' = req[c].rd /\ xattr' = None
    /\ seen' = [seen EXCEPT !.torn = FALSE]
    /\ To(c, "persist")
    /\ UNCHANGED <<vars, cache, remote, hkmd, budget>>

\* PersistMain of version v: attributes and cache, or the cache alone
Persisted(v) ==
    IF Policy = "immediate"
    THEN xattr' = v /\ Recache(Entry(v, FALSE))
    ELSE UNCHANGED xattr /\ Recache(Entry(v, TRUE))

\* mutant: coldPut does not load the object it has just written
PersistNoLoad(c) ==
    /\ At(c, "persist")
    /\ Persisted(req[c].rd)
    /\ IF Is(c, Gets)
       THEN Downgrade(c, Obj) /\ To(c, "open")
       ELSE Unlk(c, TRUE) /\ Answer(c, "ok")
    /\ UNCHANGED <<file, remote, hkmd, budget, seen>>

Persist(c) ==
    /\ At(c, "persist")
    /\ Persisted(req[c].rd)
    /\ IF Is(c, Gets)
       THEN Downgrade(c, Obj) /\ Set(c, [req[c] EXCEPT !.pc = "open", !.md = cache'])
       ELSE Unlk(c, TRUE) /\ Answer(c, "ok")
    /\ UNCHANGED <<file, remote, hkmd, budget, seen>>

\* mutant: PersistMain fails and leaves the cached entry
FiniFailsCached(c) ==
    /\ At(c, "rename") \/ (At(c, "persist") /\ Policy = "immediate")
    /\ Fault
    /\ Unlk(c, TRUE)
    /\ IF Is(c, {"put"} \cup Prefetches)
       THEN To(c, "uncache") /\ UNCHANGED cache
       ELSE Answer(c, "err") /\ UncacheDel
    /\ seen' = [seen EXCEPT !.torn = @ \/ At(c, "persist")]
    /\ UNCHANGED <<disk, remote, hkmd>>

\* mutant: finalize removes the object's file instead of the work file
FiniFailsRemoves(c) ==
    /\ At(c, "rename") \/ (At(c, "persist") /\ Policy = "immediate")
    /\ Fault
    /\ file' = None /\ xattr' = None
    /\ Unlk(c, TRUE)
    /\ IF Is(c, {"put"} \cup Prefetches)
       THEN To(c, "uncache") /\ IF At(c, "persist") THEN UncacheDel ELSE UNCHANGED cache
       ELSE Answer(c, "err") /\ UncacheDel
    /\ seen' = [seen EXCEPT !.torn = @ \/ At(c, "persist")]
    /\ UNCHANGED <<remote, hkmd>>

\* an error of RenameFinalize or PersistMain.  finalize drops the cached entry:
\* after fini's deferred unlock, or under the lock that the cold GET still has
FiniFails(c) ==
    /\ At(c, "rename") \/ (At(c, "persist") /\ Policy = "immediate")
    /\ Fault
    /\ Unlk(c, TRUE)
    /\ IF Is(c, {"put"} \cup Prefetches)
       THEN To(c, "uncache") /\ IF At(c, "persist") THEN UncacheDel ELSE UNCHANGED cache
       ELSE Answer(c, "err") /\ UncacheDel
    /\ seen' = [seen EXCEPT !.torn = @ \/ At(c, "persist")]
    /\ UNCHANGED <<disk, remote, hkmd>>

Cleanup(c) ==
    /\ At(c, "uncache")
    /\ UncacheDel
    /\ Answer(c, "err")
    /\ UNCHANGED <<vars, disk, remote, hkmd, budget, seen>>

-----------------------------------------------------------------------------
(* coldStream writes the object in place while the client reads it *)

\* the version to be replaced is moved aside
StreamCreate(c) ==
    /\ At(c, "stream")
    /\ Set(c, [req[c] EXCEPT !.pc = "copy", !.rev = IF req[c].vch THEN disk ELSE NoFile])
    /\ file' = Partial /\ xattr' = None
    /\ seen' = [seen EXCEPT !.torn = FALSE]
    /\ UNCHANGED <<vars, cache, remote, hkmd, budget>>

\* ... or cannot be: Create truncates it, and it keeps its attributes, which load as long
\* as the size they give is the file's
StreamOver(c) ==
    /\ At(c, "stream") /\ req[c].vch
    /\ Fault
    /\ To(c, "copy")
    /\ file' = Partial /\ xattr' \in {xattr, None}
    /\ seen' = [seen EXCEPT !.unclean = TRUE]
    /\ UNCHANGED <<vars, cache, remote, hkmd>>

StreamCopy(c) ==
    /\ At(c, "copy")
    /\ file' = req[c].rd
    /\ To(c, "persiststream")
    /\ UNCHANGED <<vars, xattr, cache, remote, hkmd, budget, seen>>

StreamPersist(c) ==
    /\ At(c, "persiststream")
    /\ Persisted(req[c].rd)
    /\ Unlk(c, TRUE) /\ Answer(c, "ok")
    /\ UNCHANGED <<file, remote, hkmd, budget, seen>>

\* _cleanup: remove what was written, put the previous version back; when the disk refuses
\* that too, there are two warnings, and the object is gone or stays as it was written
StreamFails(c) ==
    /\ At(c, "copy") \/ (At(c, "persiststream") /\ Policy = "immediate")
    /\ Fault
    /\ \E left \in {req[c].rev, NoFile, disk} :
          /\ file' = left[1] /\ xattr' = left[2]
          /\ seen' = [seen EXCEPT !.unclean = @ \/ left # req[c].rev]
    /\ IF At(c, "copy") THEN UNCHANGED cache ELSE UncacheDel
    /\ Unlk(c, TRUE) /\ Answer(c, "err")
    /\ UNCHANGED <<remote, hkmd>>

-----------------------------------------------------------------------------
(* txfini and expostfacto: the answer of a GET *)

Open(c) ==
    /\ At(c, "open")
    /\ IF file = None THEN Unlk(c, FALSE) /\ Answer(c, "notfound")
                      ELSE Set(c, [req[c] EXCEPT !.pc = "tx", !.rd = file]) /\ UNCHANGED vars
    /\ UNCHANGED <<disk, cache, remote, hkmd, budget, seen>>

\* after a cold GET there is nothing more to do; a warm one refreshes the cache
Transmit(c) ==
    /\ At(c, "tx")
    /\ IF req[c].cold \/ ~Loads THEN Unlk(c, FALSE) /\ Answer(c, "ok")
       ELSE Set(c, [req[c] EXCEPT !.pc = "recache", !.md = LoadedMD]) /\ UNCHANGED vars
    /\ UNCHANGED <<disk, cache, remote, hkmd, budget, seen>>

TransmitFails(c) ==
    /\ At(c, "tx")
    /\ Fault
    /\ Unlk(c, FALSE) /\ Answer(c, "err")
    /\ UNCHANGED <<disk, cache, remote, hkmd, seen>>

-----------------------------------------------------------------------------
(* DELETE and evict *)

DeleteLoad(c) ==
    /\ At(c, "delete")
    /\ \/ LmetaNotFound /\ file' = None /\ xattr' = None /\ Unlk(c, TRUE) /\ Answer(c, "ok")
       \/ /\ NotExist /\ UNCHANGED disk
          /\ IF Is(c, {"evict"}) THEN Unlk(c, TRUE) /\ Answer(c, "notfound")
                                 ELSE To(c, "delremote") /\ UNCHANGED vars
       \/ /\ Loads /\ UNCHANGED <<vars, disk>>
          /\ Set(c, [req[c] EXCEPT !.pc = IF Is(c, {"evict"}) THEN "delmain" ELSE "delremote",
                                !.md = LoadedMD])
    /\ UNCHANGED <<cache, remote, hkmd, budget, seen>>

\* the backend first; its error is kept for later
DeleteRemote(c) ==
    /\ At(c, "delremote")
    /\ \E res \in {"ok", "err"} :
          /\ \/ res = "ok" /\ remote' = None /\ UNCHANGED budget
             \/ res = "err" /\ remote' \in {remote, None} /\ Fault
          /\ IF req[c].md # NoEntry THEN Set(c, [req[c] EXCEPT !.pc = "delmain", !.res = res]) /\ UNCHANGED vars
             ELSE /\ Unlk(c, TRUE)
                  /\ Answer(c, res) \/ (res = "err" /\ Set(c, [req[c] EXCEPT !.pc = "delretry", !.res = res]))
    /\ UNCHANGED <<disk, cache, hkmd, seen>>

DeleteMain(c) ==
    /\ At(c, "delmain")
    /\ UncacheDel /\ file' = None /\ xattr' = None
    /\ Unlk(c, TRUE)
    /\ IF req[c].res = "err" THEN Answer(c, "err") \/ To(c, "delretry") ELSE Answer(c, "ok")
    /\ UNCHANGED <<remote, hkmd, budget, seen>>

DeleteMainFails(c) ==
    /\ At(c, "delmain")
    /\ Fault
    /\ UncacheDel /\ Unlk(c, TRUE) /\ Answer(c, "err")
    /\ UNCHANGED <<disk, remote, hkmd, seen>>

\* the backend said 503: once more, a second later and without the lock
DeleteRetry(c) ==
    /\ At(c, "delretry")
    /\ \/ remote' = None /\ Answer(c, "ok") /\ UNCHANGED budget
       \/ Fault /\ Answer(c, "err") /\ UNCHANGED remote
    /\ UNCHANGED <<vars, disk, cache, hkmd, seen>>

-----------------------------------------------------------------------------
(* lcache housekeeping takes no object lock; a crash spares only the disk *)

HkRange ==
    /\ hkmd = NoEntry /\ cache # NoEntry
    /\ hkmd' = cache
    /\ UNCHANGED <<vars, req, disk, cache, remote, budget, seen>>

\* evct.f on an entry of that age: flush it if dirty, delete whatever is there now
HkEvict ==
    /\ hkmd # NoEntry
    /\ hkmd' = NoEntry /\ UncacheDel
    /\ xattr' = IF hkmd.dirty /\ Policy # "never" /\ file # None THEN hkmd.ver ELSE xattr
    /\ UNCHANGED <<vars, req, file, remote, budget, seen>>

Crash ==
    /\ budget.crashes < MaxCrashes
    /\ budget' = [budget EXCEPT !.crashes = @ + 1]
    /\ m' = EmptyMap
    /\ held' = [c \in Clients |-> [u \in Names |-> "none"]]
    /\ call' = [c \in Clients |-> Idle]
    /\ cache' = NoEntry /\ hkmd' = NoEntry
    /\ req' = [c \in Clients |-> IF At(c, "start") \/ At(c, "done") THEN req[c]
                                 ELSE [req[c] EXCEPT !.pc = "done", !.res = "crash"]]
    /\ seen' = [seen EXCEPT !.torn = @ \/ \E c \in Clients : req[c].pc \in {"persist", "copy", "persiststream"}]
    /\ UNCHANGED <<disk, remote>>

Step(c) ==
    \/ Start(c) \/ PutSame(c) \/ Locked(c) \/ Busy(c) \/ Load(c) \/ Store(c) \/ Loaded(c)
    \/ CheckSame(c) \/ CheckDiffers(c) \/ CheckGone(c) \/ CheckFails(c) \/ RemoveForced(c)
    \/ ColdLock(c) \/ ColdRefused(c) \/ Uplock(c) \/ Fetch(c) \/ FetchFails(c)
    \/ PutWriteFails(c) \/ PutRemote(c) \/ PutRemoteFails(c) \/ Rename(c) \/ Persist(c)
    \/ FiniFails(c) \/ Cleanup(c)
    \/ StreamCreate(c) \/ StreamOver(c) \/ StreamCopy(c) \/ StreamPersist(c) \/ StreamFails(c)
    \/ Open(c) \/ Transmit(c) \/ TransmitFails(c)
    \/ DeleteLoad(c) \/ DeleteRemote(c) \/ DeleteMain(c) \/ DeleteMainFails(c) \/ DeleteRetry(c)

Requests == \E c \in Clients : Step(c)

ObjNext == Requests \/ HkRange \/ HkEvict \/ Crash

ObjSpec == ObjInit /\ [][ObjNext]_allVars

-----------------------------------------------------------------------------
PCs == {"start", "lock", "load", "store", "loaded", "rmforce", "cold", "sleep", "fetch",
        "putremote", "retry503", "rename", "persist", "uncache", "stream", "copy",
        "persiststream", "open", "tx", "recache", "delete", "delremote", "delmain",
        "delretry", "done"}
Results == {"none", "ok", "err", "notfound", "conflict", "skip", "crash"}
Entries == [ver : Versions \cup {None}, dirty : BOOLEAN]

\* the types of the requests, of the object's file, cache entry and remote copy
ObjTypeOK ==
    /\ req \in [Clients -> [kind : Kinds, pc : PCs, md : Entries, rd : Versions \cup {None, Partial},
                            rev : (Versions \cup {None, Partial}) \X (Versions \cup {None}),
                            vch : BOOLEAN, cold : BOOLEAN, tries : 0..UplockTries, res : Results]]
    /\ file \in Versions \cup {None, Partial} /\ xattr \in Versions \cup {None}
    /\ cache \in Entries /\ hkmd \in Entries
    /\ remote \in Versions \cup {None}

\* every path out of getObject (goi.unlocked), fini (defer), GetCold and DeleteObject:
\* a request that has answered holds no lock and waits for none
LocksReleased ==
    \A c \in Clients : At(c, "done") => held[c][Obj] = "none" /\ call[c] = Idle

\* txfini: the content a GET opens belongs to the metadata it loaded before and sends
\* as headers, and is never a file that coldStream is still writing, also after a crash.
\* Excepted: a disk that refused to move the previous version aside or to clean up, which
\* coldStream only warns of
NoTornRead ==
    ~seen.unclean => \A c \in Clients : At(c, "tx") => req[c].rd = req[c].md.ver

\* fini calls putRemote before it renames: what a GET delivers, the backend has accepted
\* (but for the file that coldStream could not clean up)
VisibleAfterRemote ==
    \A c \in Clients : At(c, "tx") => req[c].rd \in seen.accepted \/ (seen.unclean /\ req[c].rd = Partial)

NoWriter == \A c \in Clients : held[c][Obj] # "write"

\* Recache, UncacheDel and Store against RenameFinalize, RemoveObj and eviction: while
\* nobody writes, cached metadata is that of the file and is also on disk (unless an
\* object was removed through a read lock, when a reader may cache it afterwards, or
\* coldStream could not clean up, which leaves the entry of the version that is gone)
CacheCoherent ==
    /\ ObjTypeOK
    /\ Policy = "immediate" /\ NoWriter /\ ~seen.forced /\ ~seen.unclean /\ cache # NoEntry
           => cache.ver = file /\ xattr = file

\* UpgradeLock and `goto do` after _uplock.do: a cold GET writes the object only if it
\* is not there or if the backend had another version; readers that lost the race for
\* the lock find what the winner fetched
NoRefetch ==
    [][\A c \in Clients : Is(c, Gets) /\ file' # file /\ req'[c].pc \in {"persist", "copy"}
                            => file = None \/ req[c].vch]_allVars

Acked(c) == Is(c, {"put"}) /\ req[c].res = "ok"
Undeleted == (\A c \in Clients : ~Is(c, {"delete", "evict"})) /\ ~seen.forced
Readable == file \in Versions /\ xattr = file

\* fini, PersistMain, coldStream and its _cleanup, putObject's no-op: once a PUT was
\* acknowledged, and unless someone deletes the object, whatever fails or crashes later:
\* the backend has the object, if that PUT wrote it; there is a file, unless coldStream
\* could not clean up; it is whole, with its attributes, so that a GET reads it, whenever
\* nobody writes it and the latest write was not broken off; and what is not whole here
\* the backend has
AckedStays ==
    (\E c \in Clients : Acked(c)) /\ Undeleted =>
        /\ (\E c \in Clients : Acked(c) /\ req[c].rd = c) => remote # None
        /\ ~seen.unclean => file # None
        /\ Policy = "immediate" =>
              /\ NoWriter /\ ~seen.torn /\ ~seen.unclean => Readable
              /\ Readable \/ remote # None

\* Lock's polling, UpgradeLock's failure, _uplock's back-off and every unlock: requests
\* never all wait for the object's lock; one of them can go on, so that each, being of
\* bounded length, is answered, and leaves no lock behind
NobodyStuck ==
    /\ LocksReleased
    /\ (\E c \in Clients : ~At(c, "start") /\ ~At(c, "done"))
           => \E c \in Clients : /\ ~At(c, "start") /\ ~At(c, "done")
                                 /\ call[c] # Idle => TryOK(m, Obj, call[c].exclusive) \/ call[c].op = "try"

\* docs/traffic_patterns.md: writes are consistent with other writes and deletes: with
\* nothing failing, an object at rest is the backend's version
WritesConsistent ==
    (\A c \in Clients : At(c, "done")) /\ budget.faults = 0 /\ budget.crashes = 0
        /\ file # None /\ (\E c \in Clients : file = c)
    => file = remote

=============================================================================
