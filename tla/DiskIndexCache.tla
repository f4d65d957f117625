--------------------------- MODULE DiskIndexCache ---------------------------
(***************************************************************************)
(* The disk-backed committed index cache of the block manager              *)
(* (block/committed_block_index_disk_cache.go): a directory with one file  *)
(* <indexBlockID>.sndx per cached index block, shared by every process     *)
(* that has the repository open.  The processes synchronise through the    *)
(* file system only: a file is written under a temporary name and renamed  *)
(* into place, and unused files are swept by age.                          *)
(*                                                                         *)
(* Each system call of the Go code is one step of the calling process.     *)
(* File contents are abstracted to how much of the index block they hold,  *)
(* names of temporary files to numbers.                                    *)
(***************************************************************************)
EXTENDS Naturals, FiniteSets, FiniteSetsExt

CONSTANTS
    Procs,          \* processes sharing the cache directory
    IndexIDs,       \* index block IDs
    MaxTmpFiles,    \* bound: temporary files the directory holds at once
    CleanupTime,    \* unusedCommittedBlockIndexCleanupTime, in clock ticks
    MaxTime,        \* bound: the clock stops at MaxTime
    Faulty,         \* the calls that may fail, and "crash" if processes may die
    NoFile          \* the absence of a file, a name or an argument

Calls == {"stat", "tempfile", "mkdir", "write", "close", "rename", "remove",
          "readdir", "mmap", "crash"}

ASSUME /\ Procs # {} /\ IndexIDs # {} /\ NoFile \notin IndexIDs \cup Nat
       /\ MaxTmpFiles \in Nat \ {0} /\ CleanupTime \in Nat /\ MaxTime \in Nat
       /\ Faulty \subseteq Calls

VARIABLES
    dirExists,   \* the cache directory c.dirname exists
    files,       \* files[id]: the file <id>.sndx, or NoFile
    tmps,        \* tmps[n]: the temporary file n of the directory, or NoFile
    now,         \* the wall clock
    pc,          \* pc[p]: where process p is in the call it runs
    arg,         \* arg[p]: the indexBlockID of p's current or last call
    tmpFile,     \* tmpFile[p]: the temporary file p is writing (tf)
    remaining,   \* remaining[p]: expireUnused's map, name -> listed ModTime
    result       \* result[p]: what p's last call returned

fsVars   == <<dirExists, files, tmps>>
procVars == <<pc, arg, tmpFile, remaining, result>>
vars     == <<dirExists, files, tmps, now, pc, arg, tmpFile, remaining, result>>

TmpNames == 1..MaxTmpFiles
Times    == 0..MaxTime
File     == [content : {"empty", "partial", "full"}, mtime : Times]
Labels   == {"idle", "add_tmp", "add_mkdir", "add_retry_tmp", "add_write",
             "add_close", "add_rename", "add_recheck", "exp_sweep"}
Results  == {"none", "ok", "true", "false", "error", "corrupt", "swept"}
Listing  == UNION {[S -> Times] : S \in SUBSET IndexIDs}
NoListing == [id \in {} |-> 0]

TypeOK ==
    /\ dirExists \in BOOLEAN
    /\ files \in [IndexIDs -> File \cup {NoFile}]
    /\ tmps \in [TmpNames -> File \cup {NoFile}]
    /\ now \in Times
    /\ pc \in [Procs -> Labels]
    /\ arg \in [Procs -> IndexIDs \cup {NoFile}]
    /\ tmpFile \in [Procs -> TmpNames \cup {NoFile}]
    /\ remaining \in [Procs -> Listing]
    /\ result \in [Procs -> Results]

Init ==
    /\ dirExists = FALSE
    /\ files = [id \in IndexIDs |-> NoFile]
    /\ tmps = [n \in TmpNames |-> NoFile]
    /\ now = 0
    /\ pc = [p \in Procs |-> "idle"]
    /\ arg = [p \in Procs |-> NoFile]
    /\ tmpFile = [p \in Procs |-> NoFile]
    /\ remaining = [p \in Procs |-> NoListing]
    /\ result = [p \in Procs |-> "none"]

-----------------------------------------------------------------------------
(* The decisions of the code, and a variant of each with a plausible      *)
(* defect.  No specification uses the variants: substituting one for the  *)
(* decision it stands beside shows which property notices the defect.     *)

MayFail(call) == call \in Faulty
Exists(id) == files[id] # NoFile
FreeTmpNames == {n \in TmpNames : tmps[n] = NoFile}

\* What os.Stat of <id>.sndx makes hasIndexBlockID return.
StatOutcomes(id) ==
    {IF Exists(id) THEN "true" ELSE "false"}
        \cup (IF MayFail("stat") THEN {"error"} ELSE {})

\* writeTempFileAtomic gives up when tf.Write returns an error.
WriteUnchecked(content) == FALSE
WriteFailed(content) == content # "full"

\* TempFile is retried after MkdirAll once: only the first try goes there.
RetryUnbounded(label) == TRUE
RetriesAfterMkdir(label) == label = "add_tmp"

\* After a failed rename addBlockToCache succeeds only if the file is there.
RecheckIgnored(stat) == "ok"
RecheckResult(stat) == IF stat = "true" THEN "ok" ELSE "error"

\* ioutil.ReadDir's entries, and from them expireUnused's map: the names
\* with the ".sndx" suffix, less the used ones.
DirEntries == {id \in IndexIDs : Exists(id)} \cup (TmpNames \ FreeTmpNames)
ModTime(name) == IF name \in IndexIDs THEN files[name].mtime ELSE tmps[name].mtime
UnusedAnyName(used) == DirEntries \ used
Unused(used) == (DirEntries \cap IndexIDs) \ used

\* time.Since(rem.ModTime()) > unusedCommittedBlockIndexCleanupTime
AlwaysOld(mtime) == TRUE
TooOld(mtime) == now - mtime > CleanupTime

\* p's call returns r: the locals of the call go out of scope.
Return(p, r) ==
    /\ pc' = [pc EXCEPT ![p] = "idle"]
    /\ result' = [result EXCEPT ![p] = r]
    /\ tmpFile' = [tmpFile EXCEPT ![p] = NoFile]
    /\ remaining' = [remaining EXCEPT ![p] = NoListing]

\* p's call goes on at label l.
Goto(p, l) ==
    /\ pc' = [pc EXCEPT ![p] = l]
    /\ UNCHANGED <<tmpFile, remaining, result>>

-----------------------------------------------------------------------------
(* hasIndexBlockID and openIndex: one system call each *)

HasIndexBlockID(p, id) ==
    /\ pc[p] = "idle"
    /\ arg' = [arg EXCEPT ![p] = id]
    /\ \E r \in StatOutcomes(id) : Return(p, r)
    /\ UNCHANGED <<fsVars, now>>

\* mmap.Open, then openPackIndex on the mapping: a file that does not hold
\* the whole index block gives the reader a truncated index.
OpenIndex(p, id) ==
    /\ pc[p] = "idle"
    /\ arg' = [arg EXCEPT ![p] = id]
    /\ \/ Exists(id)
          /\ Return(p, IF files[id].content = "full" THEN "ok" ELSE "corrupt")
       \/ (~Exists(id) \/ MayFail("mmap")) /\ Return(p, "error")
    /\ UNCHANGED <<fsVars, now>>

-----------------------------------------------------------------------------
(* addBlockToCache(id, data), writeTempFileAtomic inlined *)

\* The first hasIndexBlockID: present -> nil, error -> error, absent -> go on.
AddBlockToCache(p, id) ==
    /\ pc[p] = "idle"
    /\ arg' = [arg EXCEPT ![p] = id]
    /\ \E r \in StatOutcomes(id) :
          \/ r = "true"  /\ Return(p, "ok")
          \/ r = "error" /\ Return(p, "error")
          \/ /\ r = "false"
             /\ pc' = [pc EXCEPT ![p] = "add_tmp"]
             /\ result' = [result EXCEPT ![p] = "none"]
             /\ UNCHANGED <<tmpFile, remaining>>
    /\ UNCHANGED <<fsVars, now>>

\* ioutil.TempFile(dirname, "tmp"): the first try and the one after MkdirAll.
CreateTemp(p) ==
    /\ pc[p] \in {"add_tmp", "add_retry_tmp"}
    /\ \/ /\ dirExists /\ FreeTmpNames # {}
          /\ LET n == Min(FreeTmpNames) IN
                /\ tmps' = [tmps EXCEPT ![n] = [content |-> "empty", mtime |-> now]]
                /\ tmpFile' = [tmpFile EXCEPT ![p] = n]
          /\ pc' = [pc EXCEPT ![p] = "add_write"]
          /\ UNCHANGED <<remaining, result>>
       \/ /\ ~dirExists /\ RetriesAfterMkdir(pc[p])
          /\ Goto(p, "add_mkdir")
          /\ UNCHANGED tmps
       \/ /\ \/ ~dirExists /\ ~RetriesAfterMkdir(pc[p])
             \/ dirExists /\ (MayFail("tempfile") \/ FreeTmpNames = {})
          /\ Return(p, "error")
          /\ UNCHANGED tmps
    /\ UNCHANGED <<dirExists, files, now, arg>>

\* os.MkdirAll(dirname): its error is ignored, the retry finds out.
MkdirAll(p) ==
    /\ pc[p] = "add_mkdir"
    /\ dirExists' = TRUE \/ (MayFail("mkdir") /\ UNCHANGED dirExists)
    /\ Goto(p, "add_retry_tmp")
    /\ UNCHANGED <<files, tmps, now, arg>>

\* tf.Write(data): on an error the file stays, with what was written of it.
WriteTemp(p) ==
    /\ pc[p] = "add_write"
    /\ \E c \in {"full"} \cup (IF MayFail("write") THEN {"partial"} ELSE {}) :
          /\ tmps' = [tmps EXCEPT ![tmpFile[p]] = [content |-> c, mtime |-> now]]
          /\ IF WriteFailed(c) THEN Return(p, "error") ELSE Goto(p, "add_close")
    /\ UNCHANGED <<dirExists, files, now, arg>>

\* tf.Close()
CloseTemp(p) ==
    /\ pc[p] = "add_close"
    /\ Goto(p, "add_rename") \/ (MayFail("close") /\ Return(p, "error"))
    /\ UNCHANGED <<fsVars, now, arg>>

\* os.Rename(tmpFile, <id>.sndx) replaces what is there; when it fails the
\* temporary file is left where it is.
RenameTemp(p) ==
    /\ pc[p] = "add_rename"
    /\ \/ /\ files' = [files EXCEPT ![arg[p]] = tmps[tmpFile[p]]]
          /\ tmps' = [tmps EXCEPT ![tmpFile[p]] = NoFile]
          /\ Return(p, "ok")
       \/ /\ MayFail("rename")
          /\ Goto(p, "add_recheck")
          /\ UNCHANGED <<files, tmps>>
    /\ UNCHANGED <<dirExists, now, arg>>

\* The second hasIndexBlockID, after a failed rename.
RecheckAfterRename(p) ==
    /\ pc[p] = "add_recheck"
    /\ \E r \in StatOutcomes(arg[p]) : Return(p, RecheckResult(r))
    /\ UNCHANGED <<fsVars, now, arg>>

-----------------------------------------------------------------------------
(* expireUnused(used) *)

\* ioutil.ReadDir and the two loops that build the map of unused entries.
ExpireUnused(p, used) ==
    /\ pc[p] = "idle"
    /\ arg' = [arg EXCEPT ![p] = NoFile]
    /\ \/ /\ dirExists
          /\ remaining' = [remaining EXCEPT
                ![p] = [name \in Unused(used) |-> ModTime(name)]]
          /\ pc' = [pc EXCEPT ![p] = "exp_sweep"]
          /\ result' = [result EXCEPT ![p] = "none"]
          /\ UNCHANGED tmpFile
       \/ (~dirExists \/ MayFail("readdir")) /\ Return(p, "error")
    /\ UNCHANGED <<fsVars, now>>

\* One iteration of the loop over the map: os.Remove of an entry whose
\* listed ModTime is too old (a failure is logged), nothing for a newer one.
SweepEntry(p) ==
    /\ pc[p] = "exp_sweep"
    /\ \E id \in DOMAIN remaining[p] :
          /\ \/ /\ TooOld(remaining[p][id]) /\ Exists(id)
                /\ files' = [files EXCEPT ![id] = NoFile]
             \/ /\ TooOld(remaining[p][id]) => ~Exists(id) \/ MayFail("remove")
                /\ UNCHANGED files
          /\ remaining' = [remaining EXCEPT ![p] = Restrict(@, DOMAIN @ \ {id})]
    /\ UNCHANGED <<dirExists, tmps, now, pc, arg, tmpFile, result>>

\* The loop is over: return nil.
SweepDone(p) ==
    /\ pc[p] = "exp_sweep" /\ remaining[p] = NoListing
    /\ Return(p, "swept")
    /\ UNCHANGED <<fsVars, now, arg>>

-----------------------------------------------------------------------------
(* The environment *)

\* A process dies inside a call: its locals are gone, the directory stays.
Crash(p) ==
    /\ MayFail("crash") /\ pc[p] # "idle"
    /\ Return(p, "none")
    /\ UNCHANGED <<fsVars, now, arg>>

Tick ==
    /\ now < MaxTime
    /\ now' = now + 1
    /\ UNCHANGED <<fsVars, procVars>>

-----------------------------------------------------------------------------

\* A step inside a call: straight code over system calls.
Running(p) ==
    \/ CreateTemp(p) \/ MkdirAll(p) \/ WriteTemp(p) \/ CloseTemp(p)
    \/ RenameTemp(p) \/ RecheckAfterRename(p) \/ SweepEntry(p) \/ SweepDone(p)

Next ==
    \/ \E p \in Procs, id \in IndexIDs : HasIndexBlockID(p, id)
    \/ \E p \in Procs, id \in IndexIDs : OpenIndex(p, id)
    \/ \E p \in Procs, id \in IndexIDs : AddBlockToCache(p, id)
    \/ \E p \in Procs, used \in SUBSET IndexIDs : ExpireUnused(p, used)
    \/ \E p \in Procs : Running(p)
    \/ \E p \in Procs : Crash(p)
    \/ Tick

Spec == Init /\ [][Next]_vars

\* None of the system calls waits for another process, so a process that
\* is inside a call and is not killed takes its next step.
FairSpec == Spec /\ \A p \in Procs : WF_vars(Running(p))

-----------------------------------------------------------------------------
(* Properties *)

\* Atomic installation (addBlockToCache, writeTempFileAtomic): whatever the
\* interleaving, the failures and the crashes, a file visible under an index
\* block's name holds the whole block, and no reader is handed a truncated
\* one by openIndex.
InstalledIndexIsComplete ==
    /\ \A id \in IndexIDs : Exists(id) => files[id].content = "full"
    /\ \A p \in Procs : result[p] # "corrupt"

\* addBlockToCache returns nil, hasIndexBlockID true and openIndex an index
\* only when the file is in the directory at that moment; in particular the
\* loser of a rename race reports success only if the winner's file is there.
SuccessMeansInstalled ==
    [][\A p \in Procs :
          /\ pc'[p] = "idle" /\ result'[p] \in {"ok", "true"}
          /\ <<pc[p], result[p], arg[p]>> # <<pc'[p], result'[p], arg'[p]>>
          => files'[arg'[p]] # NoFile]_vars

Young(file) == now - file.mtime <= CleanupTime

\* expireUnused removes a file younger than the cleanup time only when the
\* file was replaced after the sweeping process listed it: the sweep goes by
\* the listed ModTime, and that one is old.
RemovalJustified ==
    [][\A id \in IndexIDs :
          Exists(id) /\ files'[id] = NoFile /\ Young(files[id]) =>
              \E p \in Procs :
                  /\ pc[p] = "exp_sweep" /\ id \in DOMAIN remaining[p]
                  /\ now - remaining[p][id] > CleanupTime
                  /\ remaining[p][id] # files[id].mtime]_vars

\* expireUnused's "keeping unused ... because it's too new": an entry
\* younger than the cleanup time is never removed.
YoungEntriesRetained ==
    [][\A id \in IndexIDs :
          Exists(id) /\ files'[id] = NoFile => ~Young(files[id])]_vars

\* An index block that hasIndexBlockID reported present is there for the
\* openIndex that follows: entries expire by the age of their last use, and
\* the committed index fetches only the blocks it did not find before it
\* opens them all.  expireUnused goes by its caller's used list and by the
\* ModTime of the write, so the sweep of a process with another active set
\* comes between the two calls.
FoundIndexOpens ==
    [][\A p \in Procs :
          /\ pc[p] = "idle" /\ result[p] = "true"
          /\ pc'[p] = "idle" /\ arg'[p] = arg[p]
          => result'[p] # "error"]_vars

\* writeTempFileAtomic's temporary files are gone once the calls that made
\* them are over: the cache directory holds nothing but .sndx files.
NoOrphanTempFiles ==
    (\A p \in Procs : pc[p] = "idle") => FreeTmpNames = TmpNames

\* Every call returns: addBlockToCache retries the temporary file once, and
\* the sweep of expireUnused handles each listed entry once.
CallsReturn ==
    \A p \in Procs : []<>(pc[p] = "idle")

=============================================================================
