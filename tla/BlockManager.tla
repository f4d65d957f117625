---------------------------- MODULE BlockManager ----------------------------
(***************************************************************************)
(* One block manager over a blob store: blocks staged by Put and Delete,   *)
(* Flush publishing them as a pack blob and then an index blob, a crash at *)
(* any point, CompactIndexes, and the loss and recovery of the index blobs *)
(* that TestBlockIndexRecovery goes through.                               *)
(*                                                                         *)
(* A blob is its contents: a pack is the blocks in it and the second they  *)
(* were written, an index blob is a function from block IDs to Infos.      *)
(* The Infos of one flush share its second.  A call of the blob store      *)
(* succeeds, fails, or takes effect and reports a failure all the same     *)
(* (the answer is lost, the call times out).                               *)
(***************************************************************************)
EXTENDS Naturals, FiniteSets

CONSTANTS
    Contents,        \* block IDs
    MaxTime,         \* the last second the clock reaches
    MinSmallBlocks,  \* CompactOptions: the fewest index blobs merged,
    MaxSmallBlocks,  \*   and the most
    Faulty,          \* TRUE when calls of the blob store may fail
    StrictClock      \* TRUE when no two index blobs are written in one second

VARIABLES
    packs, indexes,  \* the blob store: pack blobs and index blobs
    active,          \* the index blobs of the committed block index
    pending,         \* what is staged for a block: "none", "put", "delete"
    doomed,          \* index blobs a compaction has superseded
    phase,           \* "closed", "ready", "flushing", "compacting"
    now,             \* the clock, in seconds
    committed        \* history: what the last flush or recovery made of a block

vars == <<packs, indexes, active, pending, doomed, phase, now, committed>>

NoPack  == [contents |-> {}, ts |-> 0]
Nothing == [c \in Contents |-> "none"]
Staged(op) == {c \in Contents : pending[c] = op}

-----------------------------------------------------------------------------
(* The committed block index *)

Entries(ixs, c) == {ix[c] : ix \in {i \in ixs : c \in DOMAIN i}}

\* Greater timestamp, deleted over live on ties.
Beats(a, b) == a.ts > b.ts \/ (a.ts = b.ts /\ a.deleted /\ ~b.deleted)

Winner(ixs, c) ==
    LET es == Entries(ixs, c)
    IN  CHOOSE e \in es : \A o \in es : ~Beats(o, e)

\* The winner is a live entry.
Found(ixs, c) ==
    LET es == Entries(ixs, c)
    IN  \E e \in es : ~e.deleted /\ \A o \in es : ~Beats(o, e)

\* The store has a tombstone of block c as new as second ts.
DeletedSince(c, ts) == \E e \in Entries(indexes, c) : e.deleted /\ e.ts >= ts

\* The lookup of Get and of Put's deduplication: what is staged, then the
\* committed index.
Live(c) == pending[c] = "put" \/ (pending[c] = "none" /\ Found(active, c))

-----------------------------------------------------------------------------
(* Put, Delete, Flush *)

Put(c) ==
    /\ phase = "ready" /\ now <= MaxTime
    /\ ~Live(c)
    /\ pending' = [pending EXCEPT ![c] = "put"]
    /\ UNCHANGED <<packs, indexes, active, doomed, phase, now, committed>>

Delete(c) ==
    /\ phase = "ready" /\ now <= MaxTime
    /\ pending' = [pending EXCEPT ![c] = "delete"]
    /\ UNCHANGED <<packs, indexes, active, doomed, phase, now, committed>>

Pack == [contents |-> Staged("put"), ts |-> now]

PackFailureIgnored == phase' = "flushing"
PackFailed         == phase' = "ready"

\* Flush, steps (a) and (b): the pack blob, when a block was put.  When the
\* upload fails the flush is over, with or without the blob in the store.
UploadPack ==
    /\ phase = "ready" /\ pending # Nothing /\ now <= MaxTime
    /\ \/ /\ packs' = IF Staged("put") = {} THEN packs ELSE packs \cup {Pack}
          /\ phase' = "flushing"
       \/ /\ Faulty /\ Staged("put") # {} /\ PackFailed
          /\ packs' \in {packs, packs \cup {Pack}}
    /\ UNCHANGED <<indexes, active, pending, doomed, now, committed>>

Index ==
    [c \in Contents \ Staged("none") |->
        [ts |-> now, deleted |-> pending[c] = "delete",
         pack |-> IF pending[c] = "put" THEN Pack ELSE NoPack]]

\* What the caller of Flush knows of the staged blocks when it returns.
Promised(done) ==
    [c \in Contents |->
        CASE pending[c] = "none" -> committed[c]
          [] ~done               -> "none"
          [] pending[c] = "put"  -> "live"
          [] OTHER               -> "deleted"]

\* The clock when an index blob has reached the store.
Tick == now' \in IF StrictClock THEN {now + 1} ELSE {now, now + 1}

\* The manager takes the index blob for written whatever the store answers.
UploadIndexUnchecked ==
    /\ phase = "flushing" /\ phase' = "ready"
    /\ indexes' \in {indexes \cup {Index}} \cup (IF Faulty THEN {indexes} ELSE {})
    /\ active' = active \cup {Index}
    /\ committed' = Promised(TRUE) /\ pending' = Nothing /\ Tick
    /\ UNCHANGED <<packs, doomed>>

\* Flush, steps (c) to (h); or the index upload fails and the pack is left,
\* what is staged is kept for the next flush, and the index blob may be in
\* the store all the same.
UploadIndex ==
    /\ phase = "flushing" /\ phase' = "ready"
    /\ \/ /\ indexes' = indexes \cup {Index} /\ active' = active \cup {Index}
          /\ committed' = Promised(TRUE) /\ pending' = Nothing /\ Tick
       \/ /\ Faulty /\ UNCHANGED <<indexes, active, pending, now, committed>>
       \/ /\ Faulty /\ indexes' = indexes \cup {Index}
          /\ committed' = Promised(FALSE) /\ Tick
          /\ UNCHANGED <<active, pending>>
    /\ UNCHANGED <<packs, doomed>>

-----------------------------------------------------------------------------
(* A new manager *)

\* newTestBlockManager over the store as it is, at any moment: the manager
\* before it was closed without a flush or its process died, what it had
\* staged or was doing is gone, and the new one loads the index blobs of
\* the store.
NewManager ==
    /\ phase' = "ready" /\ active' = indexes
    /\ pending' = Nothing /\ doomed' = {}
    /\ UNCHANGED <<packs, indexes, now, committed>>

-----------------------------------------------------------------------------
(* CompactIndexes *)

Indexed(S) == {c \in Contents : Entries(S, c) # {}}

MergedWithoutTombstones(S) ==
    [c \in {d \in Indexed(S) : ~Winner(S, d).deleted} |-> Winner(S, c)]

\* What the blobs S say of each block, in one blob.  Tombstones are kept:
\* the condition under which one may go is not modelled.
Merged(S) == [c \in Indexed(S) |-> Winner(S, c)]

\* The blobs S are superseded whether the merged blob was written or not.
CompactIgnoresFailure(S) ==
    /\ phase = "ready" /\ phase' = "compacting"
    /\ Cardinality(S) \in MinSmallBlocks..MaxSmallBlocks
    /\ indexes' \in {indexes, indexes \cup {Merged(S)}}
    /\ active' = (active \ S) \cup {Merged(S)} /\ doomed' = S \ {Merged(S)}
    /\ UNCHANGED <<packs, pending, now, committed>>

\* The merged blob is committed and takes the place of the blobs S; or its
\* upload fails, the blob in the store or not, and CompactIndexes returns.
Compact(S) ==
    /\ phase = "ready"
    /\ Cardinality(S) \in MinSmallBlocks..MaxSmallBlocks
    /\ LET merged == Merged(S)
       IN  \/ /\ indexes' = indexes \cup {merged}
              /\ active' = (active \ S) \cup {merged}
              /\ doomed' = S \ {merged} /\ phase' = "compacting"
           \/ /\ Faulty /\ indexes' \in {indexes, indexes \cup {merged}}
              /\ UNCHANGED <<active, doomed, phase>>
    /\ UNCHANGED <<packs, pending, now, committed>>

\* A superseded blob is deleted, or the call fails and it is left behind.
DeleteSuperseded(ix) ==
    /\ phase = "compacting"
    /\ doomed' = doomed \ {ix}
    /\ indexes' = indexes \ {ix} \/ (Faulty /\ UNCHANGED indexes)
    /\ UNCHANGED <<packs, active, pending, phase, now, committed>>

CompactReturns ==
    /\ phase = "compacting" /\ doomed = {} /\ phase' = "ready"
    /\ UNCHANGED <<packs, indexes, active, pending, doomed, now, committed>>

-----------------------------------------------------------------------------
(* The loss of the index blobs and RecoverIndexFromPackFile *)

\* One callback of the listing of the index blobs, after a flush: the blob
\* is deleted from the store under the manager, which is not used again; or
\* DeleteBlock fails, the blob gone or not, and the listing ends there.
DeleteIndex(ix) ==
    /\ phase \in {"ready", "closed"} /\ pending = Nothing
    /\ indexes' \in {indexes \ {ix}} \cup (IF Faulty THEN {indexes} ELSE {})
    /\ committed' = IF indexes' = indexes THEN committed ELSE Nothing
    /\ phase' = "closed" /\ active' = {}
    /\ UNCHANGED <<packs, pending, doomed, now>>

\* The block table at the end of the pack.
Recovered(p) ==
    [c \in p.contents |-> [ts |-> p.ts, deleted |-> FALSE, pack |-> p]]

\* One callback of a recovery pass over the pack blobs: the Infos of pack p
\* are returned and, when commit is true, made an index blob as in a flush.
\* When commit is false, and when the call fails and the test goes on after
\* t.Errorf, nothing has changed: the pass with commit false takes the steps
\* of calls that fail, and Next leaves it to them.
Recover(p, commit) ==
    /\ phase = "ready"
    /\ \/ /\ commit
          /\ indexes' = indexes \cup {Recovered(p)}
          /\ active' = active \cup {Recovered(p)}
          /\ committed' = [c \in Contents |->
                IF c \in p.contents /\ ~DeletedSince(c, p.ts) THEN "live"
                ELSE committed[c]]
       \/ /\ ~commit \/ Faulty
          /\ UNCHANGED <<indexes, active, committed>>
    /\ UNCHANGED <<packs, pending, doomed, phase, now>>

-----------------------------------------------------------------------------
Init ==
    /\ packs = {} /\ indexes = {} /\ active = {} /\ doomed = {}
    /\ pending = Nothing /\ committed = Nothing
    /\ phase = "ready" /\ now = 1

Next ==
    \/ \E c \in Contents : Put(c) \/ Delete(c)
    \/ UploadPack \/ UploadIndex \/ NewManager
    \/ \E S \in SUBSET active : Compact(S)
    \/ \E ix \in doomed : DeleteSuperseded(ix)
    \/ CompactReturns
    \/ \E ix \in indexes : DeleteIndex(ix)
    \/ \E p \in packs : Recover(p, TRUE)

Spec == Init /\ [][Next]_vars

-----------------------------------------------------------------------------
(* Properties *)

TypeOK ==
    /\ \A p \in packs : p.contents \in SUBSET Contents \ {{}} /\ p.ts \in 1..MaxTime
    /\ \A ix \in indexes \cup active \cup doomed :
          /\ DOMAIN ix \subseteq Contents
          /\ \A c \in DOMAIN ix : ix[c].ts \in 1..MaxTime
    /\ pending \in [Contents -> {"none", "put", "delete"}]
    /\ committed \in [Contents -> {"none", "live", "deleted"}]
    /\ phase \in {"closed", "ready", "flushing", "compacting"}
    /\ now \in 1..MaxTime + 1
    /\ phase # "compacting" => doomed = {}
    /\ phase \in {"ready", "flushing"} => active \subseteq indexes

\* Flush uploads the pack before the index that names it, and recovery
\* indexes only what a pack holds: whatever fails or crashes in between, no
\* index blob of the store sends a reader to a pack that is not there.
NoDanglingEntry ==
    \A ix \in indexes : \A c \in DOMAIN ix :
        ~ix[c].deleted => ix[c].pack \in packs /\ c \in ix[c].pack.contents

\* What a flush has committed stays so: a fresh manager over the same store
\* resolves every block put and none deleted, and so does this one when it
\* is ready, through flushes that fail half-way, crashes, a compaction that
\* merges some index blobs and is interrupted between its deletions or
\* fails to delete, and a recovery, which brings a block back unless it was
\* deleted in the second its pack was written or later.
FlushedBlocksResolve ==
    LET views == IF phase = "closed" THEN {indexes} ELSE {indexes, active}
    IN  \A c \in Contents, ixs \in views :
            /\ committed[c] = "live" => Found(ixs, c)
            /\ committed[c] = "deleted" => ~Found(ixs, c)

\* CompactIndexes deletes only what the store can do without: at every
\* moment of a compaction the store answers the same with and without the
\* blobs still to be deleted, so the deletions may happen, fail or be cut
\* short by a crash in any order, and a manager opened in between sees no
\* block appear or disappear.
SupersededBlobsAreRedundant ==
    \A c \in Contents : Found(indexes \ doomed, c) = Found(indexes, c)

=============================================================================
