------------------------------ MODULE BlobStore ------------------------------
(***************************************************************************)
(* The blob store the repository is built on (storage.Storage): a flat map *)
(* from blob ID to bytes, used by several clients at once.  This module is *)
(* the contract of the interface, what a caller may rely on whichever      *)
(* store is behind it.  PutBlock, GetBlock, DeleteBlock, Close and         *)
(* ConnectionInfo are atomic; ListBlocks hands the matching blobs to the   *)
(* caller's callback one at a time, and the callback, like any other       *)
(* client, may use the store meanwhile.                                    *)
(*                                                                         *)
(* A blob ID and the contents of a blob are sequences, so that prefixes    *)
(* and byte ranges are what they are in the code.                          *)
(***************************************************************************)
EXTENDS Naturals, Sequences, SequencesExt, FiniteSets

CONSTANTS
    Clients,    \* the goroutines that use the store
    BlobIDs,    \* blob IDs
    ListPrefixes,   \* the prefixes ListBlocks is called with
    Data,       \* contents of blobs
    Ranges,     \* the <<offset, length>> GetBlock is called with
    Faulty,     \* TRUE when calls of the store may fail
    ConnInfo    \* what ConnectionInfo returns

VARIABLES
    blobs,      \* the store: a function from the IDs present to contents
    pc,         \* pc[c]: "idle", or where c's ListBlocks is
    list,       \* list[c]: the ListBlocks c is in
    result      \* result[c]: what c's last call returned

storeVars == <<blobs, pc, list, result>>

\* What a call returns: a value and an error.
R(val, err) == [val |-> val, err |-> err]
Nil      == R(<<>>, "nil")
Error    == R(<<>>, "error")
NotFound == R(<<>>, "not_found")

NoList  == [prefix |-> <<>>, todo |-> {}, seen |-> {}]
Lists   == [prefix : ListPrefixes \cup {<<>>}, todo : SUBSET BlobIDs, seen : SUBSET BlobIDs]
Results == [val : Seq(Nat) \cup {<<ConnInfo>>}, err : {"none", "nil", "error", "not_found"}]

StoreTypeOK ==
    /\ DOMAIN blobs \subseteq BlobIDs
    /\ \A id \in DOMAIN blobs : blobs[id] \in Data
    /\ pc \in [Clients -> {"idle", "listing", "callback"}]
    /\ list \in [Clients -> Lists]
    /\ result \in [Clients -> Results]

StoreInit ==
    /\ blobs = <<>>
    /\ pc = [c \in Clients |-> "idle"]
    /\ list = [c \in Clients |-> NoList]
    /\ result = [c \in Clients |-> R(<<>>, "none")]

-----------------------------------------------------------------------------
(* The store's operations: the outcomes a call may have, each the value   *)
(* returned and the store after it                                         *)

Outcome(r, store) == [r |-> r, store |-> store]
Failure == IF Faulty THEN {Outcome(Error, blobs)} ELSE {}

\* The bytes of a blob a range selects: all of it when the length is 0.
Slice(data, range) ==
    IF range[2] = 0 THEN R(data, "nil")
    ELSE IF range[1] + range[2] <= Len(data)
         THEN R(SubSeq(data, range[1] + 1, range[1] + range[2]), "nil")
         ELSE Error

\* What a call does to the store s when nothing fails: the same whether or
\* not the block was there (PutBlock overwrites, DeleteBlock of a block
\* that is absent succeeds).
Got(s, id, range) ==
    Outcome(IF id \in DOMAIN s THEN Slice(s[id], range) ELSE NotFound, s)
Stored(s, id, data) ==
    Outcome(Nil, [i \in DOMAIN s \cup {id} |-> IF i = id THEN data ELSE s[i]])
Removed(s, id) == Outcome(Nil, [i \in DOMAIN s \ {id} |-> s[i]])

Get(id, range) == {Got(blobs, id, range)} \cup Failure
Put(id, data)  == {Stored(blobs, id, data)} \cup Failure
Delete(id)     == {Removed(blobs, id)} \cup Failure

Matching(prefix) == {id \in DOMAIN blobs : IsPrefix(prefix, id)}

-----------------------------------------------------------------------------
(* The calls of a client *)

\* A client calls from its own code or from inside its ListBlocks callback.
CanCall(c) == pc[c] \in {"idle", "callback"}

Returns(c, r) == result' = [result EXCEPT ![c] = r]

\* An atomic call with outcome o.
Does(c, o) ==
    /\ CanCall(c)
    /\ blobs' = o.store
    /\ Returns(c, o.r)
    /\ UNCHANGED <<pc, list>>

GetBlock(c, id, range) == \E o \in Get(id, range) : Does(c, o)
PutBlock(c, id, data)  == \E o \in Put(id, data) : Does(c, o)
DeleteBlock(c, id)     == \E o \in Delete(id) : Does(c, o)
Close(c)               == \E o \in {Outcome(Nil, blobs)} \cup Failure : Does(c, o)
ConnectionInfo(c)      == Does(c, Outcome(R(<<ConnInfo>>, "nil"), blobs))

\* ListBlocks begins: the blobs to hand over are the ones matching now.
ListBlocks(c, prefix) ==
    /\ pc[c] = "idle"
    /\ pc' = [pc EXCEPT ![c] = "listing"]
    /\ list' = [list EXCEPT ![c] = [prefix |-> prefix, todo |-> Matching(prefix),
                                    seen |-> {}]]
    /\ UNCHANGED <<blobs, result>>

\* The next blob goes to the callback, unless it was deleted meanwhile.
ListDeliver(c) ==
    /\ pc[c] = "listing"
    /\ \E id \in list[c].todo :
          /\ list' = [list EXCEPT ![c].todo = @ \ {id},
                                  ![c].seen = IF id \in DOMAIN blobs
                                              THEN @ \cup {id} ELSE @]
          /\ pc' = [pc EXCEPT ![c] = IF id \in DOMAIN blobs THEN "callback" ELSE @]
    /\ UNCHANGED <<blobs, result>>

\* ListBlocks is over and returns r.
ListReturns(c, r) ==
    /\ pc' = [pc EXCEPT ![c] = "idle"]
    /\ list' = [list EXCEPT ![c] = NoList]
    /\ Returns(c, r)
    /\ UNCHANGED blobs

\* The callback returns: nil and the listing goes on, or an error, which
\* ends the listing and is what ListBlocks returns.
CallbackReturns(c, r) ==
    /\ pc[c] = "callback"
    /\ \/ r = "nil" /\ pc' = [pc EXCEPT ![c] = "listing"]
                    /\ UNCHANGED <<blobs, list, result>>
       \/ r = "error" /\ ListReturns(c, Error)

\* Every matching blob was handed over, or the store gave up.
ListEnds(c) ==
    /\ pc[c] = "listing"
    /\ \/ list[c].todo = {} /\ ListReturns(c, Nil)
       \/ Faulty /\ ListReturns(c, Error)

StoreNext ==
    \E c \in Clients :
        \/ \E id \in BlobIDs, range \in Ranges : GetBlock(c, id, range)
        \/ \E id \in BlobIDs, data \in Data : PutBlock(c, id, data)
        \/ \E id \in BlobIDs : DeleteBlock(c, id)
        \/ Close(c) \/ ConnectionInfo(c)
        \/ \E prefix \in ListPrefixes : ListBlocks(c, prefix)
        \/ ListDeliver(c) \/ ListEnds(c)
        \/ \E r \in {"nil", "error"} : CallbackReturns(c, r)

StoreSpec == StoreInit /\ [][StoreNext]_storeVars

=============================================================================
