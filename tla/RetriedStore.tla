---------------------------- MODULE RetriedStore ----------------------------
(***************************************************************************)
(* A blob store adapter over a remote store, as the S3 adapter is: every   *)
(* GetBlock, PutBlock and DeleteBlock is a call of the remote store made   *)
(* through retry.WithExponentialBackoff with the adapter's predicate for   *)
(* what is worth another attempt.  An attempt that times out has reached   *)
(* the remote store or has not: the block may be written, or gone, when    *)
(* the next attempt is made.  The adapter promises the contract BlobStore  *)
(* all the same; listing, Close and ConnectionInfo are the contract's.     *)
(*                                                                         *)
(* A call goes through all its attempts in one step: the test that uses    *)
(* the adapter is one goroutine, and nothing of it runs between two        *)
(* attempts.                                                               *)
(***************************************************************************)
EXTENDS Naturals, Sequences, FiniteSets

CONSTANTS
    Clients, BlobIDs, ListPrefixes, Data, Ranges, ConnInfo,    \* as in BlobStore
    Faulty,         \* TRUE when calls of the remote store may time out
    MaxAttempts     \* the attempts of one call, at most

VARIABLES blobs, pc, list, result

Contract == INSTANCE BlobStore

R(val, err)   == Contract!R(val, err)
Outcome(r, s) == Contract!Outcome(r, s)
Timeout       == R(<<>>, "timeout")

\* What the contract says a call does to the store s.
Honest(call, s) ==
    CASE call.name = "get"    -> Contract!Got(s, call.id, call.arg)
      [] call.name = "put"    -> Contract!Stored(s, call.id, call.arg)
      [] call.name = "delete" -> Contract!Removed(s, call.id)

\* The remote store answers: as the contract says, but that it does not
\* find the block it is to delete when the block is not there.
Remote(call, s) ==
    IF call.name = "delete" /\ call.id \notin DOMAIN s
    THEN Outcome(Contract!NotFound, s) ELSE Honest(call, s)

\* The adapter makes a success of deleting what is absent.
Normalized(call, o) ==
    IF call.name = "delete" /\ o.r = Contract!NotFound
    THEN Outcome(Contract!Nil, o.store) ELSE o

\* The adapter's predicate: a timeout is worth another attempt, and an
\* answer of the remote store, a block not found included, is not.
Transient(r) == r = Timeout

\* One attempt in the store s: the remote store answers, or the attempt
\* times out, before or after the remote store has done what was asked.
Attempt(call, s, timeouts) ==
    LET done == Normalized(call, Remote(call, s))
    IN  {done} \cup IF timeouts THEN {Outcome(Timeout, s), Outcome(Timeout, done.store)}
                    ELSE {}

\* The call through the retry helper, from the store as it is.
Helper(call, timeouts) == INSTANCE Retry WITH
    Try <- LAMBDA s : Attempt(call, s, timeouts), IsRetriable <- Transient

Retried(call, timeouts) == Helper(call, timeouts)!WithExponentialBackoff(blobs)

Call(c, call) == \E o \in Retried(call, Faulty) : Contract!Does(c, o)

GetBlock(c, id, range) == Call(c, [name |-> "get", id |-> id, arg |-> range])
PutBlock(c, id, data)  == Call(c, [name |-> "put", id |-> id, arg |-> data])
DeleteBlock(c, id)     == Call(c, [name |-> "delete", id |-> id, arg |-> <<>>])

-----------------------------------------------------------------------------
(* The rest of the adapter is the contract *)

NoList                == Contract!NoList
StoreInit             == Contract!StoreInit
StoreTypeOK           == Contract!StoreTypeOK
Close(c)              == Contract!Close(c)
ConnectionInfo(c)     == Contract!ConnectionInfo(c)
ListBlocks(c, prefix) == Contract!ListBlocks(c, prefix)
ListDeliver(c)        == Contract!ListDeliver(c)
CallbackReturns(c, r) == Contract!CallbackReturns(c, r)
ListEnds(c)           == Contract!ListEnds(c)

=============================================================================
