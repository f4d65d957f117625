--------------------------- MODULE LoggingStorage ---------------------------
(***************************************************************************)
(* The logging wrapper of a blob store (package logging): a Storage that   *)
(* forwards every call to the store it wraps and reports the call and its  *)
(* outcome to a printf function.                                           *)
(*                                                                         *)
(* The wrapped store is an instance of BlobStore; its variable `result' is *)
(* what the base returns to the wrapper, and `returned' is what the        *)
(* wrapper returns to its caller.  GetBlock, PutBlock, DeleteBlock, Close  *)
(* and ConnectionInfo are one step each: the base call, the printf and the *)
(* return.  ListBlocks takes the steps of the base's listing; the wrapper  *)
(* counts in the callback it hands to the base and reports when the base   *)
(* returns.  The sink is kept as the last record it received.              *)
(***************************************************************************)
EXTENDS Naturals, Sequences, SequencesExt, FiniteSets

CONSTANTS
    Clients, BlobIDs, ListPrefixes, Data, Ranges, Faulty, ConnInfo,
    OptionLists,    \* the lists of options NewWrapper is called with
    InlineLimit,    \* results shorter than this are logged in full (20)
    NoRecord        \* nothing was printed yet

VARIABLES
    blobs, pc, list,
    result,         \* result[c]: what the base returned to the wrapper
    wrapper,        \* the loggingStorage: its printf and its prefix
    cnt,            \* cnt[c]: the counter of c's ListBlocks
    printed,        \* the last record given to a printf function
    returned        \* returned[c]: what the wrapper returned to c

vars == <<blobs, pc, list, result, wrapper, cnt, printed, returned>>

\* The wrapped store, s.base.
Base == INSTANCE BlobStore

-----------------------------------------------------------------------------
(* NewWrapper and its options *)

Output(outputFunc) == [kind |-> "Output", arg |-> outputFunc]
Prefix(prefix)     == [kind |-> "Prefix", arg |-> prefix]

ApplyOption(s, o) ==
    IF o.kind = "Output" THEN [s EXCEPT !.printf = o.arg]
                         ELSE [s EXCEPT !.prefix = o.arg]

NewWrapper(options) ==
    FoldLeft(ApplyOption, [printf |-> "Debugf", prefix |-> ""], options)

Init ==
    /\ Base!StoreInit
    /\ wrapper \in {NewWrapper(options) : options \in OptionLists}
    /\ cnt = [c \in Clients |-> 0]
    /\ printed = NoRecord
    /\ returned = result

-----------------------------------------------------------------------------
(* What the wrapper prints and returns *)

\* GetBlock prints a short result as it is and of a long one the length.
InlineOffByOne(bytes) == Len(bytes) <= InlineLimit
Inline(bytes) == Len(bytes) < InlineLimit

Shown(bytes)  == [inline |-> TRUE, bytes |-> bytes, len |-> Len(bytes)]
Length(bytes) == [inline |-> FALSE, bytes |-> <<>>, len |-> Len(bytes)]

\* s.printf(s.prefix + ...): the record the sink receives, without the
\* arguments of the call and the time it took.
Printf(op, value, err, count) ==
    printed' = [printf |-> wrapper.printf, prefix |-> wrapper.prefix, op |-> op,
                value |-> value, err |-> err, cnt |-> count]

\* return err: the wrapper hands on what the base returned.
Swallowed(r) == [val |-> r.val, err |-> "nil"]
Propagated(r) == r

Return(c) == returned' = [returned EXCEPT ![c] = Propagated(result'[c])]

-----------------------------------------------------------------------------
(* The calls *)

GetBlock(c, id, range) ==
    /\ Base!GetBlock(c, id, range)
    /\ LET r == result'[c]
       IN  Printf("GetBlock",
                  IF Inline(r.val) THEN Shown(r.val) ELSE Length(r.val), r.err, 0)
    /\ Return(c)
    /\ UNCHANGED <<wrapper, cnt>>

PutBlock(c, id, data) ==
    /\ Base!PutBlock(c, id, data)
    /\ Printf("PutBlock", Length(data), result'[c].err, 0)
    /\ Return(c)
    /\ UNCHANGED <<wrapper, cnt>>

DeleteBlock(c, id) ==
    /\ Base!DeleteBlock(c, id)
    /\ Printf("DeleteBlock", Length(<<>>), result'[c].err, 0)
    /\ Return(c)
    /\ UNCHANGED <<wrapper, cnt>>

Close(c) ==
    /\ Base!Close(c)
    /\ Printf("Close", Length(<<>>), result'[c].err, 0)
    /\ Return(c)
    /\ UNCHANGED <<wrapper, cnt>>

\* ConnectionInfo is forwarded and not logged.
ConnectionInfo(c) ==
    /\ Base!ConnectionInfo(c)
    /\ returned' = [returned EXCEPT ![c] = result'[c]]
    /\ UNCHANGED <<wrapper, cnt, printed>>

\* cnt := 0 and the base's ListBlocks begins, with the counting callback.
ListBlocks(c, prefix) ==
    /\ Base!ListBlocks(c, prefix)
    /\ cnt' = [cnt EXCEPT ![c] = 0]
    /\ UNCHANGED <<wrapper, printed, returned>>

\* cnt++ in the callback the base calls.
CountedNever(n) == n
Counted(n) == n + 1

\* The base takes the next blob; when it calls back, the wrapper counts and
\* calls the caller's callback.
ListDeliver(c) ==
    /\ Base!ListDeliver(c)
    /\ cnt' = [cnt EXCEPT ![c] = IF pc'[c] = "callback" THEN Counted(@) ELSE @]
    /\ UNCHANGED <<wrapper, printed, returned>>

\* The base's ListBlocks returned: the wrapper reports and returns.
ListReturned(c) ==
    /\ Printf("ListBlocks", Length(<<>>), result'[c].err, cnt[c])
    /\ Return(c)
    /\ cnt' = [cnt EXCEPT ![c] = 0]

\* return callback(bi): the base gets what the caller's callback returned,
\* and goes on or returns.
CallbackReturns(c, r) ==
    /\ Base!CallbackReturns(c, r)
    /\ \/ pc'[c] = "idle" /\ ListReturned(c)
       \/ pc'[c] # "idle" /\ UNCHANGED <<cnt, printed, returned>>
    /\ UNCHANGED wrapper

ListEnds(c) ==
    /\ Base!ListEnds(c)
    /\ ListReturned(c)
    /\ UNCHANGED wrapper

Next ==
    \E c \in Clients :
        \/ \E id \in BlobIDs, range \in Ranges : GetBlock(c, id, range)
        \/ \E id \in BlobIDs, data \in Data : PutBlock(c, id, data)
        \/ \E id \in BlobIDs : DeleteBlock(c, id)
        \/ Close(c)
        \/ ConnectionInfo(c)
        \/ \E prefix \in ListPrefixes : ListBlocks(c, prefix)
        \/ ListDeliver(c)
        \/ ListEnds(c)
        \/ \E r \in {"nil", "error"} : CallbackReturns(c, r)

Spec == Init /\ [][Next]_vars

-----------------------------------------------------------------------------
(* Properties *)

Ops == {"GetBlock", "PutBlock", "DeleteBlock", "ListBlocks", "Close"}

\* The variables have their types; a record of the log holds the bytes of a
\* result only when the result is shorter than InlineLimit (GetBlock's
\* len(result) < 20), and otherwise its length alone.
TypeOK ==
    /\ Base!StoreTypeOK
    /\ wrapper \in {NewWrapper(options) : options \in OptionLists}
    /\ cnt \in [Clients -> 0..Cardinality(BlobIDs)]
    /\ returned \in [Clients -> Base!Results]
    /\ \/ printed = NoRecord
       \/ /\ printed.op \in Ops
          /\ printed.printf = wrapper.printf /\ printed.prefix = wrapper.prefix
          /\ printed.err \in {"nil", "error", "not_found"}
          /\ printed.cnt \in 0..Cardinality(BlobIDs)
          /\ printed.value.len \in Nat
          /\ printed.value.inline
                => printed.value.len < InlineLimit
                   /\ Len(printed.value.bytes) = printed.value.len

\* The store the caller sees through the wrapper: the base's store with the
\* wrapper's return values.
Seen == INSTANCE BlobStore WITH result <- returned

\* The wrapper is a blob store: with the log hidden, every behaviour of the
\* wrapped store seen through GetBlock, PutBlock, DeleteBlock, ListBlocks,
\* Close and ConnectionInfo of loggingStorage is a behaviour of the store's
\* contract; the wrapper neither changes a result nor hides an error, those
\* of the caller's own callback included.
WrapperImplementsStore == Seen!StoreSpec

\* The record ListBlocks prints when it returns counts the blobs the caller's
\* callback was called with, the one whose callback returned the error
\* included, and no blob the base skipped because it was deleted meanwhile.
ListCountsCallbacks ==
    [][\A c \in Clients :
          pc[c] # "idle" /\ pc'[c] = "idle"
              => /\ printed'.op = "ListBlocks"
                 /\ printed'.cnt = Cardinality(list[c].seen)
                 /\ printed'.err = returned'[c].err]_vars

=============================================================================
