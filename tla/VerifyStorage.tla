---------------------------- MODULE VerifyStorage ----------------------------
(***************************************************************************)
(* The contract test of a blob store (package storagetesting):             *)
(* VerifyStorage followed by AssertConnectionInfoRoundTrips, as the tests  *)
(* of the stores call them, run by one goroutine against a store: the map  *)
(* in memory, or a remote store behind its adapter, whose calls time out   *)
(* and are retried (RetriedStore).                                         *)
(*                                                                         *)
(* The test is its list of steps, Script, and the index of the next one.   *)
(* A step is one call of the store with the check of what it returned; a   *)
(* listing takes the steps of the store's ListBlocks, with a callback that *)
(* collects the IDs and returns nil.  t.Errorf marks the test failed and   *)
(* goes on, t.Fatalf marks it failed and ends it.                          *)
(*                                                                         *)
(* The names of the blocks keep what the test uses of them, the prefix     *)
(* "ab" of three; the contents keep their bytes and that their lengths     *)
(* differ.                                                                 *)
(***************************************************************************)
EXTENDS Naturals, Sequences, SequencesExt, FiniteSets

CONSTANTS
    T,          \* the goroutine of the test
    Faulty,     \* TRUE when calls of the store may fail
    MaxAttempts,    \* the attempts the store's adapter makes of a call
    ConnInfo    \* what ConnectionInfo returns

VARIABLES
    blobs, pc, list, result,    \* the store under test, as in BlobStore
    step,       \* the index in Script of the step the test is at
    failed,     \* t.Failed(): t.Errorf or t.Fatalf was called
    faulted     \* history: a call of the store has failed

vars == <<blobs, pc, list, result, step, failed, faulted>>

Blocks == <<
    [blk |-> <<"ab", "cd">>, contents |-> <<>>],
    [blk |-> <<"zx">>,       contents |-> <<1>>],
    [blk |-> <<"ab", "ff">>, contents |-> <<1, 1>>],
    [blk |-> <<"ab", "gc">>, contents |-> <<1, 1, 1>>],
    [blk |-> <<"kopia">>,    contents |-> <<2, 2>> ] >>

Named(S) == {Blocks[i].blk : i \in S}
Whole    == <<0, 0>>

\* r, the store under test.
Store == INSTANCE RetriedStore WITH
    Clients <- {T}, BlobIDs <- Named(DOMAIN Blocks),
    ListPrefixes <- {<<>>, <<"ab">>}, Ranges <- {Whole},
    Data <- {Blocks[i].contents : i \in DOMAIN Blocks}

-----------------------------------------------------------------------------
(* The steps of the test, in their order *)

St(op, b, prefix, expected) ==
    [op |-> op, b |-> b, prefix |-> prefix, expected |-> Named(expected)]
Call(op)     == St(op, 1, <<>>, {})
On(op, b)    == St(op, b, <<>>, {})
PutAndGet(b) == <<On("PutBlock", b), On("AssertGetBlock", b)>>
AssertList(prefix, expected) == St("AssertListResults", 1, prefix, expected)

VerifyStorageSteps ==
    [b \in DOMAIN Blocks |-> On("AssertGetBlockNotFound", b)]
    \o FlattenSeq([b \in DOMAIN Blocks |-> PutAndGet(b)])
    \o <<AssertList(<<>>, {1, 2, 3, 4, 5}), AssertList(<<"ab">>, {1, 3, 4})>>
    \o FlattenSeq([b \in DOMAIN Blocks |-> PutAndGet(b)])
    \o <<On("DeleteBlock", 1), On("DeleteBlock", 1)>>
    \o <<AssertList(<<"ab">>, {3, 4}), AssertList(<<>>, {2, 3, 4, 5})>>

RoundTripSteps ==
    <<Call("ConnectionInfo"), Call("NewStorage"), Call("ConnectionInfo2"),
      Call("Close")>>

Script == VerifyStorageSteps \o RoundTripSteps

Cur      == Script[step]
At(op)   == step <= Len(Script) /\ Cur.op = op
Finished == step > Len(Script)

-----------------------------------------------------------------------------
(* What the test does with a result *)

\* if err != nil
Failed(r) == r.err # "nil"

\* AssertGetBlockNotFound, AssertGetBlock and AssertListResults pass.
GotNotFound(r) == r.err = "not_found"
GotBlock(r, contents) == r.err = "nil" /\ r.val = contents
ListedAs(r, names, expected) == r.err = "nil" /\ names = expected

SkipsOne == step' = step + 2
Advance  == step' = step + 1

\* The step is over: t.Errorf when the check did not pass, and on to the
\* next step.
Errorf(bad) ==
    /\ failed' = (failed \/ bad)
    /\ faulted' = (faulted \/ result'[T].err = "error")
    /\ Advance

\* t.Fatalf: the test function ends here.
Fatalf ==
    /\ failed' = TRUE
    /\ faulted' = TRUE
    /\ step' = Len(Script) + 1

-----------------------------------------------------------------------------
(* The steps *)

AssertGetBlockNotFound ==
    /\ At("AssertGetBlockNotFound")
    /\ Store!GetBlock(T, Blocks[Cur.b].blk, Whole)
    /\ Errorf(~GotNotFound(result'[T]))

PutBlock ==
    /\ At("PutBlock")
    /\ Store!PutBlock(T, Blocks[Cur.b].blk, Blocks[Cur.b].contents)
    /\ Errorf(Failed(result'[T]))

AssertGetBlock ==
    /\ At("AssertGetBlock")
    /\ Store!GetBlock(T, Blocks[Cur.b].blk, Whole)
    /\ Errorf(~GotBlock(result'[T], Blocks[Cur.b].contents))

DeleteBlock ==
    /\ At("DeleteBlock")
    /\ Store!DeleteBlock(T, Blocks[Cur.b].blk)
    /\ Errorf(Failed(result'[T]))

\* AssertListResults calls ListBlocks; the store hands a block to the
\* callback; the callback has noted the ID and returns nil; ListBlocks
\* returns and what was noted is compared with what is expected.
ListBegins ==
    /\ At("AssertListResults")
    /\ Store!ListBlocks(T, Cur.prefix)
    /\ UNCHANGED <<step, failed, faulted>>

ListDelivers ==
    /\ Store!ListDeliver(T)
    /\ UNCHANGED <<step, failed, faulted>>

CallbackNotes ==
    /\ Store!CallbackReturns(T, "nil")
    /\ UNCHANGED <<step, failed, faulted>>

ListReturns ==
    /\ Store!ListEnds(T)
    /\ Errorf(~ListedAs(result'[T], list[T].seen, Cur.expected))

\* ci := s.ConnectionInfo()
ConnectionInfo ==
    /\ At("ConnectionInfo")
    /\ Store!ConnectionInfo(T)
    /\ Errorf(FALSE)

\* s2, err := storage.NewStorage(ctx, ci): a second handle of the store.
NewStorage ==
    /\ At("NewStorage")
    /\ \/ Faulty /\ Fatalf
       \/ Advance /\ UNCHANGED <<failed, faulted>>
    /\ UNCHANGED <<blobs, pc, list, result>>

\* ci2 := s2.ConnectionInfo() and the comparison with ci.
ConnectionInfo2 ==
    /\ At("ConnectionInfo2")
    /\ Store!ConnectionInfo(T)
    /\ Errorf(result'[T] # result[T])

Close ==
    /\ At("Close")
    /\ Store!Close(T)
    /\ Errorf(Failed(result'[T]))

\* A store with a block left in it by an earlier test.
InitLeftOver ==
    /\ \E b \in DOMAIN Blocks : blobs = (Blocks[b].blk :> Blocks[b].contents)
    /\ pc = (T :> "idle") /\ list = (T :> Store!NoList)
    /\ result = (T :> Store!R(<<>>, "none"))
    /\ step = 1 /\ failed = FALSE /\ faulted = FALSE

\* The store is empty when the test begins.
Init ==
    /\ Store!StoreInit
    /\ step = 1
    /\ failed = FALSE
    /\ faulted = FALSE

Next ==
    \/ AssertGetBlockNotFound \/ PutBlock \/ AssertGetBlock \/ DeleteBlock
    \/ ListBegins \/ ListDelivers \/ CallbackNotes \/ ListReturns
    \/ ConnectionInfo \/ NewStorage \/ ConnectionInfo2 \/ Close

Spec == Init /\ [][Next]_vars

-----------------------------------------------------------------------------
(* Properties *)

\* The variables have their types, and the test is at a step of its script
\* or past the last one.
TypeOK ==
    /\ Store!StoreTypeOK
    /\ step \in 1..Len(Script) + 1
    /\ failed \in BOOLEAN /\ faulted \in BOOLEAN
    /\ pc[T] # "idle" => At("AssertListResults")

\* A store that keeps the contract passes the test: VerifyStorage and
\* AssertConnectionInfoRoundTrips call t.Errorf or t.Fatalf only after a
\* call of the store has failed.  This is where the contract BlobStore
\* states (a block absent until put, overwriting, deleting what is absent,
\* listing by prefix) meets what the test of the code expects.
PassesOnHonestStore == failed => faulted

=============================================================================
