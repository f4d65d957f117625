-------------------------------- MODULE Retry --------------------------------
(***************************************************************************)
(* The retry helper (package retry): WithExponentialBackoff calls an       *)
(* attempt again as long as it fails with an error the caller's predicate  *)
(* calls retriable, MaxAttempts times at most, and then gives up with an   *)
(* error of its own.  Between two attempts it sleeps, for a time that      *)
(* doubles up to a maximum; the sleeps change nothing a caller observes    *)
(* and are left out.                                                       *)
(*                                                                         *)
(* An attempt runs in a state (the remote store, the counter of a test)    *)
(* and has outcomes: what it returns and the state it leaves.  The attempt *)
(* f is Try, from the state to the set of its outcomes, and so is the call *)
(* through the helper.                                                     *)
(***************************************************************************)
EXTENDS Naturals

CONSTANTS
    MaxAttempts,        \* maxAttempts: the calls of the attempt, at most
    Try(_),             \* f: the outcomes of an attempt made in a state
    IsRetriable(_)      \* isRetriable: is the result worth another attempt

Outcome(r, store) == [r |-> r, store |-> store]

\* "unable to complete ... despite N retries"
Unable == [val |-> <<>>, err |-> "error"]

\* The states an attempt leaves when it fails with a retriable error.
Again(s) == {o.store : o \in {x \in Try(s) : IsRetriable(x.r)}}

\* The outcomes of the call, made in state s.  Pending[i] are the states in
\* which i attempts have failed with a retriable error.
WithExponentialBackoff(s) ==
    LET Pending[i \in 0..MaxAttempts] ==
            IF i = 0 THEN {s} ELSE UNION {Again(t) : t \in Pending[i - 1]}
        Attempts == UNION {Try(t) : t \in UNION {Pending[i] : i \in 0..MaxAttempts - 1}}
    IN  {o \in Attempts : ~IsRetriable(o.r)}
            \cup {Outcome(Unable, t) : t \in Pending[MaxAttempts]}

=============================================================================
