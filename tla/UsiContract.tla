---------------------------- MODULE UsiContract ----------------------------
(***************************************************************************)
(* What a USI peer may rely on, whichever adapter it talks to.             *)
(*                                                                         *)
(* Every accepted `go' line is a request.  At most one request is open at  *)
(* a time, and an open request is either answered by exactly one           *)
(* `bestmove' or dropped (superseded, or lost with the session).  A        *)
(* request that was answered or dropped is never heard of again.           *)
(* UsiPure (engine/usi/src/pure.rs) and UsiSession                         *)
(* (engine/usi/src/session.rs) are shown to implement this module.         *)
(***************************************************************************)
EXTENDS Naturals

CONSTANTS Requests,   \* identities of `go' lines, numbered in input order
          NoRequest

VARIABLES open,       \* the request the peer is waiting on, or NoRequest
          latest,     \* the last request accepted, 0 before the first
          answers     \* how many `bestmove' lines answered each request

contractVars == <<open, latest, answers>>

Init == /\ open = NoRequest
        /\ latest = 0
        /\ answers = [r \in Requests |-> 0]

\* A new request replaces whatever was open: the replaced one is dropped.
Accept(r) == /\ r > latest
             /\ open' = r
             /\ latest' = r
             /\ UNCHANGED answers

\* The only way to a `bestmove' is the open request, and it closes it.
Answer == /\ open \in Requests
          /\ answers' = [answers EXCEPT ![open] = @ + 1]
          /\ open' = NoRequest
          /\ UNCHANGED latest

Drop == /\ open \in Requests
        /\ open' = NoRequest
        /\ UNCHANGED <<latest, answers>>

Next == Answer \/ Drop \/ \E r \in Requests : Accept(r)

Spec == Init /\ [][Next]_contractVars
=============================================================================
