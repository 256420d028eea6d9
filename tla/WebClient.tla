----------------------------- MODULE WebClient -----------------------------
(* What every page of the web client stands on: the record the server keeps, *)
(* the copy the query cache holds of it, and the one mutation the page may   *)
(* have under way. Requests and answers get lost, and a request the browser  *)
(* gave up on may still reach the server afterwards.                         *)
EXTENDS Naturals, FiniteSets

CONSTANTS
    None,
    Pages,        \* the pages a behaviour may be about
    MaxVersion,   \* bound on the versions of the record
    MaxLosses     \* bound on answers lost

VARIABLES
    page,     \* the page this behaviour is about: its name, its kind, its ways
    row,      \* the server's record: its version and its fields
    cache,    \* the query cache's copy of row, or None
    fetch,    \* what a read under way was served, or None
    call,     \* the page's mutation: its request, outcome and answer, or None
    late,     \* a request given up on that the server has yet to handle, or None
    losses    \* answers lost so far

clientVars == <<page, row, cache, fetch, call, late, losses>>

ASSUME WebAssumption ==
    /\ MaxVersion \in Nat \ {0} /\ MaxLosses \in Nat
    /\ IsFiniteSet(Pages)

\* A record has entries typed into inputs and entries picked from a select.
Fields == {"text", "choice"}
Values == 0 .. 1

\* What can be typed but no parser of the client reads.
Unreadable == 2
Entries == Values \cup {Unreadable}

Records == [version: Nat, field: [Fields -> Values]]

\* How a request ended for the page; None while it is pending
Outcomes == {"ok", "refused", "lost"}

\* None is neither a version nor a record, an entry, or an outcome.
ASSUME NoneAssumption == None \notin Nat \cup Records \cup Outcomes

FirstRow == [version |-> 1, field |-> [f \in Fields |-> 0]]

ClientInit ==
    /\ page \in Pages
    /\ row = FirstRow
    /\ cache = None /\ fetch = None
    /\ call = None /\ late = None /\ losses = 0

-----------------------------------------------------------------------------
(* Reads *)

\* A query is fetched when its page mounts and again on reconnection, on
\* request or when invalidated; a read that fails is tried again.
FetchServed ==
    /\ fetch = None
    /\ fetch' = row
    /\ UNCHANGED <<page, row, cache, call, late, losses>>

\* Its answer replaces the copy, however old it has become.
FetchArrives ==
    /\ fetch # None
    /\ cache' = fetch
    /\ fetch' = None
    /\ UNCHANGED <<page, row, call, late, losses>>

\* setQueryData replaces the copy, invalidateQueries drops the read under way
\* for a fresh one.
Refreshed(data, invalidates) ==
    /\ cache' = IF data = None THEN cache ELSE data
    /\ fetch' = IF invalidates THEN None ELSE fetch

-----------------------------------------------------------------------------
(* Mutations *)

\* Controls are disabled while the page's mutation is pending.
Idle == call = None

httpRequest(request) ==
    /\ Idle
    /\ call' = [request |-> request, outcome |-> None, answer |-> None]
    /\ UNCHANGED <<page, row, cache, fetch, late, losses>>

\* What the server has still to handle: the pending request or a late one.
Waiting(answered) ==
    IF answered = "call" THEN call # None /\ call.outcome = None ELSE late # None

Received(answered) == IF answered = "call" THEN call.request ELSE late

\* The answer to the page's own request, or the end of a late one.
Answered(answered, outcome, answer) ==
    IF answered = "call"
    THEN /\ call' = [call EXCEPT !.outcome = outcome, !.answer = answer]
         /\ UNCHANGED late
    ELSE late' = None /\ UNCHANGED call

\* The connection fails: an answer never arrives, or a request does not
\* arrive in time, if at all.
Lose ==
    /\ call # None /\ call.outcome \in {None, "ok"}
    /\ losses < MaxLosses
    /\ losses' = losses + 1
    /\ call' = [call EXCEPT !.outcome = "lost", !.answer = None]
    /\ \/ UNCHANGED late
       \/ call.outcome = None /\ late = None /\ late' = call.request
    /\ UNCHANGED <<page, row, cache, fetch>>

\* The page has its outcome and its controls again.
Settled(outcomes) ==
    /\ call # None /\ call.outcome \in outcomes
    /\ call' = None
    /\ UNCHANGED <<page, row, late, losses>>

\* Mutations are never repeated by the client itself: an error is shown.
SettledError == Settled({"refused", "lost"})

=============================================================================
