----------------------------- MODULE RateLimiter -----------------------------
(***************************************************************************)
(* The API's middleware: a sliding window of requests for each client, in  *)
(* front of every endpoint but /health.                                    *)
(***************************************************************************)
EXTENDS Integers, Sequences, FiniteSets

CONSTANTS
  Clients,
  MaxRequests, \* max_requests
  WindowS,     \* window_s
  MaxTime      \* bound: the clock

ASSUME LimiterAssumption ==
  /\ {MaxRequests, WindowS} \subseteq Nat \ {0}
  /\ MaxTime \in Nat

VARIABLES
  now,     \* time.monotonic()
  hits,    \* _hits, a deque for each client
  allowed, \* when the requests were made that were let through, for the properties
  answer   \* the last request: whose, and whether it was let through

limiterVars == <<now, hits, allowed, answer>>

InitLimiter ==
  /\ now = 0
  /\ hits = [c \in Clients |-> <<>>]
  /\ allowed = [c \in Clients |-> <<>>]
  /\ answer = <<>>

\* Hits are popped from the left until the first is in the window.
Pruned(c) ==
  LET old(i) == now - hits[c][i] > WindowS
      popped == CHOOSE k \in 0..Len(hits[c]) :
                  (\A i \in 1..k : old(i)) /\ (k < Len(hits[c]) => ~old(k + 1))
  IN  SubSeq(hits[c], popped + 1, Len(hits[c]))

\* Mutant: what is refused is a hit as well.
RequestCounted(c) ==
  LET ok == Len(Pruned(c)) < MaxRequests
  IN  /\ hits' = [hits EXCEPT ![c] = Append(Pruned(c), now)]
      /\ allowed' = IF ok THEN [allowed EXCEPT ![c] = Append(@, now)] ELSE allowed
      /\ answer' = [client |-> c, ok |-> ok]
      /\ UNCHANGED now

\* RateLimiter.allow: a request that is refused leaves no hit.
Request(c) ==
  LET ok == Len(Pruned(c)) < MaxRequests
  IN  /\ hits' = [hits EXCEPT ![c] = IF ok THEN Append(Pruned(c), now) ELSE Pruned(c)]
      /\ allowed' = IF ok THEN [allowed EXCEPT ![c] = Append(@, now)] ELSE allowed
      /\ answer' = [client |-> c, ok |-> ok]
      /\ UNCHANGED now

Tick ==
  /\ now < MaxTime
  /\ now' = now + 1
  /\ answer' = <<>>
  /\ UNCHANGED <<hits, allowed>>

Serve == Tick \/ \E c \in Clients : Request(c)

LimiterSpec == InitLimiter /\ [][Serve]_limiterVars

-----------------------------------------------------------------------------
(***************************************************************************)
(* Properties.                                                             *)
(***************************************************************************)

\* The requests of c, by number, that were let through in the window that ends at t.
InWindow(c, t) == {i \in 1..Len(allowed[c]) : t - WindowS <= allowed[c][i] /\ allowed[c][i] <= t}

\* No window, wherever it lies, lets more than MaxRequests of a client through, and
\* only a client that has used its window up is refused, whatever it or another was
\* refused before: a flood does not lock a client out beyond its window.
LimiterExact ==
  /\ \A c \in Clients, t \in 0..now : Cardinality(InWindow(c, t)) <= MaxRequests
  /\ answer # <<>> /\ ~answer.ok => Cardinality(InWindow(answer.client, now)) = MaxRequests
=============================================================================
