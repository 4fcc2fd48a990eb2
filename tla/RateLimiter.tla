------------------------------ MODULE RateLimiter ------------------------------
(***************************************************************************)
(* The limiters of the routes (src/lib/rate-limit.ts): a map from clients  *)
(* to a fixed window and a counter, bounded by evicting the window that    *)
(* ends first. The three kinds of limiters differ in the key only.         *)
(***************************************************************************)
EXTENDS Naturals, FiniteSets

CONSTANTS
  Clients,      \* IP addresses, agents or users: the keys
  WindowMs,     \* windowMs, in steps of the clock
  MaxRequests,
  MaxEntries,
  LastMs        \* bound: the time

ASSUME LimiterAssumption ==
  /\ IsFiniteSet(Clients)
  /\ {WindowMs, MaxRequests, MaxEntries, LastMs} \subseteq Nat \ {0}

VARIABLES
  ms,        \* the time
  entry,     \* store, for the clients it has
  admitted,  \* history: how many requests of a client were let through up to when
  asked,     \* history: requests in this step of the clock
  evicted    \* history: clients whose entry was evicted

limiterVars == <<ms, entry, admitted, asked, evicted>>

Moments == 1..LastMs
Admitted == [0..LastMs -> Nat]
Stored == DOMAIN entry

LimiterTypeOK ==
  /\ ms \in Moments
  /\ Stored \subseteq Clients
  /\ \A c \in Stored : entry[c].count \in Nat /\ entry[c].resetAt \in Nat
  /\ admitted \in [Clients -> Admitted]
  /\ asked \in [Clients -> Nat]
  /\ evicted \subseteq Clients

LimiterInit ==
  /\ ms = 1
  /\ entry = [c \in {} |-> [count |-> 0, resetAt |-> 0]]
  /\ admitted = [c \in Clients |-> [t \in 0..LastMs |-> 0]]
  /\ asked = [c \in Clients |-> 0]
  /\ evicted = {}

-----------------------------------------------------------------------------
(* evictOldest                                                             *)
FirstToEnd(keys) == {c \in keys : \A k \in keys : entry[c].resetAt <= entry[k].resetAt}

(* The keys that stay when a new one comes: one of the first windows to    *)
(* end goes, the earliest inserted in fact.                                *)
Keep ==
  IF Cardinality(Stored) < MaxEntries THEN {Stored} ELSE {Stored \ {c} : c \in FirstToEnd(Stored)}

LetThrough(c) ==
  admitted' = [admitted EXCEPT ![c] = [t \in 0..LastMs |-> IF t >= ms THEN @[t] + 1 ELSE @[t]]]

Opens(c) == c \in Stored => ms > entry[c].resetAt

(* checkRateLimit, where the client gets a new window.                     *)
OpenWindow(c) ==
  /\ Opens(c)
  /\ \E keys \in IF c \in Stored THEN {Stored} ELSE Keep :
       /\ entry' = [k \in keys \cup {c} |->
            IF k = c THEN [count |-> 1, resetAt |-> ms + WindowMs] ELSE entry[k]]
       /\ evicted' = evicted \cup (Stored \ keys)
  /\ LetThrough(c)
  /\ UNCHANGED ms

Allows_OneMore(count) == count <= MaxRequests + 1
Allows(count) == count <= MaxRequests

(* checkRateLimit within a window: refused requests count, but do not move *)
(* the end of the window.                                                  *)
CountRequest(c) ==
  /\ ~Opens(c)
  /\ entry' = [entry EXCEPT ![c].count = @ + 1]
  /\ IF Allows(entry[c].count + 1) THEN LetThrough(c) ELSE UNCHANGED admitted
  /\ UNCHANGED <<ms, evicted>>

(* A client may ask once more than it may, in each step of the clock.      *)
Request(c) ==
  /\ asked[c] <= MaxRequests
  /\ asked' = [asked EXCEPT ![c] = @ + 1]
  /\ OpenWindow(c) \/ CountRequest(c)

(* The interval of 60 s.                                                   *)
Cleanup ==
  /\ entry' = [c \in {k \in Stored : ms <= entry[k].resetAt} |-> entry[c]]
  /\ UNCHANGED <<ms, admitted, asked, evicted>>

ClockTicks ==
  /\ ms < LastMs
  /\ ms' = ms + 1
  /\ asked' = [c \in Clients |-> 0]
  /\ UNCHANGED <<entry, admitted, evicted>>

LimiterNext == (\E c \in Clients : Request(c)) \/ Cleanup \/ ClockTicks

LimiterSpec == LimiterInit /\ [][LimiterNext]_limiterVars

-----------------------------------------------------------------------------
(* The moment before the time of one window that ends at t.                *)
Before(t) == IF t > WindowMs THEN t - WindowMs - 1 ELSE 0

(* Where two fixed windows meet a client gets through twice its requests   *)
(* within the time of one, and never more, unless its entry was evicted.   *)
TwiceAtMost ==
  \A c \in Clients \ evicted : \A t \in Moments :
    t <= ms => admitted[c][t] <= admitted[c][Before(t)] + 2 * MaxRequests

=============================================================================
