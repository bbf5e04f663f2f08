--------------------------- MODULE ConcurrencyGuard ---------------------------
(***************************************************************************)
(* The per-client limit on diagnostics in flight,                          *)
(* src/Api/RateLimiting/ConcurrencyGuard.cs: the ConcurrencyGuard          *)
(* middleware and the ConcurrencyTracker it keeps its counts in.           *)
(*                                                                         *)
(* AddOrUpdate and TryRemove of ConcurrentDictionary are atomic; Leave     *)
(* calls one after the other, so anything may happen between them.         *)
(* Requests outside /api/v1/diagnostics pass the guard without touching    *)
(* the tracker and are left out.  A definition whose comment begins        *)
(* "Slip:" is the definition after it with a plausible mistake in it, kept *)
(* to show that the properties notice the mistake.                         *)
(***************************************************************************)
EXTENDS Integers, FiniteSets

CONSTANTS
  Requests,           \* connections that carry one request after another
  Clients,            \* remote addresses, with "unknown" for none
  ClientOf,           \* ClientOf[r]: the address request r comes from
  MaxConcurrentPerIp  \* RateLimitingOptions.MaxConcurrentPerIp

\* Options.cs: [Range(1, 50)] MaxConcurrentPerIp.
ASSUME GuardAssumption ==
  /\ IsFiniteSet(Requests)
  /\ ClientOf \in [Requests -> Clients]
  /\ MaxConcurrentPerIp \in Nat \ {0}

VARIABLES
  pc,         \* pc[r]: where request r is in InvokeAsync
  keys,       \* the keys present in _inFlight
  inFlight,   \* inFlight[c]: the value of a present key
  remaining   \* remaining[r]: the local of Leave, while it is used

vars == <<pc, keys, inFlight, remaining>>

\* idle       no request, or answered
\* rejecting  over the limit: writing the 429
\* running    inside next(context)
\* leaving    in the finally block, about to decrement
\* removing   decremented to remaining <= 0, about to remove the key
Phases == {"idle", "rejecting", "running", "leaving", "removing"}

\* The phases in which a request is counted.
Inside == {"rejecting", "running", "leaving"}

Of(c) == {r \in Requests : ClientOf[r] = c}
At(c, S) == {r \in Of(c) : pc[r] \in S}

Init ==
  /\ pc = [r \in Requests |-> "idle"]
  /\ keys = {}
  /\ inFlight = [c \in Clients |-> 0]
  /\ remaining = [r \in Requests |-> 0]

\* The value AddOrUpdate(c, absent, present) stores and returns.
AddOrUpdate(c, absent, present) == IF c \in keys THEN present ELSE absent

\* Slip: the last permitted request is turned away.
EnterTooStrict(r) ==
  LET c == ClientOf[r]
      current == AddOrUpdate(c, 1, inFlight[c] + 1)
  IN  /\ pc[r] = "idle"
      /\ keys' = keys \cup {c}
      /\ inFlight' = [inFlight EXCEPT ![c] = current]
      /\ pc' = [pc EXCEPT ![r] =
                  IF current >= MaxConcurrentPerIp THEN "rejecting" ELSE "running"]
      /\ UNCHANGED remaining

\* tracker.Enter, and the comparison with the limit.
Enter(r) ==
  LET c == ClientOf[r]
      current == AddOrUpdate(c, 1, inFlight[c] + 1)
  IN  /\ pc[r] = "idle"
      /\ keys' = keys \cup {c}
      /\ inFlight' = [inFlight EXCEPT ![c] = current]
      /\ pc' = [pc EXCEPT ![r] =
                  IF current > MaxConcurrentPerIp THEN "rejecting" ELSE "running"]
      /\ UNCHANGED remaining

\* Slip: the return of a rejected request before the try block.
FinishSkipsLeave(r) ==
  /\ pc[r] \in {"rejecting", "running"}
  /\ pc' = [pc EXCEPT ![r] = IF pc[r] = "running" THEN "leaving" ELSE "idle"]
  /\ UNCHANGED <<keys, inFlight, remaining>>

\* next(context) or the write of the 429 is over, with or without an exception.
Finish(r) ==
  /\ pc[r] \in {"rejecting", "running"}
  /\ pc' = [pc EXCEPT ![r] = "leaving"]
  /\ UNCHANGED <<keys, inFlight, remaining>>

\* Slip: the key removed only when the count is below zero.
DecrementKeepsZero(r) ==
  LET c == ClientOf[r]
      left == AddOrUpdate(c, 0, inFlight[c] - 1)
  IN  /\ pc[r] = "leaving"
      /\ keys' = keys \cup {c}
      /\ inFlight' = [inFlight EXCEPT ![c] = left]
      /\ \/ /\ left < 0
            /\ remaining' = [remaining EXCEPT ![r] = left]
            /\ pc' = [pc EXCEPT ![r] = "removing"]
         \/ /\ left >= 0
            /\ pc' = [pc EXCEPT ![r] = "idle"]
            /\ UNCHANGED remaining

\* The first half of Leave.
Decrement(r) ==
  LET c == ClientOf[r]
      left == AddOrUpdate(c, 0, inFlight[c] - 1)
  IN  /\ pc[r] = "leaving"
      /\ keys' = keys \cup {c}
      /\ inFlight' = [inFlight EXCEPT ![c] = left]
      /\ \/ /\ left <= 0
            /\ remaining' = [remaining EXCEPT ![r] = left]
            /\ pc' = [pc EXCEPT ![r] = "removing"]
         \/ /\ left > 0
            /\ pc' = [pc EXCEPT ![r] = "idle"]
            /\ UNCHANGED remaining

\* The second half: TryRemove(KeyValuePair(key, remaining)) removes the key only
\* if its value is still the one this request left behind.
TryRemove(r) ==
  LET c == ClientOf[r]
  IN  /\ pc[r] = "removing"
      /\ keys' = IF inFlight[c] = remaining[r] THEN keys \ {c} ELSE keys
      /\ pc' = [pc EXCEPT ![r] = "idle"]
      /\ UNCHANGED <<inFlight, remaining>>

Next == \E r \in Requests : Enter(r) \/ Finish(r) \/ Decrement(r) \/ TryRemove(r)

Spec == Init /\ [][Next]_vars

\* A request that is inside the guard gets out: next(context) ends with the deadlines
\* below it or, while it reads a body, with its caller; the finally block runs.
FairSpec == Spec /\ \A r \in Requests :
  WF_vars(Finish(r)) /\ WF_vars(Decrement(r)) /\ WF_vars(TryRemove(r))

------------------------------------------------------------------------------
(* Properties                                                               *)

\* The counts in the dictionary never go negative.
TypeOK ==
  /\ pc \in [Requests -> Phases]
  /\ keys \in SUBSET Clients
  /\ inFlight \in [Clients -> Nat]
  /\ remaining \in [Requests -> Nat]

\* The dictionary counts each client's requests inside the guard, although a
\* key may be removed while another request of the client is arriving.
CountExact == \A c \in Clients :
  IF c \in keys THEN inFlight[c] = Cardinality(At(c, Inside))
                ELSE At(c, Inside) = {}

\* No client ever has more than MaxConcurrentPerIp diagnostics running.
RunningBounded == \A c \in Clients :
  Cardinality(At(c, {"running"})) <= MaxConcurrentPerIp

\* The dictionary does not grow with the clients that once called: a key with
\* the value zero has a request on its way to remove it, so when nobody is
\* inside the guard or leaving it the dictionary is empty.
NoStaleKey == \A c \in keys : inFlight[c] = 0 =>
  \E r \in At(c, {"removing"}) : remaining[r] = 0

\* A request is turned away only when, counting itself, more than
\* MaxConcurrentPerIp requests of its own client are inside the guard.
RejectedAtLimit == [][\A r \in Requests :
  pc[r] = "idle" /\ pc'[r] = "rejecting" =>
    Cardinality(At(ClientOf[r], Inside)) >= MaxConcurrentPerIp]_vars

\* A client that stops calling is forgotten for good.
QuietClientForgotten == \A c \in Clients :
  <>[](At(c, {"running", "rejecting"}) = {}) => <>[](c \notin keys)
===============================================================================
