----------------------------- MODULE RateLimiter -----------------------------
(***************************************************************************)
(* FixedWindowRateLimiter (rateLimiter.ts).  The counters are kept in the  *)
(* order their keys came; whoever asks first drops the expired ones from   *)
(* the front, and only from the front.  Times are kept as ages, capped at  *)
(* the window; the clock is never set back.                                *)
(***************************************************************************)
EXTENDS Naturals, Sequences, FiniteSets, SequencesExt

CONSTANTS Keys, MaxRequests, WindowMs, MaxTrackedKeys

VARIABLES
  counters,  \* a sequence of [key, count, age]
  granted,   \* history: per key the ages of the requests granted within the window
  lost       \* history: keys whose counter was evicted

vars == <<counters, granted, lost>>

Init == counters = <<>> /\ granted = [k \in Keys |-> <<>>] /\ lost = {}

\* What of a sequence is left from the first of some places on.
From(s, places) ==
  IF places = {} THEN <<>> ELSE SubSeq(s, CHOOSE i \in places : \A j \in places : i <= j, Len(s))

\* pruneExpired stops at the first counter that still counts.
Prune(s) == From(s, {i \in DOMAIN s : s[i].age < WindowMs})

\* Mutant: the counter moves behind the others, its window starting anew.
BumpedMutRenews(s, i) == Append(RemoveAt(s, i), [s[i] EXCEPT !.count = @ + 1, !.age = 0])

\* Mutant: a request after the first is not counted.
BumpedMutNot(s, i) == s

Bumped(s, i) == [s EXCEPT ![i].count = @ + 1]

MakeRoom(s) == IF Len(s) >= MaxTrackedKeys THEN Tail(s) ELSE s

At(s, k) == {i \in DOMAIN s : s[i].key = k}

\* Bound: histories of one request more than a key may have had.
Grant(k) ==
  /\ Len(granted[k]) <= 2 * MaxRequests
  /\ granted' = [granted EXCEPT ![k] = Append(@, 0)]

ConsumeFirst(k) ==
  LET pruned == Prune(counters) IN
  /\ At(pruned, k) = {}
  /\ counters' = Append(MakeRoom(pruned), [key |-> k, count |-> 1, age |-> 0])
  /\ lost' = lost \cup {c.key : c \in Range(pruned) \ Range(MakeRoom(pruned))}
  /\ Grant(k)

ConsumeMore(k) ==
  LET pruned == Prune(counters) IN
  /\ \E i \in At(pruned, k) : pruned[i].count < MaxRequests /\ counters' = Bumped(pruned, i)
  /\ Grant(k) /\ UNCHANGED lost

Spent(k) == LET pruned == Prune(counters) IN \E i \in At(pruned, k) : pruned[i].count >= MaxRequests

Refuse(k) ==
  /\ Spent(k)
  /\ counters' = Prune(counters)
  /\ UNCHANGED <<granted, lost>>

Older(age) == IF age < WindowMs THEN age + 1 ELSE age

\* The requests of a window become older, and the oldest leave it.
Recent(ages) == From([i \in DOMAIN ages |-> ages[i] + 1], {i \in DOMAIN ages : ages[i] + 1 < WindowMs})

Tick ==
  /\ counters' = [i \in DOMAIN counters |-> [counters[i] EXCEPT !.age = Older(@)]]
  /\ granted' = [k \in Keys |-> Recent(granted[k])]
  /\ UNCHANGED lost

Next == (\E k \in Keys : ConsumeFirst(k) \/ ConsumeMore(k) \/ Refuse(k)) \/ Tick

Spec == Init /\ [][Next]_vars

-----------------------------------------------------------------------------
\* Whoever is refused has had its full allowance within the window before: no key is
\* shut out by what it did earlier, or by the other keys.
RefusedOnlyWhenSpent ==
  \A k \in Keys : Spent(k) => Len(granted[k]) >= MaxRequests

\* However the requests fall, no window's length of time sees more than twice the
\* allowance of one key, as long as its counter was not evicted.
TwiceAtMost == \A k \in Keys \ lost : Len(granted[k]) <= 2 * MaxRequests
=============================================================================
