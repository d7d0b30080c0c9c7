------------------------------ MODULE Resolver ------------------------------
(***************************************************************************)
(* DNS freshness of one destination: Maintenance, Resolver and             *)
(* ResolverState (internal/transport/resolver.go) driven by                *)
(* CandidateDialer.dialCandidate (candidate.go) and by the publication     *)
(* (internal/destination/publication.go), while other goroutines read      *)
(* Snapshots.  Snapshots write: they sample the clock and latch expiry.    *)
(*                                                                         *)
(* A step is one critical section of the gate's or the state's mutex, or   *)
(* one blocking lookup or dial.  Every clock reading is free, so the clock *)
(* may stand still, jump or step back, or answer the reserved maximum.     *)
(* Each token does its lookup, apply and commit once, in program order, so *)
(* the single-use marks of the token are not carried.                      *)
(***************************************************************************)
EXTENDS Integers, FiniteSets

CONSTANTS
  Owners,          \* goroutines that run maintenance
  Addresses,       \* valid addresses of the network's family, in netip order
  Foreign, Invalid,\* an answer of the other family, an unusable answer
  MaxAnswers,      \* MaxResolverAnswers
  Refresh,         \* DNSRefresh
  StaleAfter,      \* DNSStaleAfter
  MaxTime,         \* bound: clock readings
  MaxGeneration    \* math.MaxUint64 of Maintenance.next

ASSUME ResolverAssumption ==
  /\ IsFiniteSet(Addresses) /\ Addresses \subseteq Nat \ {0}
  /\ Foreign \notin Addresses /\ Invalid \notin Addresses /\ Foreign # Invalid
  /\ Refresh \in Nat \ {0} /\ StaleAfter \in Nat /\ StaleAfter >= Refresh
  /\ MaxAnswers \in Nat \ {0} /\ MaxTime \in Nat /\ MaxGeneration \in Nat

None     == 0                   \* no address; also generation zero
BadClock == MaxTime + 1         \* the reserved reading math.MaxUint64
NoTime   == -1
Readings == 0 .. BadClock

VARIABLES
  gate,       \* Maintenance: the generation of the active token, pending, next
  res,        \* the ResolverState
  pc,         \* per owner, what dialCandidate or publish does next
  token,      \* per owner, the token: generation, lookupInFlight
  found,      \* per owner, the lookup's answers, {} for an error
  candidate,  \* per owner, the dialled address and its generation
  published,  \* the published endpoint: address and number of its epoch
  failedAt    \* history: the first lookup that did not confirm the published address

vars == <<gate, res, pc, token, found, candidate, published, failedAt>>

NoToken    == [generation |-> 0, inFlight |-> FALSE]
NoEndpoint == [address |-> None, epoch |-> 0]

\* NewMaintenance and NewResolverState.
Init ==
  /\ gate = [active |-> 0, pending |-> FALSE, next |-> 0]
  /\ res = [answers |-> {}, current |-> None, selected |-> None, selectedGeneration |-> 0,
            available |-> FALSE, stale |-> FALSE, staleExpired |-> FALSE, staleSince |-> NoTime,
            generation |-> 0, lastSample |-> NoTime, lastRefresh |-> NoTime, timeFault |-> FALSE]
  /\ pc = [o \in Owners |-> "idle"]
  /\ token = [o \in Owners |-> NoToken]
  /\ found = [o \in Owners |-> {}]
  /\ candidate = [o \in Owners |-> [address |-> None, generation |-> 0]]
  /\ published = NoEndpoint
  /\ failedAt = NoTime

At(o, from, to) == pc[o] = from /\ pc' = [pc EXCEPT ![o] = to]

-----------------------------------------------------------------------------
(* The parts of ResolverState, as functions of the state record.           *)

\* The readings sampleLocked accepts: not reserved, not below the high water.
Sampled(s, now) == now # BadClock /\ now >= s.lastSample

\* sampleLocked: a refused reading makes the state unavailable.
Sample(s, now) ==
  IF Sampled(s, now) THEN [s EXCEPT !.lastSample = now, !.timeFault = FALSE]
                     ELSE [s EXCEPT !.timeFault = TRUE, !.available = FALSE]

\* Mutant of BeginStale: every failed lookup starts the retention again.
BeginStaleAgain(s, now) ==
  IF s.current = None THEN s
  ELSE [s EXCEPT !.stale = TRUE, !.staleSince = now, !.staleExpired = FALSE]

\* beginStaleLocked: only the first failure counts.
BeginStale(s, now) ==
  IF s.current = None \/ s.stale THEN s
  ELSE [s EXCEPT !.stale = TRUE, !.staleSince = now, !.staleExpired = FALSE]

\* evaluateAvailabilityLocked: expiry is latched.
Evaluate(s, now) ==
  LET expired == s.staleExpired \/ (s.stale /\ now >= s.staleSince /\ now - s.staleSince >= StaleAfter)
  IN  IF s.current = None \/ s.timeFault THEN [s EXCEPT !.available = FALSE]
      ELSE [s EXCEPT !.staleExpired = expired, !.available = ~expired]

\* The state change of Snapshot.
Snapshot(s, now) ==
  IF Sampled(s, now) THEN Evaluate(Sample(s, now), now) ELSE Sample(s, now)

\* dueLocked.
Due(s) ==
  \/ s.timeFault \/ s.lastRefresh = NoTime
  \/ s.lastSample < s.lastRefresh \/ s.lastSample - s.lastRefresh >= Refresh

\* normalizeResolverAnswers: {} stands for every error.  Duplicates merge,
\* the other family is dropped, one unusable answer spoils the lookup.
Normalize(raw) ==
  LET kept == raw \cap Addresses
  IN  IF Invalid \in raw \/ Cardinality(kept) > MaxAnswers THEN {} ELSE kept

First(answers) == CHOOSE a \in answers : \A b \in answers : a <= b

\* Mutant of Select: the first answer wins even while the current one is still good.
SelectFirst(s, answers) == First(answers)

\* The answer to use: the current address while the lookup still returns it.
Select(s, answers) == IF s.current \in answers THEN s.current ELSE First(answers)

\* What a successful lookup does to the freshness, after expiry was latched.
Confirm(s, answers, now) ==
  IF s.current \in answers /\ ~s.staleExpired
  THEN [s EXCEPT !.stale = FALSE, !.staleSince = NoTime, !.available = TRUE]
  ELSE IF s.current # None THEN Evaluate(BeginStale(s, now), now)
  ELSE [s EXCEPT !.available = FALSE]

\* ApplyLookup for a failed lookup and for answers, with an accepted reading.
ApplyError(s, generation, now) ==
  LET t == [s EXCEPT !.generation = generation, !.lastRefresh = now]
  IN  Evaluate(BeginStale(t, now), now)

ApplyAnswers(s, generation, answers, now) ==
  LET t == [s EXCEPT !.answers = answers, !.selected = Select(s, answers),
                     !.selectedGeneration = generation, !.generation = generation, !.lastRefresh = now]
  IN  Confirm(Evaluate(t, now), answers, now)

-----------------------------------------------------------------------------
(* One maintenance run.                                                    *)

\* The generation would wrap.
Exhausted == gate.next = MaxGeneration

\* Maintenance.Begin: by Start while nothing is published, or by the DNS
\* worker once a Snapshot finds a lookup due.
Begin(o) ==
  /\ At(o, "idle", "lookup")
  /\ \E now \in Readings :
       /\ res' = IF published = NoEndpoint THEN res ELSE Snapshot(res, now)
       /\ published = NoEndpoint \/ Due(res')
  /\ gate.active = 0 /\ ~Exhausted
  /\ gate' = [gate EXCEPT !.next = gate.next + 1, !.active = gate.next + 1]
  /\ token' = [token EXCEPT ![o] = [generation |-> gate.next + 1, inFlight |-> FALSE]]
  /\ UNCHANGED <<found, candidate, published, failedAt>>

\* Begin while a run is active only records a trigger.
BeginBusy(o) ==
  /\ pc[o] = "idle" /\ gate.active # 0 /\ ~gate.pending
  /\ gate' = [gate EXCEPT !.pending = TRUE]
  /\ UNCHANGED <<res, pc, token, found, candidate, published, failedAt>>

Valid(o) == gate.active = token[o].generation

\* ResolveFor claims the lookup; a context that is done skips it.
Lookup(o) ==
  /\ \/ At(o, "lookup", "looking") /\ Valid(o) /\ token' = [token EXCEPT ![o].inFlight = TRUE]
     \/ At(o, "lookup", "end") /\ UNCHANGED token
  /\ UNCHANGED <<gate, res, found, candidate, published, failedAt>>

\* Mutant of LookupReturns: a failed lookup leaves its token in flight.
LookupReturnsInFlight(o) ==
  /\ At(o, "looking", "apply")
  /\ \E raw \in SUBSET (Addresses \cup {Foreign, Invalid}) :
       /\ found' = [found EXCEPT ![o] = Normalize(raw)]
       /\ token' = [token EXCEPT ![o].inFlight = Normalize(raw) = {}]
  /\ UNCHANGED <<gate, res, candidate, published, failedAt>>

\* The lookup returns answers, or nothing usable, or too late; finishLookup
\* is deferred over all of them.
LookupReturns(o) ==
  /\ At(o, "looking", "apply")
  /\ \E raw \in SUBSET (Addresses \cup {Foreign, Invalid}) :
       found' = [found EXCEPT ![o] = Normalize(raw)]
  /\ token' = [token EXCEPT ![o].inFlight = FALSE]
  /\ UNCHANGED <<gate, res, candidate, published, failedAt>>

\* The address is not confirmed by this lookup, the first time since it was.
Unconfirmed(answers, now) ==
  LET lapsed == failedAt # NoTime /\ now - failedAt >= StaleAfter
  IN  IF published.address = None THEN NoTime
      ELSE IF published.address \in answers /\ ~lapsed THEN NoTime
      ELSE IF failedAt = NoTime THEN now ELSE failedAt

\* ApplyLookup, under the gate and the state; a refused clock reading or an
\* error of the lookup ends the run.
ApplyLookup(o) ==
  /\ Valid(o)
  /\ \E now \in Readings :
       \/ /\ At(o, "apply", "end")
          /\ Sampled(res, now) /\ found[o] = {}
          /\ res' = ApplyError(Sample(res, now), token[o].generation, now)
          /\ failedAt' = Unconfirmed({}, now)
       \/ /\ At(o, "apply", "decide")
          /\ Sampled(res, now) /\ found[o] # {}
          /\ res' = ApplyAnswers(Sample(res, now), token[o].generation, found[o], now)
          /\ failedAt' = Unconfirmed(found[o], now)
       \/ /\ At(o, "apply", "end")
          /\ ~Sampled(res, now)
          /\ res' = Sample(res, now)
          /\ UNCHANGED failedAt
  /\ UNCHANGED <<gate, token, found, candidate, published>>

\* A current address that is available is kept.
Keeps(s) == published # NoEndpoint /\ s.available /\ s.current = s.selected /\ published.address = s.selected

\* The selected address is one this run looked up.
Usable(o, s) == ~s.timeFault /\ s.selected \in found[o] /\ s.generation = token[o].generation

\* The Snapshot of dialCandidate.
Decide(o) ==
  /\ \E now \in Readings :
       /\ res' = Snapshot(res, now)
       /\ \/ /\ At(o, "decide", "dial")
             /\ Usable(o, res') /\ ~Keeps(res')
             /\ candidate' = [candidate EXCEPT ![o] = [address |-> res'.selected, generation |-> res'.generation]]
          \/ /\ At(o, "decide", "end")
             /\ ~Usable(o, res') \/ Keeps(res')
             /\ UNCHANGED candidate
  /\ UNCHANGED <<gate, token, found, published, failedAt>>

\* dialSelected: a second Snapshot, then the dial and the candidate's
\* bootstrap; any of them may fail, and the context may be done.
Dial(o) ==
  /\ \E now \in Readings :
       /\ res' = Snapshot(res, now)
       /\ \/ /\ At(o, "dial", "publish")
             /\ ~res'.timeFault /\ Valid(o)
             /\ res'.generation = candidate[o].generation /\ candidate[o].address \in res'.answers
          \/ At(o, "dial", "end")
  /\ UNCHANGED <<gate, token, found, candidate, published, failedAt>>

\* publish re-checks a Snapshot against the candidate.
PublishCheck(o) ==
  /\ \E now \in Readings :
       /\ res' = Snapshot(res, now)
       /\ \/ /\ At(o, "publish", "commit")
             /\ candidate[o].generation = token[o].generation /\ res'.generation = token[o].generation
             /\ res'.selected = candidate[o].address
          \/ At(o, "publish", "end")      \* closing, cancelled or another endpoint
  /\ UNCHANGED <<gate, token, found, candidate, published, failedAt>>

Swap(o) ==
  /\ published' = [address |-> candidate[o].address, epoch |-> published.epoch + 1]
  /\ failedAt' = NoTime

\* Mutant of Commit: the socket is swapped before the fallible metadata step.
CommitAfterSwap(o) ==
  /\ \E now \in Readings :
       /\ At(o, "commit", "end")
       /\ Swap(o)
       /\ res' = IF Sampled(res, now)
                 THEN [Sample(res, now) EXCEPT !.current = res.selected, !.available = TRUE, !.stale = FALSE,
                                               !.staleExpired = FALSE, !.staleSince = NoTime]
                 ELSE Sample(res, now)
  /\ UNCHANGED <<gate, token, found, candidate>>

Committable(o) == Valid(o) /\ res.selected # None /\ res.selectedGeneration = token[o].generation

\* CommitPublishedCandidate, and only after it succeeded the swap.
Commit(o) ==
  /\ \E now \in Readings :
       /\ At(o, "commit", "end")
       /\ \/ /\ Sampled(res, now) /\ Committable(o)
             /\ res' = [Sample(res, now) EXCEPT !.current = res.selected, !.available = TRUE, !.stale = FALSE,
                                                !.staleExpired = FALSE, !.staleSince = NoTime]
             /\ Swap(o)
          \/ /\ ~(Sampled(res, now) /\ Committable(o))
             /\ res' = Snapshot(res, now)
             /\ UNCHANGED <<published, failedAt>>
  /\ UNCHANGED <<gate, token, found, candidate>>

\* Maintenance.End refuses a token whose lookup is in flight.
End(o) ==
  /\ At(o, "end", "idle")
  /\ gate' = IF Valid(o) /\ ~token[o].inFlight THEN [gate EXCEPT !.active = 0, !.pending = FALSE] ELSE gate
  /\ token' = [token EXCEPT ![o] = NoToken]
  /\ found' = [found EXCEPT ![o] = {}]
  /\ candidate' = [candidate EXCEPT ![o] = [address |-> None, generation |-> 0]]
  /\ UNCHANGED <<res, published, failedAt>>

\* Any other reader: Consume, Pack, the write gate, the workers.
Read ==
  /\ \E now \in Readings : res' = Snapshot(res, now)
  /\ UNCHANGED <<gate, pc, token, found, candidate, published, failedAt>>

Next ==
  \/ \E o \in Owners :
       \/ Begin(o) \/ BeginBusy(o) \/ Lookup(o) \/ LookupReturns(o) \/ ApplyLookup(o) \/ Decide(o)
       \/ Dial(o) \/ PublishCheck(o) \/ Commit(o) \/ End(o)
  \/ Read

Spec == Init /\ [][Next]_vars

-----------------------------------------------------------------------------
(* Properties.                                                             *)

\* An address is not served past the retention: since the first lookup that
\* failed to confirm it less than StaleAfter has passed, whatever lookups,
\* faults and Snapshots came in between, unless it was published again.
ServedIsFresh ==
  res.available => /\ ~res.timeFault
                   /\ failedAt # NoTime => res.lastSample - failedAt < StaleAfter

\* The resolver calls current exactly the address of the published socket: a
\* publication whose metadata step fails swaps nothing.
SocketMatchesCurrent == res.current = published.address

\* A socket and its epoch are replaced only when they have to be: by another
\* address when the lookup no longer returns this one, by the same address
\* when it had expired.
EpochKept ==
  [][published # NoEndpoint /\ published'.epoch # published.epoch =>
       IF published'.address = published.address THEN res.staleExpired
       ELSE published.address \notin res.answers]_vars

\* The gate is held by a run in progress: no failed lookup keeps it for good,
\* which would end all later maintenance.
GateReleased == gate.active # 0 => \E o \in Owners : pc[o] # "idle" /\ token[o].generation = gate.active
=============================================================================
