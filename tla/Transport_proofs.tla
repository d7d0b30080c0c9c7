---------------------------- MODULE Transport_proofs ----------------------------
(***************************************************************************)
(* Proofs about the transport package.                                     *)
(*                                                                         *)
(* DNS freshness, for any number of goroutines that want to run            *)
(* maintenance, any address set, any clock and any retention; then the     *)
(* write deadline, for any number of Write calls on one socket.            *)
(***************************************************************************)
EXTENDS Resolver, UDPWriter, TLAPS, WellFoundedInduction


-----------------------------------------------------------------------------
(* Types.                                                                  *)

Positions == {"idle", "lookup", "looking", "apply", "decide", "dial", "publish", "commit", "end"}

\* The fields of ResolverState.
State == [answers : SUBSET Addresses, current : Nat, selected : Nat, selectedGeneration : Nat,
          available : BOOLEAN, stale : BOOLEAN, staleExpired : BOOLEAN, staleSince : Int,
          generation : Nat, lastSample : Int, lastRefresh : Int, timeFault : BOOLEAN]

TypeInv ==
  /\ gate \in [active : Nat, pending : BOOLEAN, next : Nat]
  /\ res \in State
  /\ pc \in [Owners -> Positions]
  /\ token \in [Owners -> [generation : Nat, inFlight : BOOLEAN]]
  /\ found \in [Owners -> SUBSET Addresses]
  /\ candidate \in [Owners -> [address : Nat, generation : Nat]]
  /\ published \in [address : Nat, epoch : Nat]
  /\ failedAt \in Int

\* A reading is a time.
LEMMA ReadingIsTime == \A now \in Readings : now \in Nat
BY ResolverAssumption DEF ResolverAssumption, Readings, BadClock

-----------------------------------------------------------------------------
(* The parts of ResolverState keep its type and what they do not name.     *)

\* What no Snapshot, no expiry and no failure changes.
SameLookup(s, t) ==
  /\ t.answers = s.answers /\ t.current = s.current
  /\ t.selected = s.selected /\ t.selectedGeneration = s.selectedGeneration
  /\ t.generation = s.generation /\ t.lastRefresh = s.lastRefresh

\* sampleLocked.
LEMMA SampleFacts ==
  ASSUME NEW s \in State, NEW now \in Int
  PROVE  /\ Sample(s, now) \in State /\ SameLookup(s, Sample(s, now))
         /\ Sample(s, now).stale = s.stale /\ Sample(s, now).staleSince = s.staleSince
         /\ Sample(s, now).staleExpired = s.staleExpired
         /\ Sampled(s, now) => /\ Sample(s, now).lastSample = now /\ ~Sample(s, now).timeFault
                               /\ now >= s.lastSample
                               /\ Sample(s, now).available = s.available
         /\ ~Sampled(s, now) => /\ Sample(s, now).lastSample = s.lastSample
                                /\ Sample(s, now).timeFault /\ ~Sample(s, now).available
BY DEF State, Sample, Sampled, SameLookup

\* beginStaleLocked.
LEMMA BeginStaleFacts ==
  ASSUME NEW s \in State, NEW now \in Int
  PROVE  /\ BeginStale(s, now) \in State /\ SameLookup(s, BeginStale(s, now))
         /\ BeginStale(s, now).lastSample = s.lastSample
         /\ BeginStale(s, now).timeFault = s.timeFault
         /\ s.current = None \/ s.stale => BeginStale(s, now) = s
         /\ s.current # None /\ ~s.stale => /\ BeginStale(s, now).stale
                                            /\ BeginStale(s, now).staleSince = now
                                            /\ ~BeginStale(s, now).staleExpired
BY DEF State, BeginStale, SameLookup, None

\* evaluateAvailabilityLocked.
LEMMA EvaluateFacts ==
  ASSUME NEW s \in State, NEW now \in Int
  PROVE  /\ Evaluate(s, now) \in State /\ SameLookup(s, Evaluate(s, now))
         /\ Evaluate(s, now).lastSample = s.lastSample
         /\ Evaluate(s, now).timeFault = s.timeFault
         /\ Evaluate(s, now).stale = s.stale /\ Evaluate(s, now).staleSince = s.staleSince
         /\ s.current = None \/ s.timeFault => /\ ~Evaluate(s, now).available
                                               /\ Evaluate(s, now).staleExpired = s.staleExpired
         /\ s.current # None /\ ~s.timeFault =>
              /\ Evaluate(s, now).staleExpired <=>
                   s.staleExpired \/ (s.stale /\ now >= s.staleSince /\ now - s.staleSince >= StaleAfter)
              /\ Evaluate(s, now).available <=> ~Evaluate(s, now).staleExpired
<1> DEFINE expired == s.staleExpired \/ (s.stale /\ now >= s.staleSince /\ now - s.staleSince >= StaleAfter)
<1>1. expired \in BOOLEAN /\ (expired <=> s.staleExpired \/ (s.stale /\ now >= s.staleSince /\ now - s.staleSince >= StaleAfter))
  BY DEF State
<1>2. Evaluate(s, now) = IF s.current = None \/ s.timeFault THEN [s EXCEPT !.available = FALSE]
                         ELSE [s EXCEPT !.staleExpired = expired, !.available = ~expired]
  BY DEF Evaluate
<1> HIDE DEF expired
<1> QED
  BY <1>1, <1>2 DEF State, SameLookup

\* The state change of Snapshot: expiry may be latched, nothing else moves but
\* the high water and the availability.
LEMMA SnapshotFacts ==
  ASSUME NEW s \in State, NEW now \in Int
  PROVE  /\ Snapshot(s, now) \in State /\ SameLookup(s, Snapshot(s, now))
         /\ Snapshot(s, now).stale = s.stale /\ Snapshot(s, now).staleSince = s.staleSince
         /\ s.staleExpired => Snapshot(s, now).staleExpired
         /\ ~Snapshot(s, now).timeFault /\ s.current # None =>
              (Snapshot(s, now).available <=> ~Snapshot(s, now).staleExpired)
<1> DEFINE t == Sample(s, now)
<1>1. /\ t \in State /\ SameLookup(s, t) /\ t.stale = s.stale /\ t.staleSince = s.staleSince
      /\ t.staleExpired = s.staleExpired
      /\ Sampled(s, now) => ~t.timeFault
      /\ ~Sampled(s, now) => t.timeFault
  BY SampleFacts
<1> HIDE DEF t
<1>2. CASE Sampled(s, now)
  <2>1. Snapshot(s, now) = Evaluate(t, now)
    BY <1>2 DEF Snapshot, t
  <2> QED
    BY <1>1, <1>2, <2>1, EvaluateFacts DEF SameLookup
<1>3. CASE ~Sampled(s, now)
  <2>1. Snapshot(s, now) = t
    BY <1>3 DEF Snapshot, t
  <2> QED
    BY <1>1, <1>3, <2>1
<1> QED
  BY <1>2, <1>3

\* The state ApplyLookup notes an error in.
NotedError(s, g, now) == [s EXCEPT !.generation = g, !.lastRefresh = now]

\* Noting an error keeps everything but the generation and the refresh time.
LEMMA ErrorFacts ==
  ASSUME NEW s \in State, NEW g \in Nat, NEW now \in Int
  PROVE  LET t == NotedError(s, g, now) IN
         /\ t \in State /\ t.current = s.current /\ t.answers = s.answers /\ t.selected = s.selected
         /\ t.selectedGeneration = s.selectedGeneration
         /\ t.stale = s.stale /\ t.staleSince = s.staleSince /\ t.staleExpired = s.staleExpired
         /\ t.lastSample = s.lastSample /\ t.timeFault = s.timeFault /\ t.available = s.available
BY DEF State, NotedError

\* The first of the answers exists: a set of addresses has a least one.
LEMMA FirstFacts ==
  ASSUME NEW answers \in SUBSET Addresses, answers # {}
  PROVE  First(answers) \in answers /\ First(answers) \in Nat \ {0}
<1>1. answers \subseteq Nat /\ \A a \in answers : a \in Nat \ {0}
  BY ResolverAssumption DEF ResolverAssumption
<1>2. PICK x \in answers : \A y \in answers : <<y, x>> \notin OpToRel(<, Nat)
  BY <1>1, NatLessThanWellFounded, WFMin
<1>3. ASSUME NEW y \in answers PROVE x <= y
  <2>1. ~(y < x)
    BY <1>1, <1>2 DEF OpToRel
  <2> QED
    BY <1>1, <2>1
<1> QED
  BY <1>1, <1>3 DEF First

\* The answer in use is one of the lookup's, and the current one if it can be.
LEMMA SelectFacts ==
  ASSUME NEW s \in State, NEW answers \in SUBSET Addresses, answers # {}
  PROVE  /\ Select(s, answers) \in answers /\ Select(s, answers) \in Nat
         /\ s.current \in answers => Select(s, answers) = s.current
BY FirstFacts DEF Select, State

\* What a successful lookup does to the freshness.
LEMMA ConfirmFacts ==
  ASSUME NEW s \in State, NEW answers \in SUBSET Addresses, NEW now \in Int
  PROVE  Confirm(s, answers, now) \in State /\ SameLookup(s, Confirm(s, answers, now))
<1>1. CASE s.current \in answers /\ ~s.staleExpired
  <2>1. NoTime \in Int
    BY DEF NoTime
  <2>2. Confirm(s, answers, now) = [s EXCEPT !.stale = FALSE, !.staleSince = NoTime, !.available = TRUE]
    BY <1>1 DEF Confirm
  <2> QED
    BY <2>1, <2>2 DEF State, SameLookup
<1>2. CASE ~(s.current \in answers /\ ~s.staleExpired) /\ s.current # None
  <2> DEFINE t == BeginStale(s, now)
  <2>1. t \in State /\ SameLookup(s, t)
    BY BeginStaleFacts
  <2>2. Confirm(s, answers, now) = Evaluate(t, now)
    BY <1>2 DEF Confirm
  <2> HIDE DEF t
  <2> QED
    BY <2>1, <2>2, EvaluateFacts DEF SameLookup
<1>3. CASE ~(s.current \in answers /\ ~s.staleExpired) /\ s.current = None
  BY <1>3 DEF Confirm, State, SameLookup
<1> QED
  BY <1>1, <1>2, <1>3

\* The state ApplyLookup notes answers in.
Noted(s, g, answers, now) ==
  [s EXCEPT !.answers = answers, !.selected = Select(s, answers),
            !.selectedGeneration = g, !.generation = g, !.lastRefresh = now]

\* Noting answers selects one of them and keeps the freshness.
LEMMA NotedFacts ==
  ASSUME NEW s \in State, NEW g \in Nat, NEW answers \in SUBSET Addresses, answers # {}, NEW now \in Int
  PROVE  LET t == Noted(s, g, answers, now) IN
         /\ t \in State /\ t.current = s.current /\ t.answers = answers
         /\ t.selected = Select(s, answers)
         /\ t.stale = s.stale /\ t.staleSince = s.staleSince /\ t.staleExpired = s.staleExpired
         /\ t.lastSample = s.lastSample /\ t.timeFault = s.timeFault /\ t.available = s.available
<1>1. Select(s, answers) \in Nat
  BY SelectFacts
<1> QED
  BY <1>1 DEF Noted, State

\* ApplyLookup keeps the current address, and with answers selects one of them.
LEMMA ApplyFacts ==
  ASSUME NEW s \in State, NEW g \in Nat, NEW now \in Int
  PROVE  /\ ApplyError(s, g, now) \in State
         /\ ApplyError(s, g, now).current = s.current
         /\ ApplyError(s, g, now).answers = s.answers
         /\ ApplyError(s, g, now).selected = s.selected
         /\ \A answers \in SUBSET Addresses : answers # {} =>
              /\ ApplyAnswers(s, g, answers, now) \in State
              /\ ApplyAnswers(s, g, answers, now).current = s.current
              /\ ApplyAnswers(s, g, answers, now).answers = answers
              /\ ApplyAnswers(s, g, answers, now).selected = Select(s, answers)
<1>1. /\ ApplyError(s, g, now) \in State
      /\ ApplyError(s, g, now).current = s.current
      /\ ApplyError(s, g, now).answers = s.answers
      /\ ApplyError(s, g, now).selected = s.selected
  <2> DEFINE t == NotedError(s, g, now)
             u == BeginStale(t, now)
  <2>1. t \in State /\ t.current = s.current /\ t.answers = s.answers /\ t.selected = s.selected
    BY ErrorFacts
  <2> HIDE DEF t
  <2>2. u \in State /\ SameLookup(t, u)
    BY <2>1, BeginStaleFacts
  <2>3. ApplyError(s, g, now) = Evaluate(u, now)
    BY DEF ApplyError, NotedError, t
  <2> HIDE DEF u
  <2> QED
    BY <2>1, <2>2, <2>3, EvaluateFacts DEF SameLookup
<1>2. ASSUME NEW answers \in SUBSET Addresses, answers # {}
      PROVE  /\ ApplyAnswers(s, g, answers, now) \in State
             /\ ApplyAnswers(s, g, answers, now).current = s.current
             /\ ApplyAnswers(s, g, answers, now).answers = answers
             /\ ApplyAnswers(s, g, answers, now).selected = Select(s, answers)
  <2> DEFINE t == Noted(s, g, answers, now)
             u == Evaluate(t, now)
  <2>1. t \in State /\ t.current = s.current /\ t.answers = answers /\ t.selected = Select(s, answers)
    BY <1>2, NotedFacts
  <2> HIDE DEF t
  <2>2. u \in State /\ SameLookup(t, u)
    BY <2>1, EvaluateFacts
  <2>3. ApplyAnswers(s, g, answers, now) = Confirm(u, answers, now)
    BY DEF ApplyAnswers, Noted, t
  <2> HIDE DEF u
  <2> QED
    BY <2>1, <2>2, <2>3, ConfirmFacts DEF SameLookup
<1> QED
  BY <1>1, <1>2

-----------------------------------------------------------------------------
(* The gate.                                                               *)

\* A run in progress has the generation the gate is held by, so there is at
\* most one; a held gate has one; and a lookup is in flight only while the
\* owner waits for it, so End is never refused.
GateInv ==
  /\ \A o \in Owners : pc[o] # "idle" => gate.active # 0 /\ token[o].generation = gate.active
  /\ \A o, p \in Owners : pc[o] # "idle" /\ pc[p] # "idle" => o = p
  /\ gate.active # 0 => \E o \in Owners : pc[o] # "idle"
  /\ \A o \in Owners : token[o].inFlight => pc[o] = "looking"

\* The fields the gate invariant does not read, typed.
LEMMA CommitResTypes ==
  ASSUME NEW s \in State, NEW a \in Nat
  PROVE  LET t == [s EXCEPT !.current = a, !.available = TRUE, !.stale = FALSE,
                            !.staleExpired = FALSE, !.staleSince = NoTime] IN
         /\ t \in State /\ t.current = a /\ t.available /\ ~t.stale /\ ~t.staleExpired
         /\ t.answers = s.answers /\ t.selected = s.selected /\ t.timeFault = s.timeFault
         /\ t.lastSample = s.lastSample
<1>1. NoTime \in Int
  BY DEF NoTime
<1> QED
  BY <1>1 DEF State

\* Normalized answers are addresses.
LEMMA NormalizeFacts == \A raw : Normalize(raw) \in SUBSET Addresses
BY DEF Normalize

\* A new Maintenance and a new ResolverState.
LEMMA InitTypes == Init => TypeInv /\ GateInv
<1> SUFFICES ASSUME Init PROVE TypeInv /\ GateInv
  OBVIOUS
<1>1. res \in State
  BY DEF Init, State, None, NoTime
<1>2. TypeInv
  BY <1>1 DEF Init, TypeInv, Positions, NoToken, NoEndpoint, None, NoTime
<1>3. GateInv
  BY DEF Init, GateInv, NoToken
<1> QED
  BY <1>2, <1>3

\* Moving one owner keeps the positions typed.
LEMMA AtTypes ==
  ASSUME TypeInv, NEW o \in Owners, NEW from, NEW to \in Positions, At(o, from, to)
  PROVE  /\ pc' \in [Owners -> Positions] /\ pc[o] = from /\ pc'[o] = to
         /\ \A p \in Owners : p # o => pc'[p] = pc[p]
BY DEF TypeInv, At

\* A Snapshot keeps the state typed.
LEMMA SnapshotTypes ==
  ASSUME TypeInv, NEW now \in Readings
  PROVE  /\ Snapshot(res, now) \in State /\ SameLookup(res, Snapshot(res, now))
         /\ Sample(res, now) \in State /\ SameLookup(res, Sample(res, now))
BY SnapshotFacts, SampleFacts, ReadingIsTime DEF TypeInv

\* A step of a run in progress: only its own owner moves, the gate stays.
Running(o) ==
  /\ gate' = gate /\ pc[o] # "idle" /\ pc'[o] # "idle"
  /\ \A p \in Owners : p # o => pc'[p] = pc[p] /\ token'[p] = token[p]
  /\ token'[o].generation = token[o].generation
  /\ token'[o].inFlight => pc'[o] = "looking"

\* A step of a run keeps the gate.
LEMMA RunningKeeps ==
  ASSUME GateInv, NEW o \in Owners, Running(o)
  PROVE  GateInv'
<1>1. \A p \in Owners : /\ pc'[p] # "idle" <=> pc[p] # "idle"
                        /\ token'[p].generation = token[p].generation
                        /\ token'[p].inFlight => pc'[p] = "looking"
  BY DEF Running, GateInv
<1> QED
  BY <1>1 DEF Running, GateInv

\* ResolveFor: the claim of the lookup and its return.
LEMMA LookupKeeps ==
  ASSUME TypeInv, GateInv, NEW o \in Owners, Lookup(o) \/ LookupReturns(o)
  PROVE  TypeInv' /\ Running(o)
<1> USE DEF Positions
<1>1. CASE Lookup(o)
  <2>1. CASE At(o, "lookup", "looking") /\ token' = [token EXCEPT ![o].inFlight = TRUE]
    <3>1. pc' \in [Owners -> Positions] /\ pc[o] = "lookup" /\ pc'[o] = "looking" /\ \A p \in Owners : p # o => pc'[p] = pc[p]
      BY <2>1, AtTypes
    <3>2. /\ token' \in [Owners -> [generation : Nat, inFlight : BOOLEAN]]
          /\ token'[o].generation = token[o].generation /\ \A p \in Owners : p # o => token'[p] = token[p]
      BY <2>1, ZenonT(30) DEF TypeInv
    <3> QED
      BY <1>1, <3>1, <3>2 DEF Lookup, TypeInv, Running
  <2>2. CASE At(o, "lookup", "end") /\ UNCHANGED token
    <3>1. pc' \in [Owners -> Positions] /\ pc[o] = "lookup" /\ pc'[o] = "end" /\ \A p \in Owners : p # o => pc'[p] = pc[p]
      BY <2>2, AtTypes
    <3> QED
      BY <1>1, <2>2, <3>1 DEF Lookup, TypeInv, Running, GateInv
  <2> QED
    BY <1>1, <2>1, <2>2 DEF Lookup
<1>2. CASE LookupReturns(o)
  <2>1. pc' \in [Owners -> Positions] /\ pc[o] = "looking" /\ pc'[o] = "apply" /\ \A p \in Owners : p # o => pc'[p] = pc[p]
    BY <1>2, AtTypes DEF LookupReturns
  <2>2. /\ token' \in [Owners -> [generation : Nat, inFlight : BOOLEAN]]
        /\ token'[o].generation = token[o].generation /\ ~token'[o].inFlight
        /\ \A p \in Owners : p # o => token'[p] = token[p]
    <3>1. token' = [token EXCEPT ![o] = [token[o] EXCEPT !.inFlight = FALSE]]
      BY <1>2 DEF LookupReturns
    <3>2. token \in [Owners -> [generation : Nat, inFlight : BOOLEAN]]
      BY DEF TypeInv
    <3> DEFINE v == [token[o] EXCEPT !.inFlight = FALSE]
    <3>3. v \in [generation : Nat, inFlight : BOOLEAN] /\ v.generation = token[o].generation /\ v.inFlight = FALSE
      BY <3>2
    <3> HIDE DEF v
    <3>4. token' = [token EXCEPT ![o] = v]
      BY <3>1 DEF v
    <3> QED
      BY <3>2, <3>3, <3>4
  <2>3. found' \in [Owners -> SUBSET Addresses]
    BY <1>2, NormalizeFacts DEF TypeInv, LookupReturns
  <2> QED
    BY <1>2, <2>1, <2>2, <2>3 DEF LookupReturns, TypeInv, Running
<1> QED
  BY <1>1, <1>2

\* Steps of a run that move the owner and leave its token alone.
LEMMA MoveRuns ==
  ASSUME TypeInv, GateInv, NEW o \in Owners, NEW from \in Positions, NEW to \in Positions,
         At(o, from, to), from \notin {"idle", "looking"}, to # "idle", UNCHANGED <<gate, token>>
  PROVE  pc' \in [Owners -> Positions] /\ Running(o)
<1>1. pc' \in [Owners -> Positions] /\ pc[o] = from /\ pc'[o] = to /\ \A p \in Owners : p # o => pc'[p] = pc[p]
  BY AtTypes
<1>2. ~token[o].inFlight
  BY <1>1 DEF GateInv
<1> QED
  BY <1>1, <1>2 DEF Running

\* ApplyLookup.
LEMMA ApplyKeeps ==
  ASSUME TypeInv, GateInv, NEW o \in Owners, ApplyLookup(o)
  PROVE  TypeInv' /\ Running(o)
<1>1. PICK now \in Readings :
        \/ /\ At(o, "apply", "end")
           /\ Sampled(res, now) /\ found[o] = {}
           /\ res' = ApplyError(Sample(res, now), token[o].generation, now)
           /\ failedAt' = Unconfirmed({}, now)
        \/ /\ At(o, "apply", "decide")
           /\ Sampled(res, now) /\ found[o] # {}
           /\ res' = ApplyAnswers(Sample(res, now), token[o].generation, found[o], now)
           /\ failedAt' = Unconfirmed(found[o], now)
        \/ /\ At(o, "apply", "end")
           /\ ~Sampled(res, now)
           /\ res' = Sample(res, now)
           /\ UNCHANGED failedAt
  BY DEF ApplyLookup
<1>2. UNCHANGED <<gate, token, found, candidate, published>>
  BY DEF ApplyLookup
<1>3. pc' \in [Owners -> Positions] /\ Running(o)
  BY <1>1, <1>2, MoveRuns DEF Positions
<1>4. now \in Int /\ Sample(res, now) \in State /\ token[o].generation \in Nat /\ found[o] \in SUBSET Addresses
  BY SnapshotTypes, ReadingIsTime DEF TypeInv
<1>5. res' \in State
  <2>1. ApplyError(Sample(res, now), token[o].generation, now) \in State
    BY ONLY <1>4, ApplyFacts
  <2>2. found[o] # {} => ApplyAnswers(Sample(res, now), token[o].generation, found[o], now) \in State
    BY ONLY <1>4, ApplyFacts
  <2> QED
    BY <1>1, <1>4, <2>1, <2>2
<1>6. failedAt' \in Int
  BY <1>1, <1>4 DEF Unconfirmed, TypeInv, NoTime
<1> QED
  BY <1>2, <1>3, <1>5, <1>6 DEF TypeInv

\* The Snapshots of dialCandidate, dialSelected and publish.
LEMMA SnapshotStepKeeps ==
  ASSUME TypeInv, GateInv, NEW o \in Owners, Decide(o) \/ Dial(o) \/ PublishCheck(o)
  PROVE  TypeInv' /\ Running(o) /\ \E now \in Readings : res' = Snapshot(res, now)
<1>1. PICK now \in Readings : res' = Snapshot(res, now)
  BY DEF Decide, Dial, PublishCheck
<1>2. UNCHANGED <<gate, token, found, published, failedAt>>
  BY DEF Decide, Dial, PublishCheck
<1>3. pc' \in [Owners -> Positions] /\ Running(o)
  <2>1. \E from, to \in Positions \ {"idle", "looking"} : At(o, from, to)
    BY DEF Decide, Dial, PublishCheck, Positions
  <2> QED
    BY <1>2, <2>1, MoveRuns
<1>4. res' \in State
  BY <1>1, SnapshotTypes
<1>5. candidate' \in [Owners -> [address : Nat, generation : Nat]]
  BY <1>4 DEF Decide, Dial, PublishCheck, TypeInv, State
<1> QED
  BY <1>1, <1>2, <1>3, <1>4, <1>5 DEF TypeInv

\* CommitPublishedCandidate: the swap and the refused commit.
LEMMA CommitKeeps ==
  ASSUME TypeInv, GateInv, NEW o \in Owners, Commit(o)
  PROVE  TypeInv' /\ Running(o)
<1>1. PICK now \in Readings :
        \/ /\ Sampled(res, now) /\ Committable(o)
           /\ res' = [Sample(res, now) EXCEPT !.current = res.selected, !.available = TRUE, !.stale = FALSE,
                                              !.staleExpired = FALSE, !.staleSince = NoTime]
           /\ Swap(o)
        \/ /\ res' = Snapshot(res, now)
           /\ UNCHANGED <<published, failedAt>>
  BY DEF Commit
<1>2. UNCHANGED <<gate, token, found, candidate>> /\ At(o, "commit", "end")
  BY DEF Commit
<1>3. pc' \in [Owners -> Positions] /\ Running(o)
  BY <1>2, MoveRuns DEF Positions
<1>4. res' \in State
  <2>1. Sample(res, now) \in State /\ Snapshot(res, now) \in State /\ res.selected \in Nat
    BY SnapshotTypes DEF TypeInv, State
  <2> QED
    BY <1>1, <2>1, CommitResTypes, ZenonT(30)
<1>5. published' \in [address : Nat, epoch : Nat] /\ failedAt' \in Int
  BY <1>1 DEF Swap, TypeInv, NoTime
<1> QED
  BY <1>2, <1>3, <1>4, <1>5 DEF TypeInv

\* Maintenance.Begin of a free gate.
LEMMA BeginKeeps ==
  ASSUME TypeInv, GateInv, NEW o \in Owners, Begin(o)
  PROVE  TypeInv' /\ GateInv'
<1>1. /\ gate.active = 0 /\ UNCHANGED <<found, candidate, published, failedAt>>
      /\ gate' = [gate EXCEPT !.next = gate.next + 1, !.active = gate.next + 1]
      /\ token' = [token EXCEPT ![o] = [generation |-> gate.next + 1, inFlight |-> FALSE]]
      /\ At(o, "idle", "lookup")
  BY DEF Begin
<1>2. pc' \in [Owners -> Positions] /\ pc[o] = "idle" /\ pc'[o] = "lookup" /\ \A p \in Owners : p # o => pc'[p] = pc[p]
  BY <1>1, AtTypes DEF Positions
<1>3. res' \in State
  BY SnapshotTypes DEF Begin, TypeInv
<1>4. gate' \in [active : Nat, pending : BOOLEAN, next : Nat] /\ gate'.active = gate.next + 1 /\ gate'.active # 0
  <2>1. gate \in [active : Nat, pending : BOOLEAN, next : Nat] /\ gate.next + 1 \in Nat \ {0}
    BY DEF TypeInv
  <2> QED
    BY <1>1, <2>1
<1>5. /\ token' \in [Owners -> [generation : Nat, inFlight : BOOLEAN]]
      /\ token'[o].generation = gate.next + 1 /\ ~token'[o].inFlight
      /\ \A p \in Owners : p # o => token'[p] = token[p]
  BY <1>1 DEF TypeInv
<1>6. TypeInv'
  BY <1>1, <1>2, <1>3, <1>4, <1>5 DEF TypeInv
<1>7. \A p \in Owners : pc[p] = "idle"
  BY <1>1 DEF GateInv
<1>8. \A p \in Owners : pc'[p] # "idle" => p = o
  BY <1>2, <1>7
<1> QED
  BY <1>2, <1>4, <1>5, <1>6, <1>8 DEF GateInv

\* A Begin that only records a trigger, and readers.
LEMMA ReadKeeps ==
  ASSUME TypeInv, GateInv, (\E o \in Owners : BeginBusy(o)) \/ Read \/ UNCHANGED vars
  PROVE  TypeInv' /\ GateInv'
<1>1. UNCHANGED <<pc, token, found, candidate, published, failedAt>>
  BY DEF BeginBusy, Read, vars
<1>2. gate' \in [active : Nat, pending : BOOLEAN, next : Nat] /\ gate'.active = gate.active
  BY DEF TypeInv, BeginBusy, Read, vars
<1>3. res' \in State
  BY SnapshotTypes DEF TypeInv, BeginBusy, Read, vars
<1> QED
  BY <1>1, <1>2, <1>3 DEF TypeInv, GateInv

\* Maintenance.End is never refused, so it frees the gate.
LEMMA EndKeeps ==
  ASSUME TypeInv, GateInv, NEW o \in Owners, End(o)
  PROVE  TypeInv' /\ GateInv'
<1>1. pc' \in [Owners -> Positions] /\ pc[o] = "end" /\ pc'[o] = "idle" /\ \A p \in Owners : p # o => pc'[p] = pc[p]
  BY AtTypes DEF End, Positions
<1>2. Valid(o) /\ ~token[o].inFlight
  BY <1>1 DEF GateInv, Valid
<1>3. gate' = [gate EXCEPT !.active = 0, !.pending = FALSE] /\ gate'.active = 0
  BY <1>2 DEF End, TypeInv
<1>4. gate' \in [active : Nat, pending : BOOLEAN, next : Nat]
  BY <1>3 DEF TypeInv
<1>5. /\ token' \in [Owners -> [generation : Nat, inFlight : BOOLEAN]]
      /\ ~token'[o].inFlight /\ \A p \in Owners : p # o => token'[p] = token[p]
  BY DEF End, TypeInv, NoToken
<1>6. TypeInv'
  BY <1>1, <1>4, <1>5 DEF End, TypeInv, None
<1>7. \A p \in Owners : pc'[p] = "idle"
  BY <1>1 DEF GateInv
<1>8. \A p \in Owners : ~token'[p].inFlight
  BY <1>1, <1>5, <1>7 DEF GateInv
<1> QED
  BY <1>3, <1>6, <1>7, <1>8 DEF GateInv

\* Every step keeps the types and the gate.
LEMMA GateStep ==
  ASSUME TypeInv, GateInv, [Next]_vars
  PROVE  TypeInv' /\ GateInv'
<1>1. ASSUME NEW o \in Owners,
             Lookup(o) \/ LookupReturns(o) \/ ApplyLookup(o) \/ Decide(o) \/ Dial(o) \/ PublishCheck(o) \/ Commit(o)
      PROVE  TypeInv' /\ GateInv'
  <2>1. TypeInv' /\ Running(o)
    BY <1>1, LookupKeeps, ApplyKeeps, SnapshotStepKeeps, CommitKeeps
  <2> QED
    BY <2>1, RunningKeeps
<1> QED
  BY <1>1, BeginKeeps, ReadKeeps, EndKeeps DEF Next

\* The gate is held by a run in progress, for any number of goroutines that want
\* it: no failed or late lookup leaves a token in flight for which End would be
\* refused, which would end all later maintenance (resolver.go: finishLookup,
\* Maintenance.End).
THEOREM GateIsReleased == Spec => []GateReleased
<1>1. TypeInv /\ GateInv /\ [Next]_vars => (TypeInv /\ GateInv)'
  BY GateStep
<1>2. GateInv => GateReleased
  BY DEF GateInv, GateReleased
<1> QED
  BY InitTypes, <1>1, <1>2, PTL DEF Spec

-----------------------------------------------------------------------------
(* The published socket.                                                   *)

\* Positions between the choice of a candidate and its swap.
Chosen == {"dial", "publish", "commit"}

\* current is the published address, and the selected one while a lookup
\* returns it; a checked candidate is the selected address; and one that would
\* replace the published address by itself was chosen because that had expired.
SocketInv ==
  /\ SocketMatchesCurrent
  /\ published # NoEndpoint => published.address # None
  /\ res.current \in res.answers => res.selected = res.current
  /\ \A o \in Owners : pc[o] = "commit" => res.selected = candidate[o].address
  /\ \A o \in Owners : pc[o] \in Chosen /\ published # NoEndpoint /\ res.selected = res.current
                         => res.staleExpired

\* A Snapshot, of whoever runs it, keeps what the invariant reads.
LEMMA SnapshotSocket ==
  ASSUME TypeInv, NEW now \in Readings, res' = Snapshot(res, now)
  PROVE  /\ SameLookup(res, res') /\ (res.staleExpired => res'.staleExpired)
         /\ ~res'.timeFault /\ res.current # None => (res'.available <=> ~res'.staleExpired)
<1>1. res \in State /\ now \in Int
  BY ReadingIsTime DEF TypeInv
<1> QED
  BY ONLY <1>1, SnapshotFacts, res' = Snapshot(res, now)

\* A step that moves no owner to a chosen position and does not look up or swap.
LEMMA SocketFrame ==
  ASSUME SocketInv, SameLookup(res, res'), res.staleExpired => res'.staleExpired,
         UNCHANGED published,
         \A p \in Owners : /\ pc'[p] \in Chosen => pc[p] \in Chosen
                           /\ pc'[p] = "commit" => pc[p] = "commit" /\ candidate'[p] = candidate[p]
  PROVE  SocketInv'
BY DEF SocketInv, SocketMatchesCurrent, SameLookup

\* Every step keeps it, and a swap replaces the socket only when it has to.
LEMMA SocketStep ==
  ASSUME TypeInv, GateInv, SocketInv, [Next]_vars
  PROVE  /\ SocketInv'
         /\ published # NoEndpoint /\ published'.epoch # published.epoch =>
              IF published'.address = published.address THEN res.staleExpired
              ELSE published.address \notin res.answers
<1> DEFINE Kept == published # NoEndpoint /\ published'.epoch # published.epoch =>
                     IF published'.address = published.address THEN res.staleExpired
                     ELSE published.address \notin res.answers
<1>0. published' = published => Kept
  OBVIOUS
<1> HIDE DEF Kept
<1>1. ASSUME NEW o \in Owners, Begin(o) \/ BeginBusy(o) \/ Lookup(o) \/ LookupReturns(o) \/ End(o)
      PROVE  SocketInv' /\ Kept
  <2>1. published' = published /\ \A p \in Owners : p # o => candidate'[p] = candidate[p]
    BY <1>1 DEF Begin, BeginBusy, Lookup, LookupReturns, End, TypeInv
  <2>2. SameLookup(res, res') /\ (res.staleExpired => res'.staleExpired)
    <3>1. res' = res \/ \E now \in Readings : res' = Snapshot(res, now)
      BY <1>1 DEF Begin, BeginBusy, Lookup, LookupReturns, End
    <3> QED
      BY <3>1, SnapshotSocket DEF SameLookup
  <2>3. \A p \in Owners : /\ pc'[p] \in Chosen => pc[p] \in Chosen
                          /\ pc'[p] = "commit" => pc[p] = "commit" /\ candidate'[p] = candidate[p]
    <3>1. CASE BeginBusy(o)
      BY <3>1 DEF BeginBusy
    <3>2. CASE ~BeginBusy(o)
      <4>1. PICK to \in {"lookup", "looking", "apply", "end", "idle"} : pc' = [pc EXCEPT ![o] = to]
        BY <1>1, <3>2 DEF Begin, Lookup, LookupReturns, End, At
      <4> QED
        BY <2>1, <4>1 DEF TypeInv, Chosen
    <3> QED
      BY <3>1, <3>2
  <2> QED
    BY ONLY SocketInv, <1>0, <2>1, <2>2, <2>3, SocketFrame
<1>2. ASSUME NEW o \in Owners, ApplyLookup(o) PROVE SocketInv' /\ Kept
  <2>1. /\ published' = published /\ pc[o] = "apply" /\ pc'[o] \in {"end", "decide"}
        /\ \A p \in Owners : p # o => pc'[p] = pc[p]
    BY <1>2 DEF ApplyLookup, At, TypeInv
  <2>2. \A p \in Owners : pc'[p] \notin Chosen
    BY <2>1 DEF GateInv, Chosen
  <2>3. /\ res'.current = res.current
        /\ res'.current \in res'.answers => res'.selected = res'.current
    <3>1. PICK now \in Readings :
            \/ res' = ApplyError(Sample(res, now), token[o].generation, now)
            \/ /\ found[o] # {}
               /\ res' = ApplyAnswers(Sample(res, now), token[o].generation, found[o], now)
            \/ res' = Sample(res, now)
      BY <1>2 DEF ApplyLookup
    <3>2. now \in Int /\ token[o].generation \in Nat /\ found[o] \in SUBSET Addresses
      BY ReadingIsTime DEF TypeInv
    <3> DEFINE s == Sample(res, now)
    <3>3. s \in State /\ s.current = res.current /\ s.answers = res.answers /\ s.selected = res.selected
      BY SnapshotTypes DEF SameLookup
    <3> HIDE DEF s
    <3>4. CASE res' = ApplyError(s, token[o].generation, now)
      <4>1. res'.current = s.current /\ res'.answers = s.answers /\ res'.selected = s.selected
        BY ONLY <3>2, <3>3, <3>4, ApplyFacts
      <4> QED
        BY <3>3, <4>1 DEF SocketInv
    <3>5. CASE found[o] # {} /\ res' = ApplyAnswers(s, token[o].generation, found[o], now)
      <4>1. res'.current = s.current /\ res'.answers = found[o] /\ res'.selected = Select(s, found[o])
        BY ONLY <3>2, <3>3, <3>5, ApplyFacts
      <4>2. s.current \in found[o] => Select(s, found[o]) = s.current
        BY ONLY <3>2, <3>3, <3>5, SelectFacts
      <4> QED
        BY <3>3, <4>1, <4>2
    <3>6. CASE res' = s
      BY <3>3, <3>6 DEF SocketInv
    <3> QED
      BY <3>1, <3>4, <3>5, <3>6 DEF s
  <2> QED
    BY <1>0, <2>1, <2>2, <2>3 DEF SocketInv, SocketMatchesCurrent, Chosen
<1>3. ASSUME NEW o \in Owners, Decide(o) PROVE SocketInv' /\ Kept
  <2>1. /\ published' = published /\ pc[o] = "decide" /\ pc'[o] \in {"end", "dial"}
        /\ \A p \in Owners : p # o => pc'[p] = pc[p]
    BY <1>3 DEF Decide, At, TypeInv
  <2>2. \A p \in Owners : pc'[p] # "commit" /\ (pc'[p] \in Chosen => p = o /\ pc'[o] = "dial")
    BY <2>1 DEF GateInv, Chosen
  <2>3. /\ SameLookup(res, res') /\ (res.staleExpired => res'.staleExpired)
        /\ ~res'.timeFault /\ res.current # None => (res'.available <=> ~res'.staleExpired)
    BY <1>3, SnapshotSocket DEF Decide
  <2>4. pc'[o] = "dial" => Usable(o, res') /\ ~Keeps(res')
    BY <1>3, <2>1 DEF Decide, At, TypeInv
  <2>5. pc'[o] = "dial" /\ published # NoEndpoint /\ res'.selected = res'.current => res'.staleExpired
    <3>1. published # NoEndpoint => res.current # None /\ res'.current = published.address
      BY <2>3 DEF SocketInv, SocketMatchesCurrent, SameLookup
    <3> QED
      BY <2>3, <2>4, <3>1 DEF Usable, Keeps
  <2> QED
    BY <1>0, <2>1, <2>2, <2>3, <2>5 DEF SocketInv, SocketMatchesCurrent, SameLookup
<1>4. ASSUME NEW o \in Owners, Dial(o) \/ PublishCheck(o) PROVE SocketInv' /\ Kept
  <2>1. /\ published' = published /\ candidate' = candidate /\ pc[o] \in {"dial", "publish"}
        /\ \A p \in Owners : p # o => pc'[p] = pc[p]
        /\ pc'[o] = "commit" => res'.selected = candidate[o].address
    BY <1>4 DEF Dial, PublishCheck, At, TypeInv
  <2>2. /\ SameLookup(res, res') /\ (res.staleExpired => res'.staleExpired)
    BY <1>4, SnapshotSocket DEF Dial, PublishCheck
  <2>3. \A p \in Owners : /\ pc'[p] \in Chosen => pc[p] \in Chosen
                          /\ pc'[p] = "commit" /\ p # o => pc[p] = "commit"
    BY <2>1 DEF Chosen
  <2> QED
    BY <1>0, <2>1, <2>2, <2>3 DEF SocketInv, SocketMatchesCurrent, SameLookup
<1>5. ASSUME NEW o \in Owners, Commit(o) PROVE SocketInv' /\ Kept
  <2>1. /\ candidate' = candidate /\ pc[o] = "commit" /\ pc'[o] = "end"
        /\ \A p \in Owners : p # o => pc'[p] = pc[p]
    BY <1>5 DEF Commit, At, TypeInv
  <2>2. \A p \in Owners : pc'[p] \notin Chosen
    BY <2>1 DEF GateInv, Chosen
  <2>3. PICK now \in Readings :
          \/ /\ Committable(o)
             /\ res' = [Sample(res, now) EXCEPT !.current = res.selected, !.available = TRUE, !.stale = FALSE,
                                                !.staleExpired = FALSE, !.staleSince = NoTime]
             /\ Swap(o)
          \/ res' = Snapshot(res, now) /\ UNCHANGED published
    BY <1>5 DEF Commit
  <2>4. CASE res' = Snapshot(res, now) /\ UNCHANGED published
    <3>1. SameLookup(res, res') /\ (res.staleExpired => res'.staleExpired)
      BY <2>4, SnapshotSocket
    <3>2. \A p \in Owners : /\ pc'[p] \in Chosen => pc[p] \in Chosen
                            /\ pc'[p] = "commit" => pc[p] = "commit" /\ candidate'[p] = candidate[p]
      BY <2>2 DEF Chosen
    <3> QED
      BY ONLY SocketInv, <1>0, <2>4, <3>1, <3>2, SocketFrame
  <2>5. CASE /\ Committable(o) /\ Swap(o)
             /\ res' = [Sample(res, now) EXCEPT !.current = res.selected, !.available = TRUE, !.stale = FALSE,
                                                !.staleExpired = FALSE, !.staleSince = NoTime]
    <3>1. Sample(res, now) \in State /\ Sample(res, now).selected = res.selected /\ res.selected \in Nat
      BY SnapshotTypes DEF SameLookup, TypeInv, State
    <3>2. res'.current = res.selected /\ res'.selected = res.selected
      BY <2>5, <3>1, CommitResTypes
    <3>3. published'.address = res.selected /\ res.selected # None
      BY <2>1, <2>5 DEF Swap, SocketInv, Committable
    <3>4. SocketInv'
      BY <2>2, <3>2, <3>3 DEF SocketInv, SocketMatchesCurrent, Chosen
    <3>5. Kept
      BY <2>1, <3>3 DEF Kept, SocketInv, SocketMatchesCurrent, Chosen
    <3> QED
      BY <3>4, <3>5
  <2> QED
    BY <2>3, <2>4, <2>5
<1>6. ASSUME Read \/ UNCHANGED vars PROVE SocketInv' /\ Kept
  <2>1. UNCHANGED <<pc, candidate, published>>
    BY <1>6 DEF Read, vars
  <2>2. SameLookup(res, res') /\ (res.staleExpired => res'.staleExpired)
    BY <1>6, SnapshotSocket DEF Read, vars, SameLookup
  <2> QED
    BY <1>0, <2>1, <2>2, SocketFrame
<1>7. SocketInv' /\ Kept
  BY <1>1, <1>2, <1>3, <1>4, <1>5, <1>6 DEF Next
<1> QED
  BY <1>7 DEF Kept

\* Nothing is published at first.
LEMMA SocketInit == Init => SocketInv
BY DEF Init, SocketInv, SocketMatchesCurrent, NoEndpoint, None, Chosen

\* The resolver calls current exactly the address of the published socket, for
\* every interleaving of runs, readers and refused metadata commits
\* (publication.go: the swap follows CommitPublishedCandidate).
THEOREM SocketIsCurrent == Spec => []SocketMatchesCurrent
<1>1. TypeInv /\ GateInv /\ [Next]_vars => (TypeInv /\ GateInv)'
  BY GateStep
<1>2. TypeInv /\ GateInv /\ SocketInv /\ [Next]_vars => SocketInv'
  BY SocketStep
<1>3. SocketInv => SocketMatchesCurrent
  BY DEF SocketInv
<1> QED
  BY InitTypes, SocketInit, <1>1, <1>2, <1>3, PTL DEF Spec

\* A socket and its epoch are replaced only when they have to be: by another
\* address when the lookup no longer returns this one, by the same address when
\* its retention had expired (candidate.go: dialCandidate; resolver.go: the
\* selection of ApplyLookup).
THEOREM EpochIsKept == Spec => EpochKept
<1>1. TypeInv /\ GateInv /\ [Next]_vars => (TypeInv /\ GateInv)'
  BY GateStep
<1>2. TypeInv /\ GateInv /\ SocketInv /\ [Next]_vars => SocketInv'
  BY SocketStep
<1>3. Spec => [](TypeInv /\ GateInv /\ SocketInv)
  BY InitTypes, SocketInit, <1>1, <1>2, PTL DEF Spec
<1>4. TypeInv /\ GateInv /\ SocketInv /\ [Next]_vars
        => [published # NoEndpoint /\ published'.epoch # published.epoch =>
              IF published'.address = published.address THEN res.staleExpired
              ELSE published.address \notin res.answers]_vars
  BY SocketStep
<1> QED
  BY <1>3, <1>4, PTL DEF Spec, EpochKept

-----------------------------------------------------------------------------
(* Freshness.                                                              *)

\* The state's own bookkeeping agrees with the history f of the first lookup
\* that did not confirm the published address: stale since exactly then,
\* expired only after the retention, and available only before.
Fresh(s, f) ==
  /\ s.stale <=> f # NoTime
  /\ s.stale => s.staleSince = f /\ f <= s.lastSample
  /\ s.staleExpired => s.stale /\ s.lastSample - f >= StaleAfter
  /\ s.current = None => ~s.stale
  /\ s.available => /\ ~s.timeFault /\ ~s.staleExpired /\ s.current # None
                    /\ s.stale => s.lastSample - f < StaleAfter

\* A Snapshot latches expiry in time.
LEMMA SnapshotFresh ==
  ASSUME NEW s \in State, NEW now \in Int, NEW f \in Int, Fresh(s, f)
  PROVE  Fresh(Snapshot(s, now), f)
<1> DEFINE t == Sample(s, now)
<1>0. /\ StaleAfter \in Nat /\ s.stale \in BOOLEAN /\ s.staleExpired \in BOOLEAN
      /\ s.staleSince \in Int /\ s.lastSample \in Int
  BY ResolverAssumption DEF ResolverAssumption, State
<1>1. /\ t \in State /\ SameLookup(s, t) /\ t.stale = s.stale /\ t.staleSince = s.staleSince
      /\ t.staleExpired = s.staleExpired
      /\ Sampled(s, now) => t.lastSample = now /\ ~t.timeFault /\ now >= s.lastSample
      /\ ~Sampled(s, now) => t.lastSample = s.lastSample /\ ~t.available
  BY SampleFacts
<1> HIDE DEF t
<1>2. CASE Sampled(s, now)
  <2> DEFINE u == Evaluate(t, now)
  <2>1. /\ u.current = t.current /\ u.lastSample = t.lastSample /\ u.timeFault = t.timeFault
        /\ u.stale = t.stale /\ u.staleSince = t.staleSince
        /\ t.current = None \/ t.timeFault => ~u.available /\ u.staleExpired = t.staleExpired
        /\ t.current # None /\ ~t.timeFault =>
             /\ u.staleExpired <=>
                  t.staleExpired \/ (t.stale /\ now >= t.staleSince /\ now - t.staleSince >= StaleAfter)
             /\ u.available <=> ~u.staleExpired
    BY <1>1, EvaluateFacts DEF SameLookup
  <2> HIDE DEF u
  <2>2. Fresh(u, f)
    BY <1>0, <1>1, <1>2, <2>1 DEF Fresh, SameLookup
  <2> QED
    BY <1>2, <2>2 DEF Snapshot, u, t
<1>3. CASE ~Sampled(s, now)
  <2>1. Fresh(t, f)
    BY <1>0, <1>1, <1>3 DEF Fresh, SameLookup
  <2> QED
    BY <1>3, <2>1 DEF Snapshot, t
<1> QED
  BY <1>2, <1>3

\* After an accepted reading: what beginStaleLocked and the evaluation leave.
LEMMA StaleFresh ==
  ASSUME NEW t \in State, NEW now \in Int, NEW f \in Int, now # NoTime,
         ~t.timeFault, t.lastSample = now,
         t.stale <=> f # NoTime, t.stale => t.staleSince = f /\ f <= now,
         t.staleExpired => t.stale /\ now - f >= StaleAfter,
         t.current = None => ~t.stale
  PROVE  Fresh(Evaluate(BeginStale(t, now), now),
               IF t.current = None \/ f # NoTime THEN f ELSE now)
<1> DEFINE b == BeginStale(t, now)
           u == Evaluate(b, now)
           g == IF t.current = None \/ f # NoTime THEN f ELSE now
<1>0. /\ StaleAfter \in Nat \ {0} /\ t.stale \in BOOLEAN /\ t.staleExpired \in BOOLEAN
      /\ t.staleSince \in Int /\ t.lastSample \in Int
  BY ResolverAssumption DEF ResolverAssumption, State
<1>1. /\ b \in State /\ b.current = t.current /\ b.lastSample = now /\ ~b.timeFault
      /\ t.current = None \/ t.stale => b = t
      /\ t.current # None /\ ~t.stale => b.stale /\ b.staleSince = now /\ ~b.staleExpired
  BY BeginStaleFacts DEF SameLookup
<1> HIDE DEF b
<1>2. /\ u.current = b.current /\ u.lastSample = b.lastSample /\ u.timeFault = b.timeFault
      /\ u.stale = b.stale /\ u.staleSince = b.staleSince
      /\ b.current = None \/ b.timeFault => ~u.available /\ u.staleExpired = b.staleExpired
      /\ b.current # None /\ ~b.timeFault =>
           /\ u.staleExpired <=>
                b.staleExpired \/ (b.stale /\ now >= b.staleSince /\ now - b.staleSince >= StaleAfter)
           /\ u.available <=> ~u.staleExpired
  BY <1>1, EvaluateFacts DEF SameLookup
<1> HIDE DEF u
<1>3. g = IF t.current = None \/ f # NoTime THEN f ELSE now
  OBVIOUS
<1> HIDE DEF g
<1>4. ASSUME t.current = None \/ t.stale PROVE Fresh(u, g)
  <2>1. b = t /\ g = f
    BY <1>1, <1>3, <1>4
  <2> QED
    BY <1>0, <1>1, <1>2, <2>1 DEF Fresh
<1>5. ASSUME t.current # None, ~t.stale PROVE Fresh(u, g)
  <2>1. g = now
    BY <1>3, <1>5
  <2> QED
    BY <1>0, <1>1, <1>2, <1>5, <2>1 DEF Fresh
<1>6. Fresh(u, g)
  BY <1>4, <1>5
<1> QED
  BY <1>6 DEF u, b, g

\* ApplyLookup of an error.
LEMMA ErrorFresh ==
  ASSUME TypeInv, SocketMatchesCurrent, Fresh(res, failedAt), NEW now \in Readings, Sampled(res, now),
         NEW g \in Nat
  PROVE  Fresh(ApplyError(Sample(res, now), g, now), Unconfirmed({}, now))
<1> DEFINE s == Sample(res, now)
           t == NotedError(s, g, now)
<1>0. now \in Int /\ now # NoTime /\ res \in State /\ failedAt \in Int
  BY ReadingIsTime DEF TypeInv, NoTime
<1>1. /\ s \in State /\ s.current = res.current /\ s.stale = res.stale /\ s.staleSince = res.staleSince
      /\ s.staleExpired = res.staleExpired /\ s.lastSample = now /\ ~s.timeFault /\ now >= res.lastSample
  BY <1>0, SampleFacts DEF SameLookup
<1> HIDE DEF s
<1>2. /\ t \in State /\ t.current = s.current /\ t.stale = s.stale /\ t.staleSince = s.staleSince
      /\ t.staleExpired = s.staleExpired /\ t.lastSample = s.lastSample /\ t.timeFault = s.timeFault
  BY ONLY <1>0, <1>1, ErrorFacts, g \in Nat
<1>3. ApplyError(s, g, now) = Evaluate(BeginStale(t, now), now)
  BY DEF ApplyError, NotedError
<1> HIDE DEF t
<1>4. /\ t.stale <=> failedAt # NoTime
      /\ t.stale => t.staleSince = failedAt /\ failedAt <= now
      /\ t.staleExpired => t.stale /\ now - failedAt >= StaleAfter
      /\ t.current = None => ~t.stale
  BY <1>0, <1>1, <1>2, ResolverAssumption DEF ResolverAssumption, Fresh, State
<1>5. Fresh(Evaluate(BeginStale(t, now), now), IF t.current = None \/ failedAt # NoTime THEN failedAt ELSE now)
  BY ONLY <1>0, <1>1, <1>2, <1>4, StaleFresh
<1>6. Unconfirmed({}, now) = IF t.current = None \/ failedAt # NoTime THEN failedAt ELSE now
  BY <1>1, <1>2, <1>4 DEF Unconfirmed, SocketMatchesCurrent
<1> QED
  BY <1>3, <1>5, <1>6 DEF s

\* ApplyLookup of answers.
LEMMA AnswersFresh ==
  ASSUME TypeInv, SocketMatchesCurrent, Fresh(res, failedAt), NEW now \in Readings, Sampled(res, now),
         NEW g \in Nat, NEW answers \in SUBSET Addresses, answers # {}
  PROVE  Fresh(ApplyAnswers(Sample(res, now), g, answers, now), Unconfirmed(answers, now))
<1> DEFINE s == Sample(res, now)
           t == Noted(s, g, answers, now)
           u == Evaluate(t, now)
           v == Confirm(u, answers, now)
<1>0. /\ now \in Int /\ now # NoTime /\ res \in State /\ failedAt \in Int /\ None \notin answers
      /\ StaleAfter \in Nat
  BY ReadingIsTime, ResolverAssumption DEF ResolverAssumption, TypeInv, NoTime, None
<1>1. /\ s \in State /\ s.current = res.current /\ s.stale = res.stale /\ s.staleSince = res.staleSince
      /\ s.staleExpired = res.staleExpired /\ s.lastSample = now /\ ~s.timeFault /\ now >= res.lastSample
  BY <1>0, SampleFacts DEF SameLookup
<1>2. v = ApplyAnswers(s, g, answers, now)
  BY DEF ApplyAnswers, Noted
<1> HIDE DEF s
<1>3. /\ t \in State /\ t.current = s.current /\ t.stale = s.stale /\ t.staleSince = s.staleSince
      /\ t.staleExpired = s.staleExpired /\ t.lastSample = s.lastSample /\ t.timeFault = s.timeFault
  <2>1. s \in State /\ now \in Int
    BY <1>0, <1>1
  <2> QED
    BY <2>1, NotedFacts
<1> HIDE DEF t
<1>4. /\ u \in State /\ u.current = t.current /\ u.lastSample = t.lastSample /\ u.timeFault = t.timeFault
      /\ u.stale = t.stale /\ u.staleSince = t.staleSince
      /\ t.current = None \/ t.timeFault => u.staleExpired = t.staleExpired
      /\ t.current # None /\ ~t.timeFault =>
           (u.staleExpired <=>
              t.staleExpired \/ (t.stale /\ now >= t.staleSince /\ now - t.staleSince >= StaleAfter))
  BY <1>0, <1>3, EvaluateFacts DEF SameLookup
<1> HIDE DEF u
<1>5. /\ u.stale <=> failedAt # NoTime
      /\ u.stale => u.staleSince = failedAt /\ failedAt <= now
      /\ u.staleExpired => u.stale /\ now - failedAt >= StaleAfter
      /\ u.current = None => ~u.stale
      /\ u.current = published.address /\ ~u.timeFault /\ u.lastSample = now
  BY <1>0, <1>1, <1>3, <1>4 DEF Fresh, State, SocketMatchesCurrent
<1>6. u.current # None => (u.staleExpired <=> failedAt # NoTime /\ now - failedAt >= StaleAfter)
  BY <1>0, <1>1, <1>3, <1>4, <1>5 DEF State
<1>7. ASSUME u.current \in answers, ~u.staleExpired PROVE Fresh(v, Unconfirmed(answers, now))
  <2>1. v = [u EXCEPT !.stale = FALSE, !.staleSince = NoTime, !.available = TRUE]
    BY <1>7 DEF Confirm
  <2>2. /\ v.stale = FALSE /\ v.available = TRUE /\ v.current = u.current
        /\ v.staleExpired = u.staleExpired /\ v.timeFault = u.timeFault
    BY <1>4, <2>1 DEF State
  <2> HIDE DEF v
  <2>3. Unconfirmed(answers, now) = NoTime
    BY <1>0, <1>5, <1>6, <1>7 DEF Unconfirmed
  <2> QED
    BY <1>0, <1>5, <1>7, <2>2, <2>3 DEF Fresh
<1>8. ASSUME ~(u.current \in answers /\ ~u.staleExpired), u.current # None
      PROVE  Fresh(v, Unconfirmed(answers, now))
  <2>1. v = Evaluate(BeginStale(u, now), now)
    BY <1>8 DEF Confirm
  <2>2. Fresh(v, IF u.current = None \/ failedAt # NoTime THEN failedAt ELSE now)
    BY ONLY <1>0, <1>4, <1>5, <2>1, StaleFresh
  <2>3. Unconfirmed(answers, now) = IF u.current = None \/ failedAt # NoTime THEN failedAt ELSE now
    BY <1>5, <1>6, <1>8 DEF Unconfirmed
  <2> QED
    BY <2>2, <2>3
<1>9. ASSUME u.current = None PROVE Fresh(v, Unconfirmed(answers, now))
  <2>1. v = [u EXCEPT !.available = FALSE]
    BY <1>0, <1>9 DEF Confirm
  <2>2. /\ v.stale = u.stale /\ v.available = FALSE /\ v.current = u.current /\ v.staleExpired = u.staleExpired
    BY <1>4, <2>1 DEF State
  <2> HIDE DEF v
  <2>3. Unconfirmed(answers, now) = NoTime /\ failedAt = NoTime
    BY <1>5, <1>9 DEF Unconfirmed
  <2> QED
    BY <1>0, <1>5, <1>9, <2>2, <2>3 DEF Fresh
<1> QED
  BY <1>2, <1>7, <1>8, <1>9 DEF s

\* Every step keeps the bookkeeping in step with the history.
LEMMA FreshStep ==
  ASSUME TypeInv, SocketInv, Fresh(res, failedAt), [Next]_vars
  PROVE  Fresh(res, failedAt)'
<1>0. res \in State /\ failedAt \in Int /\ SocketMatchesCurrent
  BY DEF TypeInv, SocketInv
<1>1. CASE UNCHANGED <<res, failedAt>>
  BY <1>1 DEF Fresh
<1>2. ASSUME NEW now \in Readings, res' = Snapshot(res, now), failedAt' = failedAt
      PROVE  Fresh(res, failedAt)'
  <2>1. Fresh(Snapshot(res, now), failedAt)
    BY <1>0, SnapshotFresh, ReadingIsTime
  <2> QED
    BY <1>2, <2>1 DEF Fresh
<1>3. ASSUME NEW o \in Owners, ApplyLookup(o) PROVE Fresh(res, failedAt)'
  <2>0. token[o].generation \in Nat /\ found[o] \in SUBSET Addresses
    BY DEF TypeInv
  <2>1. PICK now \in Readings :
          \/ /\ Sampled(res, now)
             /\ res' = ApplyError(Sample(res, now), token[o].generation, now)
             /\ failedAt' = Unconfirmed({}, now)
          \/ /\ Sampled(res, now) /\ found[o] # {}
             /\ res' = ApplyAnswers(Sample(res, now), token[o].generation, found[o], now)
             /\ failedAt' = Unconfirmed(found[o], now)
          \/ /\ ~Sampled(res, now) /\ res' = Sample(res, now) /\ UNCHANGED failedAt
    BY <1>3 DEF ApplyLookup
  <2>2. CASE /\ Sampled(res, now)
             /\ res' = ApplyError(Sample(res, now), token[o].generation, now)
             /\ failedAt' = Unconfirmed({}, now)
    <3>1. Fresh(ApplyError(Sample(res, now), token[o].generation, now), Unconfirmed({}, now))
      BY ONLY TypeInv, Fresh(res, failedAt), <1>0, <2>0, <2>2, ErrorFresh, now \in Readings
    <3> QED
      BY <2>2, <3>1 DEF Fresh
  <2>3. CASE /\ Sampled(res, now) /\ found[o] # {}
             /\ res' = ApplyAnswers(Sample(res, now), token[o].generation, found[o], now)
             /\ failedAt' = Unconfirmed(found[o], now)
    <3>1. Fresh(ApplyAnswers(Sample(res, now), token[o].generation, found[o], now), Unconfirmed(found[o], now))
      BY ONLY TypeInv, Fresh(res, failedAt), <1>0, <2>0, <2>3, AnswersFresh, now \in Readings
    <3> QED
      BY <2>3, <3>1 DEF Fresh
  <2>4. CASE ~Sampled(res, now) /\ res' = Sample(res, now) /\ UNCHANGED failedAt
    <3>1. res' = Snapshot(res, now)
      BY <2>4 DEF Snapshot
    <3> QED
      BY <1>2, <2>4, <3>1
  <2> QED
    BY <2>1, <2>2, <2>3, <2>4
<1>4. ASSUME NEW o \in Owners, Commit(o) PROVE Fresh(res, failedAt)'
  <2>1. PICK now \in Readings :
          \/ /\ Sampled(res, now) /\ Committable(o)
             /\ res' = [Sample(res, now) EXCEPT !.current = res.selected, !.available = TRUE, !.stale = FALSE,
                                                !.staleExpired = FALSE, !.staleSince = NoTime]
             /\ failedAt' = NoTime
          \/ res' = Snapshot(res, now) /\ UNCHANGED failedAt
    BY <1>4 DEF Commit, Swap
  <2>2. CASE res' = Snapshot(res, now) /\ UNCHANGED failedAt
    BY <1>2, <2>2
  <2>3. CASE /\ Sampled(res, now) /\ Committable(o)
             /\ res' = [Sample(res, now) EXCEPT !.current = res.selected, !.available = TRUE, !.stale = FALSE,
                                                !.staleExpired = FALSE, !.staleSince = NoTime]
             /\ failedAt' = NoTime
    <3>1. Sample(res, now) \in State /\ ~Sample(res, now).timeFault /\ res.selected \in Nat
      BY <1>0, <2>3, SampleFacts, ReadingIsTime DEF State
    <3>2. /\ res'.current = res.selected /\ res'.available /\ ~res'.stale /\ ~res'.staleExpired /\ ~res'.timeFault
      BY <2>3, <3>1, CommitResTypes
    <3> QED
      BY <2>3, <3>2 DEF Fresh, Committable
  <2> QED
    BY <2>1, <2>2, <2>3
<1>5. ASSUME NEW o \in Owners, Decide(o) \/ Dial(o) \/ PublishCheck(o) PROVE Fresh(res, failedAt)'
  BY <1>2, <1>5 DEF Decide, Dial, PublishCheck
<1>6. ASSUME NEW o \in Owners, Begin(o) PROVE Fresh(res, failedAt)'
  BY <1>1, <1>2, <1>6 DEF Begin
<1>7. ASSUME NEW o \in Owners, BeginBusy(o) \/ Lookup(o) \/ LookupReturns(o) \/ End(o) PROVE Fresh(res, failedAt)'
  BY <1>1, <1>7 DEF BeginBusy, Lookup, LookupReturns, End
<1>8. ASSUME Read PROVE Fresh(res, failedAt)'
  BY <1>2, <1>8 DEF Read
<1>9. ASSUME UNCHANGED vars PROVE Fresh(res, failedAt)'
  BY <1>1, <1>9 DEF vars
<1> QED
  BY <1>3, <1>4, <1>5, <1>6, <1>7, <1>8, <1>9 DEF Next

\* An address is not served past its retention, for every clock, retention and
\* interleaving of lookups and readers: available implies that less than
\* StaleAfter has passed since the first lookup that did not confirm it
\* (resolver.go: beginStaleLocked, evaluateAvailabilityLocked, sampleLocked).
THEOREM ServedAddressIsFresh == Spec => []ServedIsFresh
<1>1. TypeInv /\ GateInv /\ [Next]_vars => (TypeInv /\ GateInv)'
  BY GateStep
<1>2. TypeInv /\ GateInv /\ SocketInv /\ [Next]_vars => SocketInv'
  BY SocketStep
<1>3. TypeInv /\ SocketInv /\ Fresh(res, failedAt) /\ [Next]_vars => Fresh(res, failedAt)'
  BY FreshStep
<1>4. Init => Fresh(res, failedAt)
  BY DEF Init, Fresh, None
<1>5. Fresh(res, failedAt) => ServedIsFresh
  BY DEF Fresh, ServedIsFresh
<1> QED
  BY InitTypes, SocketInit, <1>1, <1>2, <1>3, <1>4, <1>5, PTL DEF Spec

-----------------------------------------------------------------------------
(* The writer.  The callback of a call runs only between its Arm and its   *)
(* Stop, which the writer's mutex keeps to one call at a time.             *)

Inside    == {"check", "arm", "write", "deactivate", "stop", "clear", "unlock"}
Armed     == {"armed", "fired", "setting", "closing"}

WriterTypeInv ==
  /\ at \in [Calls -> Inside \cup {"enter", "returned"}]
  /\ mu \in Calls \cup {Nobody}
  /\ callback \in [Calls -> Armed \cup {"unarmed", "done", "stopped"}]

\* A call past Lock and before Unlock holds the mutex.
Exclusive == \A c \in Calls : at[c] \in Inside => mu = c

\* A callback that is registered or running belongs to a call that will still
\* stop or join it.
CallbackInside == \A c \in Calls : callback[c] \in Armed => at[c] \in {"write", "deactivate", "stop"}

\* From SetWriteDeadline to the clearing one nobody else sets the deadline.
DeadlineMine ==
  \A c \in Calls : at[c] \in {"arm", "write", "deactivate", "stop", "clear"} => closed \/ setBy = c

WriterInv == WriterTypeInv /\ Exclusive /\ CallbackInside /\ DeadlineMine

\* The invariant holds initially.
LEMMA InitInv == WriterInit => WriterInv
BY DEF WriterInit, WriterInv, WriterTypeInv, Exclusive, CallbackInside, DeadlineMine, Inside, Armed

\* Every step of a call keeps it.
LEMMA CallInv ==
  ASSUME WriterInv, NEW c \in Calls, CallStep(c) \/ WriteCompletes(c)
  PROVE  WriterInv'
<1> USE CallsAssumption DEF CallsAssumption, Go, Inside, Armed
<1> USE DEF WriterInv, WriterTypeInv, Exclusive, CallbackInside, DeadlineMine
<1>1. CASE Lock(c)
  BY <1>1 DEF Lock
<1>2. CASE Check(c)
  BY <1>2 DEF Check, SetDeadline
<1>3. CASE Arm(c)
  BY <1>3 DEF Arm
<1>4. CASE WriteInterrupted(c) \/ WriteCompletes(c)
  BY <1>4 DEF WriteInterrupted, WriteCompletes
<1>5. CASE Deactivate(c)
  BY <1>5 DEF Deactivate
<1>6. CASE Stop(c)
  BY <1>6 DEF Stop
<1>7. CASE Clear(c)
  BY <1>7 DEF Clear, SetDeadline
<1>8. CASE Unlock(c)
  BY <1>8 DEF Unlock
<1> QED
  BY <1>1, <1>2, <1>3, <1>4, <1>5, <1>6, <1>7, <1>8 DEF CallStep

\* Every step of a callback keeps it.
LEMMA CallbackInv ==
  ASSUME WriterInv, NEW c \in Calls, CallbackStep(c)
  PROVE  WriterInv'
<1> USE CallsAssumption DEF CallsAssumption, Inside, Armed
<1> USE DEF WriterInv, WriterTypeInv, Exclusive, CallbackInside, DeadlineMine
<1>1. CASE Fire(c)
  BY <1>1 DEF Fire
<1>2. CASE LoadActive(c)
  BY <1>2 DEF LoadActive
<1>3. CASE PullIn(c)
  <2>1. WriterTypeInv' /\ Exclusive' /\ CallbackInside'
    BY <1>3 DEF PullIn
  <2>2. \A d \in Calls : at[d] \in Inside => d = c
    BY <1>3 DEF PullIn
  <2>3. DeadlineMine'
    BY <1>3, <2>2 DEF PullIn, SetDeadline
  <2> QED
    BY <2>1, <2>3
<1>4. CASE CloseDone(c)
  BY <1>4 DEF CloseDone
<1> QED
  BY <1>1, <1>2, <1>3, <1>4 DEF CallbackStep

\* Every step of the specification keeps it.
LEMMA NextInv == WriterInv /\ [WriterNext]_writerVars => WriterInv'
<1> SUFFICES ASSUME WriterInv, [WriterNext]_writerVars PROVE WriterInv'
  OBVIOUS
<1>1. ASSUME NEW c \in Calls, CallStep(c) \/ WriteCompletes(c) PROVE WriterInv'
  BY <1>1, CallInv
<1>2. ASSUME NEW c \in Calls, CallbackStep(c) PROVE WriterInv'
  BY <1>2, CallbackInv
<1>3. CASE (\E c \in Calls : CancelContext(c)) \/ DeadlinePasses
  BY <1>3 DEF CancelContext, DeadlinePasses, WriterInv, WriterTypeInv, Exclusive, CallbackInside, DeadlineMine
<1>4. CASE CloseConn
  BY <1>4 DEF CloseConn, WriterInv, WriterTypeInv, Exclusive, CallbackInside, DeadlineMine
<1>5. CASE UNCHANGED writerVars
  BY <1>5 DEF writerVars, WriterInv, WriterTypeInv, Exclusive, CallbackInside, DeadlineMine
<1> QED
  BY <1>1, <1>2, <1>3, <1>4, <1>5 DEF WriterNext

\* The invariant gives the property: two calls cannot be inside at once.
LEMMA InvOwned == WriterInv => DeadlineOwned
BY DEF WriterInv, WriterTypeInv, Exclusive, CallbackInside, DeadlineMine, DeadlineOwned, Inside, Armed

\* For any number of calls on one Writer, a call in its write has its own
\* deadline and no foreign callback can change it (Writer.Write).
THEOREM DeadlineIsOwned == WriterSpec => []DeadlineOwned
<1>1. WriterInit => WriterInv
  BY InitInv
<1>2. WriterInv /\ [WriterNext]_writerVars => WriterInv'
  BY NextInv
<1>3. WriterInv => DeadlineOwned
  BY InvOwned
<1> QED
  BY <1>1, <1>2, <1>3, PTL DEF WriterSpec
=============================================================================
