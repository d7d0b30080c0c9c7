------------------------------- MODULE Lifetime -------------------------------
(***************************************************************************)
(* The uptime gauges: Runtime.Lifetime (lifetime.go) and the callback that *)
(* observes it (telemetry_lifetime.go), beside the operations of State.    *)
(*                                                                         *)
(* The wall clock is read before the locks are taken, so any number of     *)
(* State operations may run between the reading and the copy of the State  *)
(* fields.  The projection works on the copies only and is one step with   *)
(* the copy.  observed lasts until the next step of anybody else, so a     *)
(* property of it speaks about the State that was copied.                  *)
(***************************************************************************)
EXTENDS DestinationState

CONSTANTS NotSampled,    \* no Lifetime call is between its reading and its copy
          NotObserved    \* no collection just ended

VARIABLES sampledWall,   \* the reading a running Lifetime call holds
          observed       \* the snapshot of the call that just ended, with its reading

lifetimeVars == <<vars, sampledWall, observed>>

\* lifetimeLimitMilliseconds: the first uptime the header field cannot hold.
LifetimeLimit == MaxUptime + 1

\* LifetimeSnapshot: unknown has no remaining time, latched is the State latch.
NotApplicable       == [applicable |-> FALSE, known |-> FALSE, remaining |-> 0, exhausted |-> FALSE]
Unknown             == [NotApplicable EXCEPT !.applicable = TRUE]
Remaining(n)        == [Unknown EXCEPT !.known = TRUE, !.remaining = n]
Latched             == [Remaining(0) EXCEPT !.exhausted = TRUE]

\* Mutant of ProjectedWall: the reading is taken as it is.
ProjectedWallRaw(wall) == wall

\* A reading older than the last reservation counts as that reservation.
ProjectedWall(wall) ==
  IF lastReservedWall # NoTime /\ wall < lastReservedWall THEN lastReservedWall ELSE wall

\* The projection of a reading and the copied State.  An uptime beyond the limit
\* is a known zero even when it is not a whole number of milliseconds.
Projection(wall) ==
  LET origin  == IF UptimeOrigin # NoTime THEN UptimeOrigin ELSE epoch.startOrigin
      t       == ProjectedWall(wall)
      elapsed == (t - origin) \div NanosPerMilli
  IN
  IF Protocol \notin {"v5", "v9"}                     THEN NotApplicable
  ELSE IF epoch.uptimeExhausted                       THEN Latched
  ELSE IF origin = NoTime                             THEN Unknown
  ELSE IF t > MaxExportWall \/ t < origin             THEN Unknown
  ELSE IF elapsed >= LifetimeLimit                    THEN Remaining(0)
  ELSE IF (t - origin) % NanosPerMilli # 0            THEN Unknown
  ELSE Remaining(LifetimeLimit - elapsed)

\* The callback: nothing for a snapshot that is not applicable, otherwise the
\* exhausted gauge, and the remaining gauge when it is known.
Gauges(s) ==
  [exhausted |-> IF s.applicable THEN {IF s.exhausted THEN 1 ELSE 0} ELSE {},
   remaining |-> IF s.applicable /\ s.known THEN {s.remaining} ELSE {}]

\* clock.Now, before either lock.
SampleClock(wall) ==
  /\ sampledWall = NotSampled
  /\ sampledWall' = wall /\ observed' = NotObserved
  /\ UNCHANGED vars

\* The copy under lifecycle and State.mu, and the projection.  A closing Runtime,
\* or one that published nothing, has no snapshot; a published State is ready.
CopyAndProject ==
  /\ sampledWall # NotSampled
  /\ \/ observed' = [wall |-> sampledWall, gauges |-> Gauges(NotApplicable)]
     \/ epoch.ready /\ observed' = [wall |-> sampledWall, gauges |-> Gauges(Projection(sampledWall))]
  /\ sampledWall' = NotSampled
  /\ UNCHANGED vars

StateStep == Next /\ observed' = NotObserved /\ UNCHANGED sampledWall

LifetimeInit == Init /\ sampledWall = NotSampled /\ observed = NotObserved

LifetimeNext ==
  \/ \E wall \in Walls : SampleClock(wall)
  \/ CopyAndProject
  \/ StateStep

LifetimeSpec == LifetimeInit /\ [][LifetimeNext]_lifetimeVars

-----------------------------------------------------------------------------
(* Properties.                                                             *)

\* The gauges never promise time that State would refuse (lifetime.go:33-36,
\* 71-100).  A published remaining time is at most what the latest header that
\* may be on the wire leaves, although the clock was read before the State was
\* copied and may have stepped back; it is positive exactly when a packet begun
\* at that reading is reserved, with that much uptime left; and it is zero
\* exactly when State has latched exhaustion or would latch it at that reading.
GaugesMatchState ==
  observed # NotObserved /\ observed.gauges.exhausted # {} =>
    LET t == Clamp(observed.wall) left == observed.gauges.remaining IN
    /\ \A r \in left : wireInstant # NoTime => r <= LifetimeLimit - Uptime(wireInstant)
    /\ (\E r \in left : r > 0) <=> ~epoch.uptimeExhausted /\ Reservable(t)
    /\ \A r \in left : r > 0 => Uptime(t) = LifetimeLimit - r
    /\ 0 \in left <=> epoch.uptimeExhausted \/ Exhausts(t)
    /\ 1 \in observed.gauges.exhausted => left = {0}

=============================================================================
