------------------------------ MODULE UDPWriter ------------------------------
(***************************************************************************)
(* Writer.Write (internal/transport/udp.go): one datagram handed to the    *)
(* connected socket, bounded by a deadline that a cancellation callback    *)
(* pulls in.  The callback runs in a goroutine of its own and shares the   *)
(* socket's only write deadline with later calls, which is what can go     *)
(* wrong: a late callback must not cut off another call's write.           *)
(*                                                                         *)
(* The socket is external: a Write may block until the deadline has passed *)
(* or the socket is closed, or return at any time.                         *)
(***************************************************************************)
EXTENDS Integers

CONSTANTS Calls        \* Write calls, each with its own context

VARIABLES
  at,         \* per call, its next step
  mu,         \* the holder of Writer.mu, or Nobody
  active,     \* per call, cancelWriteState.active
  callback,   \* per call: unarmed, armed, fired, setting, closing, done or stopped
  ctxDone,    \* calls whose context is done
  deadline,   \* the socket's write deadline: none, future or past
  setBy,      \* history: the call that set the deadline last
  closed      \* the lifecycle owner closed the socket

writerVars == <<at, mu, active, callback, ctxDone, deadline, setBy, closed>>

Nobody == "nobody"

ASSUME CallsAssumption == Nobody \notin Calls

WriterInit ==
  /\ at = [c \in Calls |-> "enter"]
  /\ mu = Nobody
  /\ active = [c \in Calls |-> FALSE]
  /\ callback = [c \in Calls |-> "unarmed"]
  /\ ctxDone = {} /\ deadline = "none" /\ setBy = Nobody /\ closed = FALSE

Go(c, from, to) == at[c] = from /\ at' = [at EXCEPT ![c] = to]

\* SetWriteDeadline, which fails on a closed socket.
SetDeadline(c, value) ==
  IF closed THEN UNCHANGED <<deadline, setBy>> ELSE deadline' = value /\ setBy' = c

-----------------------------------------------------------------------------
Lock(c) ==
  /\ Go(c, "enter", "check")
  /\ mu = Nobody /\ mu' = c
  /\ UNCHANGED <<active, callback, ctxDone, deadline, setBy, closed>>

\* A context that is done, a deadline that has passed, or one that cannot be
\* set refuses the write.
Check(c) ==
  /\ \/ Go(c, "check", "arm") /\ c \notin ctxDone /\ ~closed /\ SetDeadline(c, "future")
     \/ Go(c, "check", "unlock") /\ UNCHANGED <<deadline, setBy>>
  /\ UNCHANGED <<mu, active, callback, ctxDone, closed>>

\* Mutant of Arm: active is stored after the callback is registered, by the write.
ArmInactive(c) ==
  /\ Go(c, "arm", "write")
  /\ callback' = [callback EXCEPT ![c] = "armed"]
  /\ UNCHANGED <<active, mu, ctxDone, deadline, setBy, closed>>

\* The state is active before context.AfterFunc may run the callback.
Arm(c) ==
  /\ Go(c, "arm", "write")
  /\ active' = [active EXCEPT ![c] = TRUE]
  /\ callback' = [callback EXCEPT ![c] = "armed"]
  /\ UNCHANGED <<mu, ctxDone, deadline, setBy, closed>>

\* What ends a blocked conn.Write.
Interrupted == deadline = "past" \/ closed

WriteInterrupted(c) ==
  /\ Go(c, "write", "deactivate")
  /\ Interrupted
  /\ UNCHANGED <<mu, active, callback, ctxDone, deadline, setBy, closed>>

\* conn.Write returns by itself: written, short or failed.
WriteCompletes(c) ==
  /\ Go(c, "write", "deactivate")
  /\ ~Interrupted
  /\ UNCHANGED <<mu, active, callback, ctxDone, deadline, setBy, closed>>

Deactivate(c) ==
  /\ Go(c, "deactivate", "stop")
  /\ active' = [active EXCEPT ![c] = FALSE]
  /\ UNCHANGED <<mu, callback, ctxDone, deadline, setBy, closed>>

\* Mutant of Stop: a callback that already started is not waited for.
StopWithoutJoin(c) ==
  /\ Go(c, "stop", "clear")
  /\ callback' = [callback EXCEPT ![c] = IF @ = "armed" THEN "stopped" ELSE @]
  /\ UNCHANGED <<mu, active, ctxDone, deadline, setBy, closed>>

\* stop prevents a callback that has not started; one that has is joined.
Stop(c) ==
  /\ Go(c, "stop", "clear")
  /\ callback[c] \in {"armed", "done"}
  /\ callback' = [callback EXCEPT ![c] = IF @ = "armed" THEN "stopped" ELSE @]
  /\ UNCHANGED <<mu, active, ctxDone, deadline, setBy, closed>>

Clear(c) ==
  /\ Go(c, "clear", "unlock")
  /\ SetDeadline(c, "none")
  /\ UNCHANGED <<mu, active, callback, ctxDone, closed>>

\* The deferred unlock; the result is the one conn.Write gave.
Unlock(c) ==
  /\ Go(c, "unlock", "returned")
  /\ mu' = Nobody
  /\ UNCHANGED <<active, callback, ctxDone, deadline, setBy, closed>>

-----------------------------------------------------------------------------
(* The callback's goroutine.                                               *)

Fire(c) ==
  /\ callback[c] = "armed" /\ c \in ctxDone
  /\ callback' = [callback EXCEPT ![c] = "fired"]
  /\ UNCHANGED <<at, mu, active, ctxDone, deadline, setBy, closed>>

LoadActive(c) ==
  /\ callback[c] = "fired"
  /\ callback' = [callback EXCEPT ![c] = IF active[c] THEN "setting" ELSE "closing"]
  /\ UNCHANGED <<at, mu, active, ctxDone, deadline, setBy, closed>>

PullIn(c) ==
  /\ callback[c] = "setting"
  /\ callback' = [callback EXCEPT ![c] = "closing"]
  /\ SetDeadline(c, "past")
  /\ UNCHANGED <<at, mu, active, ctxDone, closed>>

CloseDone(c) ==
  /\ callback[c] = "closing"
  /\ callback' = [callback EXCEPT ![c] = "done"]
  /\ UNCHANGED <<at, mu, active, ctxDone, deadline, setBy, closed>>

-----------------------------------------------------------------------------
(* Environment.                                                            *)

CancelContext(c) ==
  /\ c \notin ctxDone
  /\ ctxDone' = ctxDone \cup {c}
  /\ UNCHANGED <<at, mu, active, callback, deadline, setBy, closed>>

DeadlinePasses ==
  /\ deadline = "future" /\ deadline' = "past"
  /\ UNCHANGED <<at, mu, active, callback, ctxDone, setBy, closed>>

CloseConn ==
  /\ ~closed /\ closed' = TRUE
  /\ UNCHANGED <<at, mu, active, callback, ctxDone, deadline, setBy>>

\* The steps of a call that need nothing from the network.
CallStep(c) ==
  \/ Lock(c) \/ Check(c) \/ Arm(c) \/ WriteInterrupted(c) \/ Deactivate(c) \/ Stop(c) \/ Clear(c) \/ Unlock(c)

CallbackStep(c) == Fire(c) \/ LoadActive(c) \/ PullIn(c) \/ CloseDone(c)

WriterNext ==
  \/ \E c \in Calls : CallStep(c) \/ WriteCompletes(c) \/ CallbackStep(c) \/ CancelContext(c)
  \/ DeadlinePasses \/ CloseConn

WriterSpec == WriterInit /\ [][WriterNext]_writerVars

\* Both goroutines are scheduled.  The network never has to answer, and the
\* configured timeout is not counted on either.
FairSpec == WriterSpec /\ \A c \in Calls : WF_writerVars(CallStep(c)) /\ WF_writerVars(CallbackStep(c))

-----------------------------------------------------------------------------
(* Properties.                                                             *)

\* A cancelled call never poisons a later one: while a call is in its write,
\* the socket's deadline is its own, and no other call's callback is on its
\* way to change it (udp.go:256-260).
DeadlineOwned ==
  \A c \in Calls : at[c] \in {"arm", "write"} =>
    /\ ~closed => setBy = c
    /\ \A d \in Calls \ {c} : callback[d] \notin {"fired", "setting"}

\* A cancelled write returns although neither the peer nor the configured
\* timeout ends it.
CancelInterrupts == \A c \in Calls : at[c] = "write" /\ c \in ctxDone ~> at[c] = "returned"
=============================================================================
