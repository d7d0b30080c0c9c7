------------------------------- MODULE Runtime -------------------------------
(***************************************************************************)
(* The lifecycle of one destination: Runtime of internal/destination       *)
(* (lifecycle.go, publication.go, admission.go, send.go, maintenance.go,   *)
(* refresh.go).  Goroutines - a Start caller, a Consume/Pack caller, the   *)
(* DNS and the template worker, and Shutdown callers - share the lifecycle *)
(* mutex, the send permit and the sockets.  A step is one critical section *)
(* of the mutex or one blocking operation, so every interleaving the locks *)
(* allow is a behaviour.                                                   *)
(*                                                                         *)
(* State, Packer and the resolver are reduced to what the lifecycle sees:  *)
(* a bootstrap, a request or a refresh is a number of writes that may      *)
(* fail, and a resolver Snapshot may answer anything each time it is read. *)
(* DNS wake-ups only hurry a timer and are left to the timer's choice.     *)
(***************************************************************************)
EXTENDS Integers, FiniteSets

CONSTANTS
  HasTemplates,   \* the protocol is v9 or IPFIX
  UsesDNS,        \* the endpoint is a hostname
  Shutters,       \* the Shutdown callers
  MaxSockets,     \* bound: sockets dialled
  MaxStarts,      \* bound: Start calls
  MaxRequests     \* bound: Consume calls

ASSUME RuntimeAssumption ==
  /\ HasTemplates \in BOOLEAN /\ UsesDNS \in BOOLEAN
  /\ Shutters \cap {"start", "dns", "refresh", "pack"} = {}
  /\ MaxSockets \in Nat /\ MaxStarts \in Nat /\ MaxRequests \in Nat

Sockets == 1 .. MaxSockets
None    == 0
Makers  == {"start", "dns"}                       \* who may own an attempt
Workers == {"dns", "refresh"}
Procs   == Makers \cup Workers \cup {"pack"} \cup Shutters

VARIABLES
  pc,            \* per goroutine, the operation it is about to do
  cancelled,     \* goroutines whose operation context is done
  closing, published, activeWrites, activeCalls,
  attempt,       \* the registered candidateAttempt, or NoAttempt
  registered,    \* the stored cancel functions: "pack", "request", "dns", "refresh"
  refreshWake,   \* the coalesced template trigger
  drained,       \* how often the drained channel was closed
  permit,        \* the send token is in its channel
  closeOnce,     \* "no", "running" or "done"
  doomed,        \* <<sockets, goroutines>> closeHandles captured under the lock
  shutdownResult,\* "none" until finishShutdown
  handle,        \* per goroutine, the candidate it works on
  retired,       \* the endpoint a publication replaced, until it is closed
  gate,          \* the maintenance token's owner, or "free"
  due,           \* a refresh round: not due ("no"), due and queued, or due and left to the timer
  starts, requests,
  sock           \* external: the state of each socket

locks == <<permit, gate>>
calls == <<closing, activeCalls, drained, registered>>
close == <<closeOnce, doomed, shutdownResult>>
ends  == <<published, attempt, handle, retired, sock>>
count == <<starts, requests>>
vars  == <<pc, cancelled, activeWrites, refreshWake, due, locks, calls, close, ends, count>>

NoAttempt == [owner |-> "none", candidate |-> None, previous |-> None]

Init ==
  /\ pc = [p \in Procs |-> IF p \in Workers THEN "off" ELSE "idle"]
  /\ cancelled = {} /\ closing = FALSE /\ published = None /\ attempt = NoAttempt
  /\ activeWrites = 0 /\ activeCalls = 0 /\ registered = {} /\ refreshWake = FALSE
  /\ drained = 0 /\ permit = TRUE /\ closeOnce = "no" /\ doomed = <<{}, {}>>
  /\ shutdownResult = "none" /\ handle = [p \in Procs |-> None] /\ retired = None
  /\ gate = "free" /\ due = "no" /\ starts = 0 /\ requests = 0
  /\ sock = [s \in Sockets |-> "unused"]

-----------------------------------------------------------------------------
(* Shared parts of the operations.                                         *)

At(p, from, to) == pc[p] = from /\ pc' = [pc EXCEPT ![p] = to]

\* An operation registers under the lock, unless the runtime is closing.
Register == ~closing /\ activeCalls' = activeCalls + 1

\* Mutant of EndCall: the drained channel is closed by every late call.
EndCallEager ==
  /\ activeCalls' = activeCalls - 1
  /\ drained' = IF closing THEN drained + 1 ELSE drained

\* endCallLocked: the last call of a closing runtime closes drained.
EndCall ==
  /\ activeCalls' = activeCalls - 1
  /\ drained' = IF closing /\ activeCalls = 1 THEN drained + 1 ELSE drained

\* Candidate.Close, which is idempotent and takes nil for nothing.
CloseAll(S) == sock' = [s \in Sockets |-> IF s \in S THEN "closed" ELSE sock[s]]

\* sendPermit.acquire up to the select: a caller whose context is done does not
\* wait.
Ask(p, from, otherwise) ==
  /\ At(p, from, IF p \in cancelled THEN otherwise ELSE "waiting")
  /\ UNCHANGED permit

\* The select: the token is received, by a caller that is cancelled by now too,
\* or the context is done.
Receive(p, otherwise) ==
  \/ At(p, "waiting", "received") /\ permit /\ permit' = FALSE
  \/ At(p, "waiting", otherwise) /\ p \in cancelled /\ UNCHANGED permit

\* Mutant of Recheck: a caller refused after the receive keeps the token.
RecheckKeeping(p, to, otherwise) ==
  /\ At(p, "received", IF p \in cancelled THEN otherwise ELSE to)
  /\ UNCHANGED permit

\* The context again, after the receive: a token taken together with a cancel is
\* given back.
Recheck(p, to, otherwise) ==
  \/ At(p, "received", to) /\ p \notin cancelled /\ UNCHANGED permit
  \/ At(p, "received", otherwise) /\ p \in cancelled /\ permit' = TRUE

\* sendPermit.acquire, in three steps: the caller owns the permit at to, and has
\* none at otherwise.
Acquire(p, from, to, otherwise) ==
  Ask(p, from, otherwise) \/ Receive(p, otherwise) \/ Recheck(p, to, otherwise)

\* A write in flight returns; a socket closed meanwhile may fail it, or the
\* datagram left before.
WriteReturns(p, from, done, failed) ==
  /\ At(p, from, done) \/ At(p, from, failed)
  /\ activeWrites' = activeWrites - 1

-----------------------------------------------------------------------------
(* Candidate attempts, shared by Start and the DNS worker.                 *)

\* Start: registered before any lookup or dial.
Start ==
  /\ At("start", "idle", "dial")
  /\ starts < MaxStarts /\ published = None /\ attempt = NoAttempt
  /\ Register
  /\ attempt' = [owner |-> "start", candidate |-> None, previous |-> None]
  /\ cancelled' = cancelled \ {"start"}
  /\ starts' = starts + 1
  /\ UNCHANGED <<activeWrites, refreshWake, due, locks, closing, drained, registered, close,
                 published, handle, retired, sock, requests>>

\* runDNS finds a lookup due; maintainDNS registers the replacement.
MaintainDNS ==
  /\ At("dns", "wait", "dial")
  /\ "dns" \notin cancelled /\ published # None /\ attempt = NoAttempt
  /\ Register
  /\ attempt' = [owner |-> "dns", candidate |-> None, previous |-> published]
  /\ UNCHANGED <<cancelled, activeWrites, refreshWake, due, locks, closing, drained, registered,
                 close, published, handle, retired, sock, count>>

\* maintenance.Begin, then Dial or DialReplacement up to the open socket; a
\* lookup or dial that fails, or an unchanged address, ends the attempt.  Start
\* has no token yet when a timer is invalid, and neither has a busy Begin.
Dial(p) ==
  /\ \/ /\ At(p, "dial", "dialled")
        /\ gate = "free" /\ gate' = p
        /\ \E s \in Sockets :
             /\ sock[s] = "unused" /\ \A i \in 1 .. s - 1 : sock[i] # "unused"
             /\ sock' = [sock EXCEPT ![s] = "open"]
             /\ handle' = [handle EXCEPT ![p] = s]
     \/ At(p, "dial", "end") /\ gate = "free" /\ gate' = p /\ UNCHANGED <<sock, handle>>
     \/ At(p, "dial", "detach") /\ (p = "start" \/ gate # "free") /\ UNCHANGED <<gate, sock, handle>>
  /\ UNCHANGED <<cancelled, activeWrites, refreshWake, due, permit, calls, close, published,
                 attempt, retired, count>>

\* The context checks of dialSelected and prepareCandidate: a late dial result
\* is closed, otherwise the candidate is attached before any write.
Attach(p) ==
  /\ \/ /\ At(p, "dialled", IF HasTemplates THEN "boot" ELSE "acquire")
        /\ ~closing /\ p \notin cancelled
        /\ attempt' = [attempt EXCEPT !.candidate = handle[p]]
        /\ UNCHANGED sock
     \/ /\ At(p, "dialled", "end")
        /\ closing \/ p \in cancelled
        /\ CloseAll({handle[p]})
        /\ UNCHANGED attempt
  /\ UNCHANGED <<cancelled, activeWrites, refreshWake, due, locks, calls, close, published,
                 handle, retired, count>>

\* bootstrap: the gate in front of each template write.
BootAdmit(p) ==
  /\ \/ /\ At(p, "boot", "booting")
        /\ ~closing /\ p \notin cancelled /\ attempt.owner = p /\ attempt.candidate # None
        /\ activeWrites' = activeWrites + 1
     \/ /\ At(p, "boot", "end")
        /\ closing \/ p \in cancelled \/ attempt.owner # p \/ attempt.candidate = None
        /\ UNCHANGED activeWrites
  /\ UNCHANGED <<cancelled, refreshWake, due, locks, calls, close, ends, count>>

\* The template write and its Commit: another one, the last one, or a failure.
BootWrite(p) ==
  /\ \E next \in {"boot", "acquire"} : WriteReturns(p, "booting", next, "end")
  /\ UNCHANGED <<cancelled, refreshWake, due, locks, calls, close, ends, count>>

\* Mutant of AcquireForPublish: publication does not wait for the packet work.
PublishUnserialized(p) ==
  /\ At(p, "acquire", "publish")
  /\ UNCHANGED <<cancelled, activeWrites, refreshWake, due, locks, calls, close, ends, count>>

\* publish waits for the send permit.
AcquireForPublish(p) ==
  /\ Acquire(p, "acquire", "publish", "end")
  /\ UNCHANGED <<cancelled, activeWrites, refreshWake, due, gate, calls, close, ends, count>>

\* publish, under send and lifecycle: every condition is looked at again, and
\* the resolver may still refuse.
Publish(p) ==
  /\ At(p, "publish", "release")
  /\ \/ /\ ~closing /\ p \notin cancelled /\ attempt.owner = p
        /\ attempt.candidate = handle[p] /\ published = attempt.previous
        /\ retired' = published /\ published' = handle[p]
        /\ attempt' = [attempt EXCEPT !.candidate = None]
        /\ due' = "no"
     \/ UNCHANGED <<retired, published, attempt, due>>
  /\ UNCHANGED <<cancelled, activeWrites, refreshWake, locks, calls, close, handle, sock, count>>

\* The deferred send.release.
ReleaseAfterPublish(p) ==
  /\ At(p, "release", "retire")
  /\ permit' = TRUE
  /\ UNCHANGED <<cancelled, activeWrites, refreshWake, due, gate, calls, close, ends, count>>

\* Mutant of Retire: the replaced endpoint is dropped without a Close.
RetireForgets(p) ==
  /\ At(p, "retire", "end")
  /\ retired' = None
  /\ UNCHANGED <<cancelled, activeWrites, refreshWake, due, locks, calls, close, published,
                 attempt, handle, sock, count>>

\* The replaced endpoint is closed outside both locks.
Retire(p) ==
  /\ At(p, "retire", "end")
  /\ CloseAll({retired}) /\ retired' = None
  /\ UNCHANGED <<cancelled, activeWrites, refreshWake, due, locks, calls, close, published,
                 attempt, handle, count>>

\* maintenance.End.
EndToken(p) ==
  /\ At(p, "end", "detach")
  /\ gate' = "free"
  /\ UNCHANGED <<cancelled, activeWrites, refreshWake, due, permit, calls, close, ends, count>>

\* finishAttempt: take the candidate back under the lock, close it outside,
\* and only then unregister.
Detach(p) ==
  /\ At(p, "detach", "discard")
  /\ handle' = [handle EXCEPT ![p] = attempt.candidate]
  /\ attempt' = [attempt EXCEPT !.candidate = None]
  /\ UNCHANGED <<cancelled, activeWrites, refreshWake, due, locks, calls, close, published, retired,
                 sock, count>>

Discard(p) ==
  /\ At(p, "discard", "unregister")
  /\ CloseAll({handle[p]})
  /\ handle' = [handle EXCEPT ![p] = None]
  /\ UNCHANGED <<cancelled, activeWrites, refreshWake, due, locks, calls, close, published, attempt,
                 retired, count>>

\* After a successful Start the workers are started; any other Start finds
\* nothing published or finds them running.
Unregister(p) ==
  /\ At(p, "unregister", IF p = "dns" THEN "wait" ELSE "startDNS")
  /\ attempt' = IF attempt.owner = p THEN NoAttempt ELSE attempt
  /\ EndCall
  /\ UNCHANGED <<cancelled, activeWrites, refreshWake, due, locks, closing, registered, close,
                 published, handle, retired, sock, count>>

\* The worker is wanted and not yet running.
Launchable(w, wanted) == wanted /\ ~closing /\ published # None /\ w \notin registered

\* Mutant of StartWorker: the worker is launched without an activeCalls++.
StartWorkerUncounted(w, from, to, wanted, first) ==
  \/ At("start", from, to) /\ ~Launchable(w, wanted) /\ UNCHANGED <<activeCalls, registered>>
  \/ /\ pc["start"] = from /\ Launchable(w, wanted)
     /\ registered' = registered \cup {w}
     /\ pc' = [pc EXCEPT !["start"] = to, ![w] = first]
     /\ UNCHANGED activeCalls

\* startDNSWorker and startRefreshWorker: registered before the goroutine runs.
StartWorker(w, from, to, wanted, first) ==
  \/ At("start", from, to) /\ ~Launchable(w, wanted) /\ UNCHANGED <<activeCalls, registered>>
  \/ /\ pc["start"] = from /\ Launchable(w, wanted)
     /\ Register
     /\ registered' = registered \cup {w}
     /\ pc' = [pc EXCEPT !["start"] = to, ![w] = first]

StartDNSWorker ==
  /\ StartWorker("dns", "startDNS", "startRefresh", UsesDNS, "wait")
  /\ UNCHANGED <<cancelled, activeWrites, refreshWake, due, locks, closing, drained, close, ends, count>>

StartRefreshWorker ==
  /\ StartWorker("refresh", "startRefresh", "idle", HasTemplates, "check")
  /\ UNCHANGED <<cancelled, activeWrites, refreshWake, due, locks, closing, drained, close, ends, count>>

\* A worker's context is done: its deferred exit.
WorkerExits(w) ==
  /\ At(w, "wait", "off")
  /\ w \in cancelled
  /\ registered' = registered \ {w}
  /\ EndCall
  /\ UNCHANGED <<cancelled, activeWrites, refreshWake, due, locks, closing, close, ends, count>>

-----------------------------------------------------------------------------
(* Writes on the published endpoint.                                       *)

\* writePublished: the caller's candidate must still be the published one.
WriteAdmitted(p) == ~closing /\ published # None /\ published = handle[p]

\* The gate of writePublished; the resolver may withdraw the endpoint.
AdmitWrite(p, from, to, refused) ==
  /\ \/ At(p, from, to) /\ WriteAdmitted(p) /\ activeWrites' = activeWrites + 1
     \/ At(p, from, refused) /\ UNCHANGED activeWrites
  /\ UNCHANGED <<cancelled, refreshWake, due, locks, calls, close, ends, count>>

-----------------------------------------------------------------------------
(* Consume and Pack.                                                       *)

\* Consume takes the request slot.
Consume ==
  /\ At("pack", "idle", "consume")
  /\ requests < MaxRequests /\ "request" \notin registered
  /\ Register
  /\ registered' = registered \cup {"request"}
  /\ cancelled' = cancelled \ {"pack"}
  /\ requests' = requests + 1
  /\ UNCHANGED <<activeWrites, refreshWake, due, locks, closing, drained, close, ends, starts>>

\* The callback is refused by its preflight, or Pack registers its own
\* operation, or finds the runtime closing.
Pack ==
  /\ \/ /\ At("pack", "consume", "packAcquire")
        /\ Register /\ registered' = registered \cup {"pack"}
     \/ At("pack", "consume", "consumed") /\ UNCHANGED <<activeCalls, registered>>
  /\ UNCHANGED <<cancelled, activeWrites, refreshWake, due, locks, closing, drained, close, ends, count>>

PackAcquire ==
  /\ Acquire("pack", "packAcquire", "packCheck", "packRefused")
  /\ UNCHANGED <<cancelled, activeWrites, refreshWake, due, gate, calls, close, ends, count>>

\* The endpoint is read under the lock and used after it, under send.
PackCheck ==
  /\ \/ /\ At("pack", "packCheck", "packing")
        /\ ~closing /\ "pack" \notin cancelled /\ published # None
        /\ handle' = [handle EXCEPT !["pack"] = published]
     \/ At("pack", "packCheck", "packDone") /\ UNCHANGED handle
  /\ UNCHANGED <<cancelled, activeWrites, refreshWake, due, locks, calls, close, published, attempt,
                 retired, sock, count>>

PackWrite ==
  \/ AdmitWrite("pack", "packing", "packWriting", "packFailed")
  \/ /\ WriteReturns("pack", "packWriting", "packing", "packFailed")
     /\ UNCHANGED <<cancelled, refreshWake, due, locks, calls, close, ends, count>>

\* Packer.Pack fails: its writes may have made a refresh due or completed one,
\* and no failed request wakes the worker.
PackFails ==
  /\ At("pack", "packFailed", "packDone")
  /\ due' \in {due, "no"} \cup (IF HasTemplates /\ due = "no" THEN {"quiet"} ELSE {})
  /\ UNCHANGED refreshWake

\* Mutant of PackReturns: the crossing of the count by the last packet is not reported.
PackReturnsQuietly ==
  /\ \/ PackFails
     \/ /\ At("pack", "packing", "packDone")
        /\ due' \in {"no"} \cup (IF HasTemplates THEN {"queued"} ELSE {})
        /\ UNCHANGED refreshWake
  /\ UNCHANGED <<cancelled, activeWrites, locks, calls, close, ends, count>>

\* Packer.Pack returns.  A refresh that is due after a successful request
\* wakes the worker, under send.
PackReturns ==
  /\ \/ PackFails
     \/ At("pack", "packing", "packDone") /\ due' = "no" /\ UNCHANGED refreshWake
     \/ At("pack", "packing", "packDone") /\ HasTemplates /\ due' = "queued" /\ refreshWake' = TRUE
  /\ UNCHANGED <<cancelled, activeWrites, locks, calls, close, ends, count>>

\* finishPack: the permit goes back before admission is completed.
FinishPack ==
  /\ \/ At("pack", "packDone", "consumed") /\ permit' = TRUE
     \/ At("pack", "packRefused", "consumed") /\ UNCHANGED permit
  /\ registered' = registered \ {"pack"}
  /\ handle' = [handle EXCEPT !["pack"] = None]
  /\ EndCall
  /\ UNCHANGED <<cancelled, activeWrites, refreshWake, due, gate, closing, close, published, attempt,
                 retired, sock, count>>

\* The deferred end of Consume.
FinishConsume ==
  /\ At("pack", "consumed", "idle")
  /\ registered' = registered \ {"request"}
  /\ EndCall
  /\ UNCHANGED <<cancelled, activeWrites, refreshWake, due, locks, closing, close, ends, count>>

-----------------------------------------------------------------------------
(* The template worker.                                                    *)

\* refreshTemplates, first look without send: nothing due, or a round is (by
\* its mark or by the interval).
RefreshCheck ==
  /\ \/ At("refresh", "check", "wait") /\ (published = None \/ "refresh" \in cancelled \/ due = "no")
     \/ At("refresh", "check", "refreshAcquire") /\ published # None /\ "refresh" \notin cancelled
  /\ UNCHANGED <<cancelled, activeWrites, refreshWake, due, locks, calls, close, ends, count>>

RefreshAcquire ==
  /\ Acquire("refresh", "refreshAcquire", "refreshBegin", "wait")
  /\ UNCHANGED <<cancelled, activeWrites, refreshWake, due, gate, calls, close, ends, count>>

\* Under send: earlier wakes are covered by this attempt, the endpoint is read
\* again, and an unavailable one counts as an attempt.
RefreshBegin ==
  /\ refreshWake' = FALSE
  /\ \/ /\ At("refresh", "refreshBegin", "refreshing")
        /\ ~closing /\ "refresh" \notin cancelled /\ published # None
        /\ handle' = [handle EXCEPT !["refresh"] = published]
        /\ due' = "quiet"
     \/ /\ At("refresh", "refreshBegin", "refreshDone")
        /\ due' = (IF due = "no" THEN "no" ELSE "quiet")
        /\ UNCHANGED handle
  /\ UNCHANGED <<cancelled, activeWrites, locks, calls, close, published, attempt, retired, sock, count>>

RefreshWrite ==
  \/ AdmitWrite("refresh", "refreshing", "refreshWriting", "refreshDone")
  \/ /\ WriteReturns("refresh", "refreshWriting", "refreshing", "refreshDone")
     /\ UNCHANGED <<cancelled, refreshWake, due, locks, calls, close, ends, count>>

\* Packer.refresh completed the round.
RefreshComplete ==
  /\ At("refresh", "refreshing", "refreshDone")
  /\ due' = "no"
  /\ UNCHANGED <<cancelled, activeWrites, refreshWake, locks, calls, close, ends, count>>

RefreshRelease ==
  /\ At("refresh", "refreshDone", "wait")
  /\ permit' = TRUE
  /\ handle' = [handle EXCEPT !["refresh"] = None]
  /\ UNCHANGED <<cancelled, activeWrites, refreshWake, due, gate, calls, close, published, attempt,
                 retired, sock, count>>

\* runRefresh receives the coalesced trigger, or the interval timer fires.
RefreshWoken ==
  /\ At("refresh", "wait", "check")
  /\ "refresh" \notin cancelled /\ refreshWake /\ refreshWake' = FALSE
  /\ UNCHANGED <<cancelled, activeWrites, due, locks, calls, close, ends, count>>

RefreshTimer ==
  /\ At("refresh", "wait", "check")
  /\ "refresh" \notin cancelled
  /\ UNCHANGED <<cancelled, activeWrites, refreshWake, due, locks, calls, close, ends, count>>

-----------------------------------------------------------------------------
(* Shutdown.                                                               *)

\* external: the caller of Start or Consume gives up.
CallerCancels(p) ==
  /\ pc[p] # "idle" /\ p \notin cancelled
  /\ cancelled' = cancelled \cup {p}
  /\ UNCHANGED <<pc, activeWrites, refreshWake, due, locks, calls, close, ends, count>>

\* Mutant of Captured: the workers of the component lifetime are not cancelled.
CapturedCalls ==
  ({attempt.owner} \cap Makers) \cup (IF registered \cap {"pack", "request"} # {} THEN {"pack"} ELSE {})

\* The goroutines whose cancel functions are stored.
Captured ==
  (registered \cap Workers) \cup ({attempt.owner} \cap Makers)
    \cup (IF registered \cap {"pack", "request"} # {} THEN {"pack"} ELSE {})

\* closeHandles under the lock: close admission and capture what to cancel and
\* to close.  Every later caller waits in closeOnce.
CloseHandles(p) ==
  /\ At(p, "idle", "closeSockets") /\ closeOnce = "no"
  /\ closeOnce' = "running" /\ closing' = TRUE /\ published' = None
  /\ doomed' = <<{published, attempt.candidate},
                 Captured>>
  /\ attempt' = [attempt EXCEPT !.candidate = None]
  /\ drained' = IF activeCalls = 0 THEN drained + 1 ELSE drained
  /\ UNCHANGED <<cancelled, activeWrites, refreshWake, due, locks, activeCalls, registered,
                 shutdownResult, handle, retired, sock, count>>

\* closeHandles after the lock: the cancel functions, then the sockets.
CancelCaptured(p) ==
  /\ At(p, "closeSockets", "closeSockets") /\ ~(doomed[2] \subseteq cancelled)
  /\ cancelled' = cancelled \cup doomed[2]
  /\ UNCHANGED <<activeWrites, refreshWake, due, locks, calls, close, ends, count>>

CloseCaptured(p) ==
  /\ At(p, "closeSockets", "join") /\ doomed[2] \subseteq cancelled
  /\ CloseAll(doomed[1])
  /\ closeOnce' = "done"
  /\ UNCHANGED <<cancelled, activeWrites, refreshWake, due, locks, calls, doomed, shutdownResult,
                 published, attempt, handle, retired, count>>

\* Mutant of JoinOnce: a second caller does not wait for the first one's close.
JoinOnceEarly(p) ==
  /\ At(p, "idle", "join") /\ closeOnce # "no"
  /\ UNCHANGED <<cancelled, activeWrites, refreshWake, due, locks, calls, close, ends, count>>

\* closeOnce.Do of any other caller returns when the first is done.
JoinOnce(p) ==
  /\ At(p, "idle", "join") /\ closeOnce = "done"
  /\ UNCHANGED <<cancelled, activeWrites, refreshWake, due, locks, calls, close, ends, count>>

\* Shutdown waits for the drain, its own deadline, or another caller's result.
Join(p) ==
  /\ At(p, "join", "returned")
  /\ \/ drained > 0 /\ shutdownResult' = (IF shutdownResult = "none" THEN "drained" ELSE shutdownResult)
     \/ shutdownResult # "none" /\ UNCHANGED shutdownResult
  /\ UNCHANGED <<cancelled, activeWrites, refreshWake, due, locks, calls, closeOnce, doomed, ends, count>>

JoinExpires(p) ==
  /\ At(p, "join", "returned")
  /\ shutdownResult' = (IF shutdownResult = "none" THEN "expired" ELSE shutdownResult)
  /\ UNCHANGED <<cancelled, activeWrites, refreshWake, due, locks, calls, closeOnce, doomed, ends, count>>

-----------------------------------------------------------------------------
\* The steps a goroutine takes without waiting for a caller or a timer.
MakerStep(p) ==
  \/ Dial(p) \/ Attach(p) \/ BootAdmit(p) \/ BootWrite(p) \/ AcquireForPublish(p) \/ Publish(p)
  \/ ReleaseAfterPublish(p) \/ Retire(p) \/ EndToken(p) \/ Detach(p) \/ Discard(p) \/ Unregister(p)

PackStep ==
  \/ Pack \/ PackAcquire \/ PackCheck \/ PackWrite \/ PackReturns \/ FinishPack \/ FinishConsume

RefreshStep ==
  \/ RefreshCheck \/ RefreshAcquire \/ RefreshBegin \/ RefreshWrite \/ RefreshComplete
  \/ RefreshRelease \/ RefreshWoken

ShutdownStep(p) == CancelCaptured(p) \/ CloseCaptured(p) \/ JoinOnce(p) \/ Join(p)

Next ==
  \/ Start \/ StartDNSWorker \/ StartRefreshWorker
  \/ MaintainDNS
  \/ \E p \in Makers : MakerStep(p)
  \/ \E w \in Workers : WorkerExits(w)
  \/ Consume \/ PackStep
  \/ RefreshStep \/ RefreshTimer
  \/ \E p \in {"start", "pack"} : CallerCancels(p)
  \/ \E p \in Shutters : CloseHandles(p) \/ ShutdownStep(p) \/ JoinExpires(p)

Spec == Init /\ [][Next]_vars

\* Goroutines are scheduled; lookups, dials and writes return (they carry
\* deadlines).  Nothing forces a caller, a cancellation or a timer.  A request
\* or a refresh sends finitely many datagrams, hence the strong fairness.
FairSpec ==
  /\ Spec
  /\ WF_vars(StartDNSWorker \/ StartRefreshWorker)
  /\ \A p \in Makers : /\ WF_vars(MakerStep(p)) /\ SF_vars(AcquireForPublish(p))
                         /\ SF_vars(BootWrite(p) /\ pc'[p] # "boot")
  /\ \A w \in Workers : WF_vars(WorkerExits(w))
  /\ WF_vars(PackStep) /\ SF_vars(PackAcquire) /\ SF_vars(PackReturns)
  /\ WF_vars(RefreshStep) /\ SF_vars(RefreshAcquire) /\ SF_vars(RefreshComplete)
  /\ \A p \in Shutters : WF_vars(ShutdownStep(p))

-----------------------------------------------------------------------------
(* Properties.                                                             *)

\* Every field of Runtime keeps its type, the counters in uint32 included.
TypeOK ==
  /\ cancelled \subseteq Procs /\ closing \in BOOLEAN /\ published \in Sockets \cup {None}
  /\ activeWrites \in Nat /\ activeCalls \in Nat /\ drained \in Nat
  /\ registered \subseteq {"pack", "request", "dns", "refresh"}
  /\ attempt \in [owner : Makers \cup {"none"}, candidate : Sockets \cup {None}, previous : Sockets \cup {None}]
  /\ permit \in BOOLEAN /\ refreshWake \in BOOLEAN /\ gate \in Makers \cup {"free"}
  /\ handle \in [Procs -> Sockets \cup {None}] /\ retired \in Sockets \cup {None}
  /\ sock \in [Sockets -> {"unused", "open", "closed"}]

Open == {s \in Sockets : sock[s] = "open"}

\* The goroutines that hold the send permit: from its receive to its return.
Holders == {p \in Procs : pc[p] \in {"received", "publish", "release", "packCheck", "packing", "packWriting",
                                     "packFailed", "packDone", "refreshBegin", "refreshing", "refreshWriting",
                                     "refreshDone"}}

\* The permit is never lost and never doubled: a caller that is cancelled while
\* it waits or just as it receives the token leaves it to the others, and one
\* that was refused returns none (send.go:22-43, lifecycle.go:323-334).
PermitConserved == Cardinality(Holders) + (IF permit THEN 1 ELSE 0) = 1

\* drained is closed once, by the last call: closing it twice would panic, and
\* nothing registers afterwards (lifecycle.go:336-341).
DrainedOnce ==
  /\ drained <= 1
  /\ drained = 1 <=> closing /\ activeCalls = 0

\* A Shutdown that reports a drain leaves nothing behind: no open socket, no
\* write in flight, no token and no running goroutine.
CleanAfterDrain ==
  shutdownResult = "drained" =>
    /\ Open = {} /\ activeWrites = 0 /\ gate = "free" /\ permit /\ registered = {}
    /\ \A p \in Procs \ Shutters : pc[p] \in {"idle", "off", "startDNS", "startRefresh"}

\* However Shutdown ended, what is left cannot publish or send: a write that is
\* still in flight, or a candidate still attached, has its socket closed.
NothingSentAfterShutdown ==
  shutdownResult # "none" =>
    /\ published = None
    /\ \A p \in Procs : pc[p] \in {"booting", "packWriting", "refreshWriting"} => sock[handle[p]] # "open"
    /\ attempt.candidate = None

\* No socket leaks: an open one is published, attached, just dialled, or in
\* the hands of whoever is about to close it.
SocketsOwned ==
  \A s \in Open :
    \/ s \in {published, attempt.candidate, retired}
    \/ \E p \in Makers : pc[p] \in {"dialled", "discard"} /\ handle[p] = s
    \/ closeOnce = "running" /\ s \in doomed[1]

\* A request or a refresh works on the published endpoint: a replacement is
\* not published, and the endpoint not closed, under it; only Shutdown may.
EndpointStable ==
  \A p \in {"pack", "refresh"} :
    pc[p] \in {"packing", "packWriting", "refreshing", "refreshWriting"} /\ ~closing
      => published = handle[p] /\ sock[handle[p]] = "open"

\* Shutdown drains: every admitted call ends once its context is cancelled and
\* its socket closed, so no goroutine waits for another forever.
Drains == closing ~> drained = 1

\* A refresh made due by the last packet of a successful request is attempted
\* without waiting for the interval timer.
WakeNotLost == due = "queued" ~> due # "queued" \/ closing
=============================================================================
