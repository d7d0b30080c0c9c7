---------------------------- MODULE Runtime_proofs ----------------------------
(***************************************************************************)
(* What Runtime promises, for any number of Shutdown callers, sockets,     *)
(* starts and requests.                                                    *)
(*                                                                         *)
(* First the send permit.  The argument is about program positions: a      *)
(* goroutine enters the positions that hold the permit only by receiving   *)
(* it and leaves them only by sending it back, the refusal after a receive *)
(* included.  A worker is launched from no position at all, which needs    *)
(* that an unregistered worker does not run.                               *)
(*                                                                         *)
(* Then the sockets, the registrations and Shutdown.  Their invariant ties *)
(* every piece of shared state to the positions of the goroutines: the     *)
(* attempt, the stored cancel functions and activeCalls to who is inside   *)
(* an operation, the token and activeWrites likewise, and each socket to   *)
(* whoever will close it.  Mutual exclusion of the permit is what keeps an *)
(* endpoint published while it is used.                                    *)
(***************************************************************************)
EXTENDS Runtime, FiniteSetTheorems, TLAPS

Holding == {"received", "publish", "release", "packCheck", "packing", "packWriting", "packFailed",
            "packDone", "refreshBegin", "refreshing", "refreshWriting", "refreshDone"}

Positions ==
  Holding \cup {"idle", "off", "wait", "dial", "dialled", "boot", "booting", "acquire", "waiting", "retire",
                "end", "detach", "discard", "unregister", "startDNS", "startRefresh", "consume", "packAcquire",
                "packRefused", "consumed", "check", "refreshAcquire", "closeSockets", "join", "returned"}

PositionsOK == pc \in [Procs -> Positions] /\ permit \in BOOLEAN

\* A worker that is not registered does not run.
WorkersOff == \A w \in Workers : w \notin registered => pc[w] = "off"

\* Nobody holds the permit in the channel, exactly one goroutine the other.
OneHolder ==
  /\ permit => \A p \in Procs : pc[p] \notin Holding
  /\ ~permit => \E p \in Procs : \A q \in Procs : pc[q] \in Holding <=> q = p

PermitInv == PositionsOK /\ WorkersOff /\ OneHolder

\* The goroutines of the code are distinct from the Shutdown callers.
LEMMA ProcFacts ==
  /\ {"start", "dns", "refresh", "pack"} \subseteq Procs
  /\ Shutters \subseteq Procs /\ Makers \subseteq Procs /\ Workers \subseteq Procs
  /\ \A p \in Shutters : p \notin Workers
BY RuntimeAssumption DEF RuntimeAssumption, Procs, Makers, Workers

\* A goroutine other than an unregistered worker moves between two positions
\* of the same kind.
LEMMA Moves ==
  ASSUME PermitInv, NEW p \in Procs, NEW to \in Positions,
         pc' = [pc EXCEPT ![p] = to], permit' = permit,
         pc[p] \in Holding <=> to \in Holding,
         pc[p] # "off",
         registered' \cap Workers = registered \cap Workers
  PROVE  PermitInv'
<1>1. PositionsOK'
  BY DEF PermitInv, PositionsOK
<1>2. WorkersOff'
  BY DEF PermitInv, PositionsOK, WorkersOff
<1>3. \A q \in Procs : pc'[q] \in Holding <=> pc[q] \in Holding
  BY DEF PermitInv, PositionsOK
<1>4. OneHolder'
  BY <1>3 DEF PermitInv, OneHolder
<1> QED
  BY <1>1, <1>2, <1>4 DEF PermitInv

\* sendPermit.release by the goroutine that holds it.
LEMMA ReleaseKeeps ==
  ASSUME PermitInv, NEW p \in Procs, NEW from \in Holding, NEW to \in Positions \ Holding,
         At(p, from, to), permit' = TRUE,
         registered' \cap Workers = registered \cap Workers
  PROVE  PermitInv'
<1>1. PositionsOK'
  BY DEF PermitInv, PositionsOK, At
<1>2. WorkersOff'
  BY DEF PermitInv, PositionsOK, WorkersOff, At, Holding
<1>3. \A q \in Procs : pc[q] \in Holding <=> q = p
  BY DEF PermitInv, PositionsOK, OneHolder, At
<1>4. \A q \in Procs : pc'[q] \notin Holding
  BY <1>3 DEF PermitInv, PositionsOK, At
<1>5. OneHolder'
  BY <1>4 DEF OneHolder
<1> QED
  BY <1>1, <1>2, <1>5 DEF PermitInv

\* sendPermit.acquire: the receiver holds the permit from its receive on, and
\* only a caller that is refused after it gives it back.
LEMMA AcquireKeeps ==
  ASSUME PermitInv, NEW p \in Procs, NEW from \in Positions \ (Holding \cup {"off"}),
         NEW to \in Holding, NEW otherwise \in Positions \ Holding,
         Acquire(p, from, to, otherwise), registered' = registered
  PROVE  PermitInv'
<1>0. /\ "waiting" \in Positions \ (Holding \cup {"off"})
      /\ "received" \in Holding /\ "received" # "off" /\ Holding \subseteq Positions
  BY DEF Positions, Holding
<1>1. CASE Ask(p, from, otherwise)
  BY <1>0, <1>1, Moves DEF Ask, At
<1>2. CASE At(p, "waiting", "received") /\ permit /\ permit' = FALSE
  <2>1. PositionsOK'
    BY <1>0, <1>2 DEF PermitInv, PositionsOK, At
  <2>2. WorkersOff'
    BY <1>0, <1>2 DEF PermitInv, PositionsOK, WorkersOff, At
  <2>3. \A q \in Procs : pc'[q] \in Holding <=> q = p
    BY <1>0, <1>2 DEF PermitInv, PositionsOK, OneHolder, At
  <2>4. OneHolder'
    BY <1>2, <2>3 DEF OneHolder
  <2> QED
    BY <2>1, <2>2, <2>4 DEF PermitInv
<1>3. CASE At(p, "waiting", otherwise) /\ UNCHANGED permit
  BY <1>0, <1>3, Moves DEF At
<1>4. CASE At(p, "received", to) /\ UNCHANGED permit
  BY <1>0, <1>4, Moves DEF At
<1>5. CASE At(p, "received", otherwise) /\ permit' = TRUE
  BY <1>0, <1>5, ReleaseKeeps
<1> QED
  BY <1>1, <1>2, <1>3, <1>4, <1>5 DEF Acquire, Receive, Recheck

\* The steps of a candidate attempt.
LEMMA MakerKeeps ==
  ASSUME PermitInv, NEW p \in Makers, MakerStep(p)
  PROVE  PermitInv'
<1> p \in Procs
  BY ProcFacts
<1> USE DEF locks, calls, Positions, Holding, At
<1>1. CASE Dial(p)
  BY <1>1, Moves DEF Dial
<1>2. CASE Attach(p)
  BY <1>2, Moves DEF Attach
<1>3. CASE BootAdmit(p)
  BY <1>3, Moves DEF BootAdmit
<1>4. CASE BootWrite(p)
  BY <1>4, Moves DEF BootWrite, WriteReturns
<1>5. CASE AcquireForPublish(p)
  BY <1>5, AcquireKeeps DEF AcquireForPublish
<1>6. CASE Publish(p)
  BY <1>6, Moves DEF Publish
<1>7. CASE ReleaseAfterPublish(p)
  BY <1>7, ReleaseKeeps DEF ReleaseAfterPublish
<1>8. CASE Retire(p) \/ EndToken(p) \/ Detach(p) \/ Discard(p)
  BY <1>8, Moves DEF Retire, EndToken, Detach, Discard
<1>9. CASE Unregister(p)
  BY <1>9, Moves DEF Unregister
<1> QED
  BY <1>1, <1>2, <1>3, <1>4, <1>5, <1>6, <1>7, <1>8, <1>9 DEF MakerStep

\* Start, and the launch and the exit of the workers.
LEMMA LaunchKeeps ==
  ASSUME PermitInv, NEW w \in Workers, NEW from \in Positions \ (Holding \cup {"off"}),
         NEW to \in Positions \ Holding, NEW wanted, NEW first \in Positions \ Holding,
         StartWorker(w, from, to, wanted, first), permit' = permit
  PROVE  PermitInv'
<1> USE ProcFacts
<1>1. CASE At("start", from, to) /\ UNCHANGED <<activeCalls, registered>>
  BY <1>1, Moves DEF At
<1>2. CASE /\ pc["start"] = from /\ Launchable(w, wanted)
           /\ registered' = registered \cup {w}
           /\ pc' = [pc EXCEPT !["start"] = to, ![w] = first]
  <2>1. pc[w] = "off" /\ w # "start"
    BY <1>2 DEF Launchable, PermitInv, WorkersOff, Workers
  <2>2. PositionsOK'
    BY <1>2 DEF PermitInv, PositionsOK
  <2>3. WorkersOff'
    BY <1>2, <2>1 DEF PermitInv, PositionsOK, WorkersOff, Workers
  <2>4. \A q \in Procs : pc'[q] \in Holding <=> pc[q] \in Holding
    BY <1>2, <2>1 DEF PermitInv, PositionsOK, Holding
  <2>5. OneHolder'
    BY <2>4 DEF PermitInv, OneHolder
  <2> QED
    BY <2>2, <2>3, <2>5 DEF PermitInv
<1> QED
  BY <1>1, <1>2 DEF StartWorker, Register

\* A worker that leaves does not hold the permit.
LEMMA WorkerExitKeeps ==
  ASSUME PermitInv, NEW w \in Workers, WorkerExits(w)
  PROVE  PermitInv'
<1> w \in Procs
  BY ProcFacts
<1>1. PositionsOK'
  BY DEF PermitInv, PositionsOK, WorkerExits, At, locks, Positions
<1>2. WorkersOff'
  BY ProcFacts DEF PermitInv, PositionsOK, WorkersOff, WorkerExits, At
<1>3. \A q \in Procs : pc'[q] \in Holding <=> pc[q] \in Holding
  BY DEF PermitInv, PositionsOK, WorkerExits, At, Holding
<1>4. permit' = permit
  BY DEF WorkerExits, locks
<1>5. OneHolder'
  BY <1>3, <1>4 DEF PermitInv, OneHolder
<1> QED
  BY <1>1, <1>2, <1>5 DEF PermitInv

\* Consume and Pack.
LEMMA PackKeeps ==
  ASSUME PermitInv, Consume \/ PackStep
  PROVE  PermitInv'
<1> "pack" \in Procs /\ "pack" \notin Workers /\ "request" \notin Workers
  BY ProcFacts DEF Workers
<1> USE DEF locks, calls, Positions, Holding, At
<1>1. CASE Consume
  BY <1>1, Moves DEF Consume
<1>2. CASE Pack
  BY <1>2, Moves DEF Pack
<1>3. CASE PackAcquire
  BY <1>3, AcquireKeeps DEF PackAcquire
<1>4. CASE PackCheck
  BY <1>4, Moves DEF PackCheck
<1>5. CASE PackWrite
  <2>1. CASE AdmitWrite("pack", "packing", "packWriting", "packFailed")
    BY <2>1, Moves DEF AdmitWrite
  <2>2. CASE WriteReturns("pack", "packWriting", "packing", "packFailed") /\ UNCHANGED <<permit, registered>>
    BY <2>2, Moves DEF WriteReturns
  <2> QED
    BY <1>5, <2>1, <2>2 DEF PackWrite
<1>6. CASE PackReturns
  BY <1>6, Moves DEF PackReturns, PackFails
<1>7. CASE FinishPack
  <2>0. registered' \cap Workers = registered \cap Workers
    BY <1>7 DEF FinishPack
  <2>1. CASE At("pack", "packDone", "consumed") /\ permit' = TRUE
    <3>1. "packDone" \in Holding /\ "consumed" \in Positions \ Holding
      OBVIOUS
    <3> HIDE DEF Positions, Holding, At
    <3> QED
      BY <2>0, <2>1, <3>1, ReleaseKeeps
  <2>2. CASE At("pack", "packRefused", "consumed") /\ UNCHANGED permit
    BY <1>7, <2>2, Moves DEF FinishPack
  <2> QED
    BY <1>7, <2>1, <2>2 DEF FinishPack
<1>8. CASE FinishConsume
  BY <1>8, Moves DEF FinishConsume
<1> QED
  BY <1>1, <1>2, <1>3, <1>4, <1>5, <1>6, <1>7, <1>8 DEF PackStep

\* The template worker.
LEMMA RefreshKeeps ==
  ASSUME PermitInv, RefreshStep \/ RefreshTimer
  PROVE  PermitInv'
<1> "refresh" \in Procs
  BY ProcFacts
<1> USE DEF locks, calls, Positions, Holding, At
<1>1. CASE RefreshCheck
  BY <1>1, Moves DEF RefreshCheck
<1>2. CASE RefreshAcquire
  BY <1>2, AcquireKeeps DEF RefreshAcquire
<1>3. CASE RefreshBegin
  BY <1>3, Moves DEF RefreshBegin
<1>4. CASE RefreshWrite
  BY <1>4, Moves DEF RefreshWrite, AdmitWrite, WriteReturns
<1>5. CASE RefreshComplete
  BY <1>5, Moves DEF RefreshComplete
<1>6. CASE RefreshRelease
  BY <1>6, ReleaseKeeps DEF RefreshRelease
<1>7. CASE RefreshWoken \/ RefreshTimer
  BY <1>7, Moves DEF RefreshWoken, RefreshTimer
<1> QED
  BY <1>1, <1>2, <1>3, <1>4, <1>5, <1>6, <1>7 DEF RefreshStep

\* Shutdown.
LEMMA ShutdownKeeps ==
  ASSUME PermitInv, NEW p \in Shutters, CloseHandles(p) \/ ShutdownStep(p) \/ JoinExpires(p)
  PROVE  PermitInv'
<1> p \in Procs
  BY ProcFacts
<1> USE DEF locks, calls, Positions, Holding, At
<1>1. CASE CloseHandles(p)
  BY <1>1, Moves DEF CloseHandles
<1>2. CASE CancelCaptured(p) \/ CloseCaptured(p)
  BY <1>2, Moves DEF CancelCaptured, CloseCaptured
<1>3. CASE JoinOnce(p) \/ Join(p) \/ JoinExpires(p)
  BY <1>3, Moves DEF JoinOnce, Join, JoinExpires
<1> QED
  BY <1>1, <1>2, <1>3 DEF ShutdownStep

\* Every step keeps the invariant.
LEMMA NextKeeps == PermitInv /\ [Next]_vars => PermitInv'
<1> SUFFICES ASSUME PermitInv, [Next]_vars PROVE PermitInv'
  OBVIOUS
<1>1. CASE Start
  BY <1>1, Moves, ProcFacts DEF Start, At, locks, Positions, Holding
<1>2. CASE StartDNSWorker
  BY <1>2, LaunchKeeps DEF StartDNSWorker, locks, Positions, Holding, Workers
<1>3. CASE StartRefreshWorker
  BY <1>3, LaunchKeeps DEF StartRefreshWorker, locks, Positions, Holding, Workers
<1>4. CASE MaintainDNS
  BY <1>4, Moves, ProcFacts DEF MaintainDNS, At, locks, Positions, Holding
<1>5. ASSUME NEW p \in Makers, MakerStep(p) PROVE PermitInv'
  BY <1>5, MakerKeeps
<1>6. ASSUME NEW w \in Workers, WorkerExits(w) PROVE PermitInv'
  BY <1>6, WorkerExitKeeps
<1>7. CASE Consume \/ PackStep
  BY <1>7, PackKeeps
<1>8. CASE RefreshStep \/ RefreshTimer
  BY <1>8, RefreshKeeps
<1>9. ASSUME NEW p \in {"start", "pack"}, CallerCancels(p) PROVE PermitInv'
  BY <1>9 DEF CallerCancels, locks, calls, PermitInv, PositionsOK, WorkersOff, OneHolder
<1>10. ASSUME NEW p \in Shutters, CloseHandles(p) \/ ShutdownStep(p) \/ JoinExpires(p) PROVE PermitInv'
  BY <1>10, ShutdownKeeps
<1>11. CASE UNCHANGED vars
  BY <1>11 DEF vars, locks, calls, PermitInv, PositionsOK, WorkersOff, OneHolder
<1> QED
  BY <1>1, <1>2, <1>3, <1>4, <1>5, <1>6, <1>7, <1>8, <1>9, <1>10, <1>11 DEF Next

\* At first the permit is in the channel.
LEMMA InitKeeps == Init => PermitInv
<1> SUFFICES ASSUME Init PROVE PermitInv
  OBVIOUS
<1>1. \A p \in Procs : pc[p] = (IF p \in Workers THEN "off" ELSE "idle")
  BY DEF Init
<1>2. PositionsOK
  BY DEF Init, PositionsOK, Positions
<1>3. WorkersOff
  BY <1>1, ProcFacts DEF WorkersOff
<1>4. OneHolder
  BY <1>1 DEF Init, OneHolder, Holding
<1> QED
  BY <1>2, <1>3, <1>4 DEF PermitInv

\* Counting the holders.
LEMMA InvCounts == PermitInv => PermitConserved
<1> SUFFICES ASSUME PermitInv PROVE PermitConserved
  OBVIOUS
<1>1. CASE permit
  <2>1. Holders = {}
    BY <1>1 DEF PermitInv, OneHolder, Holders, Holding
  <2> QED
    BY <1>1, <2>1, FS_EmptySet DEF PermitConserved
<1>2. CASE ~permit
  <2>1. PICK p \in Procs : \A q \in Procs : pc[q] \in Holding <=> q = p
    BY <1>2 DEF PermitInv, OneHolder
  <2>2. Holders = {p}
    BY <2>1 DEF Holders, Holding
  <2>3. Cardinality(Holders) = 1
    BY <2>2, FS_Singleton
  <2> QED
    BY <1>2, <2>3 DEF PermitConserved
<1> QED
  BY <1>1, <1>2

\* The send permit is neither lost nor doubled, whichever goroutines wait for
\* it, are cancelled while waiting or between the receive and the re-check of
\* sendPermit.acquire, fail or shut the runtime down.
THEOREM PermitIsConserved == Spec => []PermitConserved
<1>1. Init => PermitInv
  BY InitKeeps
<1>2. PermitInv /\ [Next]_vars => PermitInv'
  BY NextKeeps
<1>3. PermitInv => PermitConserved
  BY InvCounts
<1> QED
  BY <1>1, <1>2, <1>3, PTL DEF Spec

-----------------------------------------------------------------------------
(* Sockets, registrations and shutdown.                                    *)

\* Positions: of an attempt, of a registered Pack, of the owner of the
\* maintenance token, of an attempt that may have a candidate attached, and of
\* a write in flight.
MakerPos == {"dial", "dialled", "boot", "booting", "acquire", "waiting", "received", "publish",
             "release", "retire", "end", "detach", "discard", "unregister"}
PackingPos == {"packAcquire", "waiting", "received", "packCheck", "packing", "packWriting", "packFailed",
               "packDone", "packRefused"}
TokenPos == MakerPos \ {"dial", "detach", "discard", "unregister"}
HeldPos == {"boot", "booting", "acquire", "waiting", "received", "publish", "release", "retire", "end",
            "detach"}
WritingPos == {"booting", "packWriting", "refreshWriting"}

\* Each goroutine stays in its own code.
Places ==
  /\ pc["start"] \in MakerPos \cup {"idle", "startDNS", "startRefresh"}
  /\ pc["dns"] \in MakerPos \cup {"off", "wait"}
  /\ pc["pack"] \in PackingPos \cup {"idle", "consume", "consumed"}
  /\ pc["refresh"] \in {"off", "wait", "check", "refreshAcquire", "waiting", "received", "refreshBegin",
                        "refreshing", "refreshWriting", "refreshDone"}
  /\ \A p \in Shutters : pc[p] \in {"idle", "closeSockets", "join", "returned"}

One(b) == IF b THEN 1 ELSE 0

AttemptType ==
  attempt \in [owner : Makers \cup {"none"}, candidate : Sockets \cup {None}, previous : Sockets \cup {None}]

\* The owner of the registered attempt is the goroutine that works on one.
OwnerInv ==
  /\ attempt.owner = "start" <=> pc["start"] \in MakerPos
  /\ attempt.owner = "dns" <=> pc["dns"] \in MakerPos

\* What is registered is what runs.
RegisteredInv ==
  /\ "dns" \in registered <=> pc["dns"] # "off"
  /\ "refresh" \in registered <=> pc["refresh"] # "off"
  /\ "request" \in registered <=> pc["pack"] # "idle"
  /\ "pack" \in registered <=> pc["pack"] \in PackingPos

RegisteredNames == \A r \in registered : r \in {"pack", "request", "dns", "refresh"}

\* activeCalls counts the registered operations.
CountInv ==
  /\ activeCalls = One(attempt.owner # "none") + One("dns" \in registered) + One("refresh" \in registered)
                    + One("request" \in registered) + One("pack" \in registered)
  /\ drained = One(closing /\ activeCalls = 0)

\* The maintenance token is held from the lookup to maintenance.End.
TokenInv ==
  /\ gate \in Makers \cup {"free"}
  /\ \A p \in Makers : gate = p <=> pc[p] \in TokenPos

\* activeWrites counts the writes in flight.
WriteInv ==
  activeWrites = One(pc["start"] = "booting") + One(pc["dns"] = "booting")
                   + One(pc["pack"] = "packWriting") + One(pc["refresh"] = "refreshWriting")

\* closeOnce is run by one Shutdown caller; who waits or has returned has seen
\* it done.
CloseInv ==
  /\ closing <=> closeOnce # "no"
  /\ \A p \in Shutters : pc[p] = "closeSockets" => closeOnce = "running"
  /\ \A p \in Shutters : pc[p] \in {"join", "returned"} => closeOnce = "done"
  /\ \A p, q \in Shutters : pc[p] = "closeSockets" /\ pc[q] = "closeSockets" => p = q
  /\ shutdownResult # "none" => closeOnce = "done"

\* A reported drain has happened.
DrainInv == shutdownResult = "drained" => drained = 1

\* Contexts, flags, sockets and handles have their types.
FlagTypes ==
  /\ closing \in BOOLEAN /\ refreshWake \in BOOLEAN
  /\ \A p \in cancelled : p \in Procs
  /\ \A p \in doomed[2] : p \in Procs

HandleTypes ==
  /\ published \in Sockets \cup {None} /\ retired \in Sockets \cup {None}
  /\ handle \in [Procs -> Sockets \cup {None}]
  /\ sock \in [Sockets -> {"unused", "open", "closed"}]

\* The published endpoint, the attached candidate, the replaced endpoint and a
\* candidate that is about to be closed are four sockets; the first two are
\* open, and a closing runtime has neither.
EndpointInv ==
  /\ closing => published = None /\ attempt.candidate = None
  /\ published # None => sock[published] = "open" /\ published # attempt.candidate /\ published # retired
  /\ attempt.candidate # None => sock[attempt.candidate] = "open"
  /\ retired # None => attempt.candidate = None
  /\ attempt.owner = "none" => attempt.candidate = None /\ retired = None
  /\ \A p \in Makers : pc[p] \in MakerPos =>
       /\ retired # None => pc[p] \in {"release", "retire"}
       /\ attempt.candidate # None => pc[p] \in HeldPos /\ (pc[p] # "detach" => attempt.candidate = handle[p])
       /\ pc[p] \in {"dialled", "discard"} => handle[p] = None \/ handle[p] # published
       /\ pc[p] = "dialled" => handle[p] # None
       /\ pc[p] = "dialled" /\ ~closing => sock[handle[p]] = "open"

\* A request or a refresh under the permit uses the published endpoint.
StableInv ==
  \A p \in {"pack", "refresh"} :
    pc[p] \in {"packing", "packWriting", "refreshing", "refreshWriting"} /\ ~closing
      => published = handle[p] /\ published # None

\* The socket of a write in flight is one that Shutdown closes: published or
\* attached before, captured during, and closed after closeOnce.
FlightInv ==
  \A p \in Procs : pc[p] \in WritingPos =>
    /\ handle[p] \in Sockets /\ sock[handle[p]] # "unused"
    /\ closeOnce = "no" => handle[p] \in {published, attempt.candidate}
    /\ closeOnce = "running" /\ sock[handle[p]] = "open" => handle[p] \in doomed[1]
    /\ closeOnce = "done" => sock[handle[p]] # "open"

-----------------------------------------------------------------------------
(* Positions.                                                              *)

\* Who the goroutines are.
LEMMA Kinds ==
  /\ \A p \in Shutters : p \notin {"start", "dns", "refresh", "pack"}
  /\ \A p \in Makers : p = "start" \/ p = "dns"
  /\ \A p \in Workers : p = "refresh" \/ p = "dns"
  /\ "start" \in Makers /\ "dns" \in Makers /\ "dns" \in Workers /\ "refresh" \in Workers
BY RuntimeAssumption DEF RuntimeAssumption, Makers, Workers

\* The zero value stands for no candidate.
LEMMA NoneIsNoSocket == None \notin Sockets
BY RuntimeAssumption DEF RuntimeAssumption, None, Sockets

\* Every step stays inside the code of its goroutine.
LEMMA PlacesKept ==
  ASSUME PermitInv, Places, [Next]_vars
  PROVE  Places'
<1> USE DEF Places, PermitInv, PositionsOK, At, MakerPos, PackingPos
<1> USE ProcFacts, Kinds
<1>1. CASE Start \/ MaintainDNS
  BY <1>1 DEF Start, MaintainDNS
<1>2. CASE StartDNSWorker
  BY <1>2 DEF StartDNSWorker, StartWorker
<1>3. CASE StartRefreshWorker
  BY <1>3 DEF StartRefreshWorker, StartWorker
<1>5. ASSUME NEW p \in Makers, MakerStep(p) PROVE Places'
  <2>1. CASE Dial(p) \/ Attach(p) \/ BootAdmit(p) \/ BootWrite(p)
    BY <2>1 DEF Dial, Attach, BootAdmit, BootWrite, WriteReturns
  <2>2. CASE AcquireForPublish(p) \/ Publish(p) \/ ReleaseAfterPublish(p) \/ Retire(p)
    BY <2>2 DEF AcquireForPublish, Acquire, Ask, Receive, Recheck, Publish, ReleaseAfterPublish, Retire
  <2>3. CASE EndToken(p) \/ Detach(p) \/ Discard(p) \/ Unregister(p)
    BY <2>3 DEF EndToken, Detach, Discard, Unregister
  <2> QED
    BY <1>5, <2>1, <2>2, <2>3 DEF MakerStep
<1>6. ASSUME NEW w \in Workers, WorkerExits(w) PROVE Places'
  BY <1>6 DEF WorkerExits
<1>7. CASE Consume \/ PackStep
  BY <1>7 DEF Consume, PackStep, Pack, PackAcquire, Acquire, Ask, Receive, Recheck, PackCheck, PackWrite, AdmitWrite,
     WriteReturns,
     PackReturns, PackFails, FinishPack, FinishConsume
<1>8. CASE RefreshStep \/ RefreshTimer
  BY <1>8 DEF RefreshStep, RefreshTimer, RefreshCheck, RefreshAcquire, Acquire, Ask, Receive, Recheck, RefreshBegin,
     RefreshWrite,
     AdmitWrite, WriteReturns, RefreshComplete, RefreshRelease, RefreshWoken
<1>9. ASSUME NEW p \in {"start", "pack"}, CallerCancels(p) PROVE Places'
  BY <1>9 DEF CallerCancels
<1>10. ASSUME NEW p \in Shutters, CloseHandles(p) \/ ShutdownStep(p) \/ JoinExpires(p) PROVE Places'
  BY <1>10 DEF CloseHandles, ShutdownStep, JoinExpires, CancelCaptured, CloseCaptured, JoinOnce, Join
<1>11. CASE UNCHANGED vars
  BY <1>11 DEF vars
<1> QED
  BY <1>1, <1>2, <1>3, <1>5, <1>6, <1>7, <1>8, <1>9, <1>10, <1>11 DEF Next

\* An attempt is registered when it starts and unregistered when it ends.
LEMMA OwnerKept ==
  ASSUME PermitInv, Places, AttemptType, OwnerInv, [Next]_vars
  PROVE  OwnerInv'
<1> USE DEF Places, AttemptType, NoAttempt, OwnerInv, WorkersOff, MakerPos, PackingPos, PermitInv,
   PositionsOK, At, locks, calls, ends, count, close
<1> USE ProcFacts, Kinds
<1>1. CASE Start
  BY <1>1 DEF Start, Register
<1>2. CASE MaintainDNS
  BY <1>2 DEF MaintainDNS, Register
<1>3. CASE StartDNSWorker
  BY <1>3 DEF StartDNSWorker, StartWorker, Launchable, Register
<1>4. CASE StartRefreshWorker
  BY <1>4 DEF StartRefreshWorker, StartWorker, Launchable, Register
<1>5. ASSUME NEW p \in Makers, MakerStep(p) PROVE OwnerInv'
  <2>1. CASE Dial(p) \/ Attach(p) \/ BootAdmit(p) \/ BootWrite(p)
    BY <2>1 DEF Dial, Attach, CloseAll, BootAdmit, BootWrite, WriteReturns
  <2>2. CASE AcquireForPublish(p) \/ Publish(p) \/ ReleaseAfterPublish(p) \/ Retire(p)
    BY <2>2 DEF AcquireForPublish, Acquire, Ask, Receive, Recheck, Publish, ReleaseAfterPublish, Retire, CloseAll
  <2>3. CASE EndToken(p) \/ Detach(p) \/ Discard(p) \/ Unregister(p)
    BY <2>3 DEF EndToken, Detach, Discard, CloseAll, Unregister, EndCall
  <2> QED
    BY <1>5, <2>1, <2>2, <2>3 DEF MakerStep
<1>6. ASSUME NEW w \in Workers, WorkerExits(w) PROVE OwnerInv'
  BY <1>6 DEF WorkerExits, EndCall
<1>7. CASE Consume \/ PackStep
  <2>1. CASE Consume \/ Pack
    BY <2>1 DEF Consume, Register, Pack
  <2>2. CASE PackAcquire \/ PackCheck \/ PackWrite
    BY <2>2 DEF PackAcquire, Acquire, Ask, Receive, Recheck, PackCheck, PackWrite, AdmitWrite,
         WriteAdmitted, WriteReturns
  <2>3. CASE PackReturns \/ FinishPack \/ FinishConsume
    BY <2>3 DEF PackReturns, PackFails, FinishPack, EndCall, FinishConsume
  <2> QED
    BY <1>7, <2>1, <2>2, <2>3 DEF PackStep
<1>8. CASE RefreshStep \/ RefreshTimer
  <2>1. CASE RefreshCheck \/ RefreshAcquire \/ RefreshBegin
    BY <2>1 DEF RefreshCheck, RefreshAcquire, Acquire, Ask, Receive, Recheck, RefreshBegin
  <2>2. CASE RefreshWrite \/ RefreshComplete \/ RefreshRelease
    BY <2>2 DEF RefreshWrite, AdmitWrite, WriteAdmitted, WriteReturns, RefreshComplete, RefreshRelease
  <2>3. CASE RefreshWoken \/ RefreshTimer
    BY <2>3 DEF RefreshWoken, RefreshTimer
  <2> QED
    BY <1>8, <2>1, <2>2, <2>3 DEF RefreshStep
<1>9. ASSUME NEW p \in {"start", "pack"}, CallerCancels(p) PROVE OwnerInv'
  BY <1>9 DEF CallerCancels
<1>10. ASSUME NEW p \in Shutters, CloseHandles(p) \/ ShutdownStep(p) \/ JoinExpires(p) PROVE OwnerInv'
  <2>1. CASE CloseHandles(p)
    BY <2>1 DEF CloseHandles
  <2>2. CASE CancelCaptured(p) \/ CloseCaptured(p)
    BY <2>2 DEF CancelCaptured, CloseCaptured, CloseAll
  <2>3. CASE JoinOnce(p) \/ Join(p) \/ JoinExpires(p)
    BY <2>3 DEF JoinOnce, Join, JoinExpires
  <2> QED
    BY <1>10, <2>1, <2>2, <2>3 DEF ShutdownStep
<1>11. CASE UNCHANGED vars
  BY <1>11 DEF vars
<1> QED
  BY <1>1, <1>2, <1>3, <1>4, <1>5, <1>6, <1>7, <1>8, <1>9, <1>10, <1>11 DEF Next

\* An operation registers when it starts and unregisters when it ends.
LEMMA RegisteredKept ==
  ASSUME PermitInv, Places, RegisteredInv, [Next]_vars
  PROVE  RegisteredInv'
<1> USE DEF Places, RegisteredInv, MakerPos, PackingPos, PermitInv, PositionsOK, At, locks, calls,
   ends, count, close
<1> USE ProcFacts, Kinds
<1>1. CASE Start
  BY <1>1 DEF Start, Register
<1>2. CASE MaintainDNS
  BY <1>2 DEF MaintainDNS, Register
<1>3. CASE StartDNSWorker
  BY <1>3 DEF StartDNSWorker, StartWorker, Launchable, Register
<1>4. CASE StartRefreshWorker
  BY <1>4 DEF StartRefreshWorker, StartWorker, Launchable, Register
<1>5. ASSUME NEW p \in Makers, MakerStep(p) PROVE RegisteredInv'
  <2>1. CASE Dial(p) \/ Attach(p) \/ BootAdmit(p) \/ BootWrite(p)
    BY <2>1 DEF Dial, Attach, CloseAll, BootAdmit, BootWrite, WriteReturns
  <2>2. CASE AcquireForPublish(p) \/ Publish(p) \/ ReleaseAfterPublish(p) \/ Retire(p)
    BY <2>2 DEF AcquireForPublish, Acquire, Ask, Receive, Recheck, Publish, ReleaseAfterPublish, Retire, CloseAll
  <2>3. CASE EndToken(p) \/ Detach(p) \/ Discard(p) \/ Unregister(p)
    BY <2>3 DEF EndToken, Detach, Discard, CloseAll, Unregister, EndCall
  <2> QED
    BY <1>5, <2>1, <2>2, <2>3 DEF MakerStep
<1>6. ASSUME NEW w \in Workers, WorkerExits(w) PROVE RegisteredInv'
  BY <1>6 DEF WorkerExits, EndCall
<1>7. CASE Consume \/ PackStep
  <2>1. CASE Consume \/ Pack
    BY <2>1 DEF Consume, Register, Pack
  <2>2. CASE PackAcquire \/ PackCheck \/ PackWrite
    BY <2>2 DEF PackAcquire, Acquire, Ask, Receive, Recheck, PackCheck, PackWrite, AdmitWrite,
         WriteAdmitted, WriteReturns
  <2>3. CASE PackReturns \/ FinishPack \/ FinishConsume
    BY <2>3 DEF PackReturns, PackFails, FinishPack, EndCall, FinishConsume
  <2> QED
    BY <1>7, <2>1, <2>2, <2>3 DEF PackStep
<1>8. CASE RefreshStep \/ RefreshTimer
  <2>1. CASE RefreshCheck \/ RefreshAcquire \/ RefreshBegin
    BY <2>1 DEF RefreshCheck, RefreshAcquire, Acquire, Ask, Receive, Recheck, RefreshBegin
  <2>2. CASE RefreshWrite \/ RefreshComplete \/ RefreshRelease
    BY <2>2 DEF RefreshWrite, AdmitWrite, WriteAdmitted, WriteReturns, RefreshComplete, RefreshRelease
  <2>3. CASE RefreshWoken \/ RefreshTimer
    BY <2>3 DEF RefreshWoken, RefreshTimer
  <2> QED
    BY <1>8, <2>1, <2>2, <2>3 DEF RefreshStep
<1>9. ASSUME NEW p \in {"start", "pack"}, CallerCancels(p) PROVE RegisteredInv'
  BY <1>9 DEF CallerCancels
<1>10. ASSUME NEW p \in Shutters, CloseHandles(p) \/ ShutdownStep(p) \/ JoinExpires(p) PROVE RegisteredInv'
  <2>1. CASE CloseHandles(p)
    BY <2>1 DEF CloseHandles
  <2>2. CASE CancelCaptured(p) \/ CloseCaptured(p)
    BY <2>2 DEF CancelCaptured, CloseCaptured, CloseAll
  <2>3. CASE JoinOnce(p) \/ Join(p) \/ JoinExpires(p)
    BY <2>3 DEF JoinOnce, Join, JoinExpires
  <2> QED
    BY <1>10, <2>1, <2>2, <2>3 DEF ShutdownStep
<1>11. CASE UNCHANGED vars
  BY <1>11 DEF vars
<1> QED
  BY <1>1, <1>2, <1>3, <1>4, <1>5, <1>6, <1>7, <1>8, <1>9, <1>10, <1>11 DEF Next

\* The maintenance token is taken by Begin and given back by End.
LEMMA TokenKept ==
  ASSUME PermitInv, Places, TokenInv, [Next]_vars
  PROVE  TokenInv'
<1> USE DEF Places, TokenInv, WorkersOff, TokenPos, MakerPos, PackingPos, PermitInv, PositionsOK,
   At, locks, calls, ends, count, close
<1> USE ProcFacts, Kinds
<1>1. CASE Start
  BY <1>1 DEF Start, Register
<1>2. CASE MaintainDNS
  BY <1>2 DEF MaintainDNS, Register
<1>3. CASE StartDNSWorker
  BY <1>3 DEF StartDNSWorker, StartWorker, Launchable, Register
<1>4. CASE StartRefreshWorker
  BY <1>4 DEF StartRefreshWorker, StartWorker, Launchable, Register
<1>5. ASSUME NEW p \in Makers, MakerStep(p) PROVE TokenInv'
  <2>1. CASE Dial(p) \/ Attach(p) \/ BootAdmit(p) \/ BootWrite(p)
    BY <2>1 DEF Dial, Attach, CloseAll, BootAdmit, BootWrite, WriteReturns
  <2>2. CASE AcquireForPublish(p) \/ Publish(p) \/ ReleaseAfterPublish(p) \/ Retire(p)
    BY <2>2 DEF AcquireForPublish, Acquire, Ask, Receive, Recheck, Publish, ReleaseAfterPublish, Retire, CloseAll
  <2>3. CASE EndToken(p) \/ Detach(p) \/ Discard(p) \/ Unregister(p)
    BY <2>3 DEF EndToken, Detach, Discard, CloseAll, Unregister, EndCall
  <2> QED
    BY <1>5, <2>1, <2>2, <2>3 DEF MakerStep
<1>6. ASSUME NEW w \in Workers, WorkerExits(w) PROVE TokenInv'
  BY <1>6 DEF WorkerExits, EndCall
<1>7. CASE Consume \/ PackStep
  <2>1. CASE Consume \/ Pack
    BY <2>1 DEF Consume, Register, Pack
  <2>2. CASE PackAcquire \/ PackCheck \/ PackWrite
    BY <2>2 DEF PackAcquire, Acquire, Ask, Receive, Recheck, PackCheck, PackWrite, AdmitWrite,
         WriteAdmitted, WriteReturns
  <2>3. CASE PackReturns \/ FinishPack \/ FinishConsume
    BY <2>3 DEF PackReturns, PackFails, FinishPack, EndCall, FinishConsume
  <2> QED
    BY <1>7, <2>1, <2>2, <2>3 DEF PackStep
<1>8. CASE RefreshStep \/ RefreshTimer
  <2>1. CASE RefreshCheck \/ RefreshAcquire \/ RefreshBegin
    BY <2>1 DEF RefreshCheck, RefreshAcquire, Acquire, Ask, Receive, Recheck, RefreshBegin
  <2>2. CASE RefreshWrite \/ RefreshComplete \/ RefreshRelease
    BY <2>2 DEF RefreshWrite, AdmitWrite, WriteAdmitted, WriteReturns, RefreshComplete, RefreshRelease
  <2>3. CASE RefreshWoken \/ RefreshTimer
    BY <2>3 DEF RefreshWoken, RefreshTimer
  <2> QED
    BY <1>8, <2>1, <2>2, <2>3 DEF RefreshStep
<1>9. ASSUME NEW p \in {"start", "pack"}, CallerCancels(p) PROVE TokenInv'
  BY <1>9 DEF CallerCancels
<1>10. ASSUME NEW p \in Shutters, CloseHandles(p) \/ ShutdownStep(p) \/ JoinExpires(p) PROVE TokenInv'
  <2>1. CASE CloseHandles(p)
    BY <2>1 DEF CloseHandles
  <2>2. CASE CancelCaptured(p) \/ CloseCaptured(p)
    BY <2>2 DEF CancelCaptured, CloseCaptured, CloseAll
  <2>3. CASE JoinOnce(p) \/ Join(p) \/ JoinExpires(p)
    BY <2>3 DEF JoinOnce, Join, JoinExpires
  <2> QED
    BY <1>10, <2>1, <2>2, <2>3 DEF ShutdownStep
<1>11. CASE UNCHANGED vars
  BY <1>11 DEF vars
<1> QED
  BY <1>1, <1>2, <1>3, <1>4, <1>5, <1>6, <1>7, <1>8, <1>9, <1>10, <1>11 DEF Next

\* A write is counted before it starts and discounted when it returns.
LEMMA WriteKept ==
  ASSUME PermitInv, Places, WriteInv, [Next]_vars
  PROVE  WriteInv'
<1> USE DEF Places, WriteInv, WorkersOff, One, MakerPos, PackingPos, PermitInv, PositionsOK, At,
   locks, calls, ends, count, close
<1> USE ProcFacts, Kinds
<1>1. CASE Start
  BY <1>1 DEF Start, Register
<1>2. CASE MaintainDNS
  BY <1>2 DEF MaintainDNS, Register
<1>3. CASE StartDNSWorker
  BY <1>3 DEF StartDNSWorker, StartWorker, Launchable, Register
<1>4. CASE StartRefreshWorker
  BY <1>4 DEF StartRefreshWorker, StartWorker, Launchable, Register
<1>5. ASSUME NEW p \in Makers, MakerStep(p) PROVE WriteInv'
  <2>1. CASE Dial(p) \/ Attach(p) \/ BootAdmit(p) \/ BootWrite(p)
    BY <2>1 DEF Dial, Attach, CloseAll, BootAdmit, BootWrite, WriteReturns
  <2>2. CASE AcquireForPublish(p) \/ Publish(p) \/ ReleaseAfterPublish(p) \/ Retire(p)
    BY <2>2 DEF AcquireForPublish, Acquire, Ask, Receive, Recheck, Publish, ReleaseAfterPublish, Retire, CloseAll
  <2>3. CASE EndToken(p) \/ Detach(p) \/ Discard(p) \/ Unregister(p)
    BY <2>3 DEF EndToken, Detach, Discard, CloseAll, Unregister, EndCall
  <2> QED
    BY <1>5, <2>1, <2>2, <2>3 DEF MakerStep
<1>6. ASSUME NEW w \in Workers, WorkerExits(w) PROVE WriteInv'
  BY <1>6 DEF WorkerExits, EndCall
<1>7. CASE Consume \/ PackStep
  <2>1. CASE Consume \/ Pack
    BY <2>1 DEF Consume, Register, Pack
  <2>2. CASE PackAcquire \/ PackCheck \/ PackWrite
    BY <2>2 DEF PackAcquire, Acquire, Ask, Receive, Recheck, PackCheck, PackWrite, AdmitWrite,
         WriteAdmitted, WriteReturns
  <2>3. CASE PackReturns \/ FinishPack \/ FinishConsume
    BY <2>3 DEF PackReturns, PackFails, FinishPack, EndCall, FinishConsume
  <2> QED
    BY <1>7, <2>1, <2>2, <2>3 DEF PackStep
<1>8. CASE RefreshStep \/ RefreshTimer
  <2>1. CASE RefreshCheck \/ RefreshAcquire \/ RefreshBegin
    BY <2>1 DEF RefreshCheck, RefreshAcquire, Acquire, Ask, Receive, Recheck, RefreshBegin
  <2>2. CASE RefreshWrite \/ RefreshComplete \/ RefreshRelease
    BY <2>2 DEF RefreshWrite, AdmitWrite, WriteAdmitted, WriteReturns, RefreshComplete, RefreshRelease
  <2>3. CASE RefreshWoken \/ RefreshTimer
    BY <2>3 DEF RefreshWoken, RefreshTimer
  <2> QED
    BY <1>8, <2>1, <2>2, <2>3 DEF RefreshStep
<1>9. ASSUME NEW p \in {"start", "pack"}, CallerCancels(p) PROVE WriteInv'
  BY <1>9 DEF CallerCancels
<1>10. ASSUME NEW p \in Shutters, CloseHandles(p) \/ ShutdownStep(p) \/ JoinExpires(p) PROVE WriteInv'
  <2>1. CASE CloseHandles(p)
    BY <2>1 DEF CloseHandles
  <2>2. CASE CancelCaptured(p) \/ CloseCaptured(p)
    BY <2>2 DEF CancelCaptured, CloseCaptured, CloseAll
  <2>3. CASE JoinOnce(p) \/ Join(p) \/ JoinExpires(p)
    BY <2>3 DEF JoinOnce, Join, JoinExpires
  <2> QED
    BY <1>10, <2>1, <2>2, <2>3 DEF ShutdownStep
<1>11. CASE UNCHANGED vars
  BY <1>11 DEF vars
<1> QED
  BY <1>1, <1>2, <1>3, <1>4, <1>5, <1>6, <1>7, <1>8, <1>9, <1>10, <1>11 DEF Next

\* The cancel functions are those of the four kinds of operation.
LEMMA NamesKept ==
  ASSUME RegisteredNames, [Next]_vars
  PROVE  RegisteredNames'
<1> USE DEF RegisteredNames, PermitInv, PositionsOK, At, locks, calls, ends, count, close
<1> USE ProcFacts, Kinds
<1>1. CASE Start
  BY <1>1 DEF Start, Register
<1>2. CASE MaintainDNS
  BY <1>2 DEF MaintainDNS, Register
<1>3. CASE StartDNSWorker
  BY <1>3 DEF StartDNSWorker, StartWorker, Launchable, Register
<1>4. CASE StartRefreshWorker
  BY <1>4 DEF StartRefreshWorker, StartWorker, Launchable, Register
<1>5. ASSUME NEW p \in Makers, MakerStep(p) PROVE RegisteredNames'
  <2>1. CASE Dial(p) \/ Attach(p) \/ BootAdmit(p) \/ BootWrite(p)
    BY <2>1 DEF Dial, Attach, CloseAll, BootAdmit, BootWrite, WriteReturns
  <2>2. CASE AcquireForPublish(p) \/ Publish(p) \/ ReleaseAfterPublish(p) \/ Retire(p)
    BY <2>2 DEF AcquireForPublish, Acquire, Ask, Receive, Recheck, Publish, ReleaseAfterPublish, Retire, CloseAll
  <2>3. CASE EndToken(p) \/ Detach(p) \/ Discard(p) \/ Unregister(p)
    BY <2>3 DEF EndToken, Detach, Discard, CloseAll, Unregister, EndCall
  <2> QED
    BY <1>5, <2>1, <2>2, <2>3 DEF MakerStep
<1>6. ASSUME NEW w \in Workers, WorkerExits(w) PROVE RegisteredNames'
  BY <1>6 DEF WorkerExits, EndCall
<1>7. CASE Consume \/ PackStep
  <2>1. CASE Consume \/ Pack
    BY <2>1 DEF Consume, Register, Pack
  <2>2. CASE PackAcquire \/ PackCheck \/ PackWrite
    BY <2>2 DEF PackAcquire, Acquire, Ask, Receive, Recheck, PackCheck, PackWrite, AdmitWrite,
         WriteAdmitted, WriteReturns
  <2>3. CASE PackReturns \/ FinishPack \/ FinishConsume
    BY <2>3 DEF PackReturns, PackFails, FinishPack, EndCall, FinishConsume
  <2> QED
    BY <1>7, <2>1, <2>2, <2>3 DEF PackStep
<1>8. CASE RefreshStep \/ RefreshTimer
  <2>1. CASE RefreshCheck \/ RefreshAcquire \/ RefreshBegin
    BY <2>1 DEF RefreshCheck, RefreshAcquire, Acquire, Ask, Receive, Recheck, RefreshBegin
  <2>2. CASE RefreshWrite \/ RefreshComplete \/ RefreshRelease
    BY <2>2 DEF RefreshWrite, AdmitWrite, WriteAdmitted, WriteReturns, RefreshComplete, RefreshRelease
  <2>3. CASE RefreshWoken \/ RefreshTimer
    BY <2>3 DEF RefreshWoken, RefreshTimer
  <2> QED
    BY <1>8, <2>1, <2>2, <2>3 DEF RefreshStep
<1>9. ASSUME NEW p \in {"start", "pack"}, CallerCancels(p) PROVE RegisteredNames'
  BY <1>9 DEF CallerCancels
<1>10. ASSUME NEW p \in Shutters, CloseHandles(p) \/ ShutdownStep(p) \/ JoinExpires(p) PROVE RegisteredNames'
  <2>1. CASE CloseHandles(p)
    BY <2>1 DEF CloseHandles
  <2>2. CASE CancelCaptured(p) \/ CloseCaptured(p)
    BY <2>2 DEF CancelCaptured, CloseCaptured, CloseAll
  <2>3. CASE JoinOnce(p) \/ Join(p) \/ JoinExpires(p)
    BY <2>3 DEF JoinOnce, Join, JoinExpires
  <2> QED
    BY <1>10, <2>1, <2>2, <2>3 DEF ShutdownStep
<1>11. CASE UNCHANGED vars
  BY <1>11 DEF vars
<1> QED
  BY <1>1, <1>2, <1>3, <1>4, <1>5, <1>6, <1>7, <1>8, <1>9, <1>10, <1>11 DEF Next

\* The attempt, the sockets and the handles keep their types.
LEMMA AttemptTyped ==
  ASSUME PermitInv, Places, AttemptType, HandleTypes, [Next]_vars
  PROVE  (AttemptType /\ HandleTypes)'
<1> USE DEF AttemptType, HandleTypes, NoAttempt, PermitInv, PositionsOK, At, locks, calls, ends,
   count, close
<1> USE ProcFacts, Kinds
<1>1. CASE Start
  BY <1>1 DEF Start, Register
<1>2. CASE MaintainDNS
  BY <1>2 DEF MaintainDNS, Register
<1>3. CASE StartDNSWorker
  BY <1>3 DEF StartDNSWorker, StartWorker, Launchable, Register
<1>4. CASE StartRefreshWorker
  BY <1>4 DEF StartRefreshWorker, StartWorker, Launchable, Register
<1>5. ASSUME NEW p \in Makers, MakerStep(p) PROVE (AttemptType /\ HandleTypes)'
  <2>1. CASE Dial(p) \/ Attach(p) \/ BootAdmit(p) \/ BootWrite(p)
    BY <2>1 DEF Dial, Attach, CloseAll, BootAdmit, BootWrite, WriteReturns
  <2>2. CASE AcquireForPublish(p) \/ Publish(p) \/ ReleaseAfterPublish(p) \/ Retire(p)
    BY <2>2 DEF AcquireForPublish, Acquire, Ask, Receive, Recheck, Publish, ReleaseAfterPublish, Retire, CloseAll
  <2>3. CASE EndToken(p) \/ Detach(p) \/ Discard(p) \/ Unregister(p)
    BY <2>3 DEF EndToken, Detach, Discard, CloseAll, Unregister, EndCall
  <2> QED
    BY <1>5, <2>1, <2>2, <2>3 DEF MakerStep
<1>6. ASSUME NEW w \in Workers, WorkerExits(w) PROVE (AttemptType /\ HandleTypes)'
  BY <1>6 DEF WorkerExits, EndCall
<1>7. CASE Consume \/ PackStep
  <2>1. CASE Consume \/ Pack
    BY <2>1 DEF Consume, Register, Pack
  <2>2. CASE PackAcquire \/ PackCheck \/ PackWrite
    BY <2>2 DEF PackAcquire, Acquire, Ask, Receive, Recheck, PackCheck, PackWrite, AdmitWrite,
         WriteAdmitted, WriteReturns
  <2>3. CASE PackReturns \/ FinishPack \/ FinishConsume
    BY <2>3 DEF PackReturns, PackFails, FinishPack, EndCall, FinishConsume
  <2> QED
    BY <1>7, <2>1, <2>2, <2>3 DEF PackStep
<1>8. CASE RefreshStep \/ RefreshTimer
  <2>1. CASE RefreshCheck \/ RefreshAcquire \/ RefreshBegin
    BY <2>1 DEF RefreshCheck, RefreshAcquire, Acquire, Ask, Receive, Recheck, RefreshBegin
  <2>2. CASE RefreshWrite \/ RefreshComplete \/ RefreshRelease
    BY <2>2 DEF RefreshWrite, AdmitWrite, WriteAdmitted, WriteReturns, RefreshComplete, RefreshRelease
  <2>3. CASE RefreshWoken \/ RefreshTimer
    BY <2>3 DEF RefreshWoken, RefreshTimer
  <2> QED
    BY <1>8, <2>1, <2>2, <2>3 DEF RefreshStep
<1>9. ASSUME NEW p \in {"start", "pack"}, CallerCancels(p) PROVE (AttemptType /\ HandleTypes)'
  BY <1>9 DEF CallerCancels
<1>10. ASSUME NEW p \in Shutters, CloseHandles(p) \/ ShutdownStep(p) \/ JoinExpires(p) PROVE (AttemptType /\ HandleTypes)'
  <2>1. CASE CloseHandles(p)
    BY <2>1 DEF CloseHandles
  <2>2. CASE CancelCaptured(p) \/ CloseCaptured(p)
    BY <2>2 DEF CancelCaptured, CloseCaptured, CloseAll
  <2>3. CASE JoinOnce(p) \/ Join(p) \/ JoinExpires(p)
    BY <2>3 DEF JoinOnce, Join, JoinExpires
  <2> QED
    BY <1>10, <2>1, <2>2, <2>3 DEF ShutdownStep
<1>11. CASE UNCHANGED vars
  BY <1>11 DEF vars
<1> QED
  BY <1>1, <1>2, <1>3, <1>4, <1>5, <1>6, <1>7, <1>8, <1>9, <1>10, <1>11 DEF Next

\* A registered operation is counted once.
LEMMA CountKept ==
  ASSUME PermitInv, Places, AttemptType, OwnerInv, RegisteredInv, CloseInv, CountInv, [Next]_vars
  PROVE  CountInv'
<1> USE DEF Places, AttemptType, NoAttempt, OwnerInv, RegisteredInv, CloseInv, CountInv, One,
   WorkersOff, MakerPos, PackingPos, PermitInv, PositionsOK, At, locks, calls, ends, count, close
<1> USE ProcFacts, Kinds
<1>1. CASE Start
  BY <1>1 DEF Start, Register
<1>2. CASE MaintainDNS
  BY <1>2 DEF MaintainDNS, Register
<1>3. CASE StartDNSWorker
  BY <1>3 DEF StartDNSWorker, StartWorker, Launchable, Register
<1>4. CASE StartRefreshWorker
  BY <1>4 DEF StartRefreshWorker, StartWorker, Launchable, Register
<1>5. ASSUME NEW p \in Makers, MakerStep(p) PROVE CountInv'
  <2>1. CASE Dial(p) \/ Attach(p) \/ BootAdmit(p) \/ BootWrite(p)
    BY <2>1 DEF Dial, Attach, CloseAll, BootAdmit, BootWrite, WriteReturns
  <2>2. CASE AcquireForPublish(p) \/ Publish(p) \/ ReleaseAfterPublish(p) \/ Retire(p)
    BY <2>2 DEF AcquireForPublish, Acquire, Ask, Receive, Recheck, Publish, ReleaseAfterPublish, Retire, CloseAll
  <2>3. CASE EndToken(p) \/ Detach(p) \/ Discard(p) \/ Unregister(p)
    BY <2>3 DEF EndToken, Detach, Discard, CloseAll, Unregister, EndCall
  <2> QED
    BY <1>5, <2>1, <2>2, <2>3 DEF MakerStep
<1>6. ASSUME NEW w \in Workers, WorkerExits(w) PROVE CountInv'
  BY <1>6 DEF WorkerExits, EndCall
<1>7. CASE Consume \/ PackStep
  <2>1. CASE Consume \/ Pack
    BY <2>1 DEF Consume, Register, Pack
  <2>2. CASE PackAcquire \/ PackCheck \/ PackWrite
    BY <2>2 DEF PackAcquire, Acquire, Ask, Receive, Recheck, PackCheck, PackWrite, AdmitWrite,
         WriteAdmitted, WriteReturns
  <2>3. CASE PackReturns \/ FinishPack \/ FinishConsume
    BY <2>3 DEF PackReturns, PackFails, FinishPack, EndCall, FinishConsume
  <2> QED
    BY <1>7, <2>1, <2>2, <2>3 DEF PackStep
<1>8. CASE RefreshStep \/ RefreshTimer
  <2>1. CASE RefreshCheck \/ RefreshAcquire \/ RefreshBegin
    BY <2>1 DEF RefreshCheck, RefreshAcquire, Acquire, Ask, Receive, Recheck, RefreshBegin
  <2>2. CASE RefreshWrite \/ RefreshComplete \/ RefreshRelease
    BY <2>2 DEF RefreshWrite, AdmitWrite, WriteAdmitted, WriteReturns, RefreshComplete, RefreshRelease
  <2>3. CASE RefreshWoken \/ RefreshTimer
    BY <2>3 DEF RefreshWoken, RefreshTimer
  <2> QED
    BY <1>8, <2>1, <2>2, <2>3 DEF RefreshStep
<1>9. ASSUME NEW p \in {"start", "pack"}, CallerCancels(p) PROVE CountInv'
  BY <1>9 DEF CallerCancels
<1>10. ASSUME NEW p \in Shutters, CloseHandles(p) \/ ShutdownStep(p) \/ JoinExpires(p) PROVE CountInv'
  <2>1. CASE CloseHandles(p)
    BY <2>1 DEF CloseHandles
  <2>2. CASE CancelCaptured(p) \/ CloseCaptured(p)
    BY <2>2 DEF CancelCaptured, CloseCaptured, CloseAll
  <2>3. CASE JoinOnce(p) \/ Join(p) \/ JoinExpires(p)
    BY <2>3 DEF JoinOnce, Join, JoinExpires
  <2> QED
    BY <1>10, <2>1, <2>2, <2>3 DEF ShutdownStep
<1>11. CASE UNCHANGED vars
  BY <1>11 DEF vars
<1> QED
  BY <1>1, <1>2, <1>3, <1>4, <1>5, <1>6, <1>7, <1>8, <1>9, <1>10, <1>11 DEF Next

\* Only one Shutdown caller closes.
LEMMA CloseKept ==
  ASSUME PermitInv, Places, CloseInv, [Next]_vars
  PROVE  CloseInv'
<1> USE DEF Places, CloseInv, PermitInv, PositionsOK, At, locks, calls, ends, count, close
<1> USE ProcFacts, Kinds
<1>1. CASE Start
  BY <1>1 DEF Start, Register
<1>2. CASE MaintainDNS
  BY <1>2 DEF MaintainDNS, Register
<1>3. CASE StartDNSWorker
  BY <1>3 DEF StartDNSWorker, StartWorker, Launchable, Register
<1>4. CASE StartRefreshWorker
  BY <1>4 DEF StartRefreshWorker, StartWorker, Launchable, Register
<1>5. ASSUME NEW p \in Makers, MakerStep(p) PROVE CloseInv'
  <2>1. CASE Dial(p) \/ Attach(p) \/ BootAdmit(p) \/ BootWrite(p)
    BY <2>1 DEF Dial, Attach, CloseAll, BootAdmit, BootWrite, WriteReturns
  <2>2. CASE AcquireForPublish(p) \/ Publish(p) \/ ReleaseAfterPublish(p) \/ Retire(p)
    BY <2>2 DEF AcquireForPublish, Acquire, Ask, Receive, Recheck, Publish, ReleaseAfterPublish, Retire, CloseAll
  <2>3. CASE EndToken(p) \/ Detach(p) \/ Discard(p) \/ Unregister(p)
    BY <2>3 DEF EndToken, Detach, Discard, CloseAll, Unregister, EndCall
  <2> QED
    BY <1>5, <2>1, <2>2, <2>3 DEF MakerStep
<1>6. ASSUME NEW w \in Workers, WorkerExits(w) PROVE CloseInv'
  BY <1>6 DEF WorkerExits, EndCall
<1>7. CASE Consume \/ PackStep
  <2>1. CASE Consume \/ Pack
    BY <2>1 DEF Consume, Register, Pack
  <2>2. CASE PackAcquire \/ PackCheck \/ PackWrite
    BY <2>2 DEF PackAcquire, Acquire, Ask, Receive, Recheck, PackCheck, PackWrite, AdmitWrite,
         WriteAdmitted, WriteReturns
  <2>3. CASE PackReturns \/ FinishPack \/ FinishConsume
    BY <2>3 DEF PackReturns, PackFails, FinishPack, EndCall, FinishConsume
  <2> QED
    BY <1>7, <2>1, <2>2, <2>3 DEF PackStep
<1>8. CASE RefreshStep \/ RefreshTimer
  <2>1. CASE RefreshCheck \/ RefreshAcquire \/ RefreshBegin
    BY <2>1 DEF RefreshCheck, RefreshAcquire, Acquire, Ask, Receive, Recheck, RefreshBegin
  <2>2. CASE RefreshWrite \/ RefreshComplete \/ RefreshRelease
    BY <2>2 DEF RefreshWrite, AdmitWrite, WriteAdmitted, WriteReturns, RefreshComplete, RefreshRelease
  <2>3. CASE RefreshWoken \/ RefreshTimer
    BY <2>3 DEF RefreshWoken, RefreshTimer
  <2> QED
    BY <1>8, <2>1, <2>2, <2>3 DEF RefreshStep
<1>9. ASSUME NEW p \in {"start", "pack"}, CallerCancels(p) PROVE CloseInv'
  BY <1>9 DEF CallerCancels
<1>10. ASSUME NEW p \in Shutters, CloseHandles(p) \/ ShutdownStep(p) \/ JoinExpires(p) PROVE CloseInv'
  <2>1. CASE CloseHandles(p)
    BY <2>1 DEF CloseHandles
  <2>2. CASE CancelCaptured(p) \/ CloseCaptured(p)
    BY <2>2 DEF CancelCaptured, CloseCaptured, CloseAll
  <2>3. CASE JoinOnce(p) \/ Join(p) \/ JoinExpires(p)
    BY <2>3 DEF JoinOnce, Join, JoinExpires
  <2> QED
    BY <1>10, <2>1, <2>2, <2>3 DEF ShutdownStep
<1>11. CASE UNCHANGED vars
  BY <1>11 DEF vars
<1> QED
  BY <1>1, <1>2, <1>3, <1>4, <1>5, <1>6, <1>7, <1>8, <1>9, <1>10, <1>11 DEF Next

\* A drained runtime stays drained.
LEMMA DrainKept ==
  ASSUME PermitInv, Places, AttemptType, OwnerInv, RegisteredInv, CloseInv, CountInv, DrainInv, [Next]_vars
  PROVE  DrainInv'
<1> USE DEF Places, AttemptType, OwnerInv, RegisteredInv, CloseInv, CountInv, DrainInv, One,
   MakerPos, PackingPos, PermitInv, PositionsOK, At, locks, calls, ends, count, close
<1> USE ProcFacts, Kinds
<1>1. CASE Start
  BY <1>1 DEF Start, Register
<1>2. CASE MaintainDNS
  BY <1>2 DEF MaintainDNS, Register
<1>3. CASE StartDNSWorker
  BY <1>3 DEF StartDNSWorker, StartWorker, Launchable, Register
<1>4. CASE StartRefreshWorker
  BY <1>4 DEF StartRefreshWorker, StartWorker, Launchable, Register
<1>5. ASSUME NEW p \in Makers, MakerStep(p) PROVE DrainInv'
  <2>1. CASE Dial(p) \/ Attach(p) \/ BootAdmit(p) \/ BootWrite(p)
    BY <2>1 DEF Dial, Attach, CloseAll, BootAdmit, BootWrite, WriteReturns
  <2>2. CASE AcquireForPublish(p) \/ Publish(p) \/ ReleaseAfterPublish(p) \/ Retire(p)
    BY <2>2 DEF AcquireForPublish, Acquire, Ask, Receive, Recheck, Publish, ReleaseAfterPublish, Retire, CloseAll
  <2>3. CASE EndToken(p) \/ Detach(p) \/ Discard(p) \/ Unregister(p)
    BY <2>3 DEF EndToken, Detach, Discard, CloseAll, Unregister, EndCall
  <2> QED
    BY <1>5, <2>1, <2>2, <2>3 DEF MakerStep
<1>6. ASSUME NEW w \in Workers, WorkerExits(w) PROVE DrainInv'
  BY <1>6 DEF WorkerExits, EndCall
<1>7. CASE Consume \/ PackStep
  <2>1. CASE Consume \/ Pack
    BY <2>1 DEF Consume, Register, Pack
  <2>2. CASE PackAcquire \/ PackCheck \/ PackWrite
    BY <2>2 DEF PackAcquire, Acquire, Ask, Receive, Recheck, PackCheck, PackWrite, AdmitWrite,
         WriteAdmitted, WriteReturns
  <2>3. CASE PackReturns \/ FinishPack \/ FinishConsume
    BY <2>3 DEF PackReturns, PackFails, FinishPack, EndCall, FinishConsume
  <2> QED
    BY <1>7, <2>1, <2>2, <2>3 DEF PackStep
<1>8. CASE RefreshStep \/ RefreshTimer
  <2>1. CASE RefreshCheck \/ RefreshAcquire \/ RefreshBegin
    BY <2>1 DEF RefreshCheck, RefreshAcquire, Acquire, Ask, Receive, Recheck, RefreshBegin
  <2>2. CASE RefreshWrite \/ RefreshComplete \/ RefreshRelease
    BY <2>2 DEF RefreshWrite, AdmitWrite, WriteAdmitted, WriteReturns, RefreshComplete, RefreshRelease
  <2>3. CASE RefreshWoken \/ RefreshTimer
    BY <2>3 DEF RefreshWoken, RefreshTimer
  <2> QED
    BY <1>8, <2>1, <2>2, <2>3 DEF RefreshStep
<1>9. ASSUME NEW p \in {"start", "pack"}, CallerCancels(p) PROVE DrainInv'
  BY <1>9 DEF CallerCancels
<1>10. ASSUME NEW p \in Shutters, CloseHandles(p) \/ ShutdownStep(p) \/ JoinExpires(p) PROVE DrainInv'
  <2>1. CASE CloseHandles(p)
    BY <2>1 DEF CloseHandles
  <2>2. CASE CancelCaptured(p) \/ CloseCaptured(p)
    BY <2>2 DEF CancelCaptured, CloseCaptured, CloseAll
  <2>3. CASE JoinOnce(p) \/ Join(p) \/ JoinExpires(p)
    BY <2>3 DEF JoinOnce, Join, JoinExpires
  <2> QED
    BY <1>10, <2>1, <2>2, <2>3 DEF ShutdownStep
<1>11. CASE UNCHANGED vars
  BY <1>11 DEF vars
<1> QED
  BY <1>1, <1>2, <1>3, <1>4, <1>5, <1>6, <1>7, <1>8, <1>9, <1>10, <1>11 DEF Next

\* The endpoints are open and distinct until they are given up.
LEMMA EndpointKept ==
  ASSUME PermitInv, Places, AttemptType, HandleTypes, OwnerInv, CloseInv, EndpointInv, [Next]_vars
  PROVE  EndpointInv'
<1> USE DEF Places, AttemptType, HandleTypes, NoAttempt, OwnerInv, CloseInv, EndpointInv,
   WorkersOff, MakerPos, HeldPos, PermitInv, PositionsOK, At, locks, calls, ends, count, close
<1> USE ProcFacts, Kinds, NoneIsNoSocket
<1>1. CASE Start
  BY <1>1 DEF Start, Register
<1>2. CASE MaintainDNS
  BY <1>2 DEF MaintainDNS, Register
<1>3. CASE StartDNSWorker
  BY <1>3 DEF StartDNSWorker, StartWorker, Launchable, Register
<1>4. CASE StartRefreshWorker
  BY <1>4 DEF StartRefreshWorker, StartWorker, Launchable, Register
<1>5. ASSUME NEW p \in Makers, MakerStep(p) PROVE EndpointInv'
  <2>1. CASE Dial(p)
    BY <2>1 DEF Dial
  <2>2. CASE Attach(p)
    BY <2>2 DEF Attach, CloseAll
  <2>3. CASE BootAdmit(p)
    BY <2>3 DEF BootAdmit
  <2>4. CASE BootWrite(p)
    BY <2>4 DEF BootWrite, WriteReturns
  <2>5. CASE AcquireForPublish(p)
    BY <2>5 DEF AcquireForPublish, Acquire, Ask, Receive, Recheck
  <2>6. CASE Publish(p)
    BY <2>6 DEF Publish
  <2>7. CASE ReleaseAfterPublish(p)
    BY <2>7 DEF ReleaseAfterPublish
  <2>8. CASE Retire(p)
    BY <2>8 DEF Retire, CloseAll
  <2>9. CASE EndToken(p)
    BY <2>9 DEF EndToken
  <2>10. CASE Detach(p)
    BY <2>10 DEF Detach
  <2>11. CASE Discard(p)
    BY <2>11 DEF Discard, CloseAll
  <2>12. CASE Unregister(p)
    BY <2>12 DEF Unregister, EndCall
  <2> QED
    BY <1>5, <2>1, <2>2, <2>3, <2>4, <2>5, <2>6, <2>7, <2>8, <2>9, <2>10, <2>11, <2>12 DEF MakerStep
<1>6. ASSUME NEW w \in Workers, WorkerExits(w) PROVE EndpointInv'
  BY <1>6 DEF WorkerExits, EndCall
<1>7. CASE Consume \/ PackStep
  <2>1. CASE Consume \/ Pack
    BY <2>1 DEF Consume, Register, Pack
  <2>2. CASE PackAcquire \/ PackCheck \/ PackWrite
    BY <2>2 DEF PackAcquire, Acquire, Ask, Receive, Recheck, PackCheck, PackWrite, AdmitWrite,
         WriteAdmitted, WriteReturns
  <2>3. CASE PackReturns \/ FinishPack \/ FinishConsume
    BY <2>3 DEF PackReturns, PackFails, FinishPack, EndCall, FinishConsume
  <2> QED
    BY <1>7, <2>1, <2>2, <2>3 DEF PackStep
<1>8. CASE RefreshStep \/ RefreshTimer
  <2>1. CASE RefreshCheck \/ RefreshAcquire \/ RefreshBegin
    BY <2>1 DEF RefreshCheck, RefreshAcquire, Acquire, Ask, Receive, Recheck, RefreshBegin
  <2>2. CASE RefreshWrite \/ RefreshComplete \/ RefreshRelease
    BY <2>2 DEF RefreshWrite, AdmitWrite, WriteAdmitted, WriteReturns, RefreshComplete, RefreshRelease
  <2>3. CASE RefreshWoken \/ RefreshTimer
    BY <2>3 DEF RefreshWoken, RefreshTimer
  <2> QED
    BY <1>8, <2>1, <2>2, <2>3 DEF RefreshStep
<1>9. ASSUME NEW p \in {"start", "pack"}, CallerCancels(p) PROVE EndpointInv'
  BY <1>9 DEF CallerCancels
<1>10. ASSUME NEW p \in Shutters, CloseHandles(p) \/ ShutdownStep(p) \/ JoinExpires(p) PROVE EndpointInv'
  <2>1. CASE CloseHandles(p)
    BY <2>1 DEF CloseHandles
  <2>2. CASE CancelCaptured(p) \/ CloseCaptured(p)
    BY <2>2 DEF CancelCaptured, CloseCaptured, CloseAll
  <2>3. CASE JoinOnce(p) \/ Join(p) \/ JoinExpires(p)
    BY <2>3 DEF JoinOnce, Join, JoinExpires
  <2> QED
    BY <1>10, <2>1, <2>2, <2>3 DEF ShutdownStep
<1>11. CASE UNCHANGED vars
  BY <1>11 DEF vars
<1> QED
  BY <1>1, <1>2, <1>3, <1>4, <1>5, <1>6, <1>7, <1>8, <1>9, <1>10, <1>11 DEF Next

\* Two goroutines never hold the permit together.
LEMMA Exclusive ==
  ASSUME PermitInv, NEW p \in Procs, NEW q \in Procs, pc[p] \in Holding, pc[q] \in Holding
  PROVE  p = q
BY DEF PermitInv, OneHolder

\* While the template worker or a request uses the endpoint nobody publishes.
LEMMA NoPublisher ==
  ASSUME PermitInv, NEW p \in Makers, pc[p] = "publish"
  PROVE  /\ pc["pack"] \notin {"packing", "packWriting"}
         /\ pc["refresh"] \notin {"refreshing", "refreshWriting"}
BY Exclusive, ProcFacts, Kinds DEF Holding

\* The endpoint of a request or a refresh stays published.
LEMMA StableKept ==
  ASSUME PermitInv, Places, HandleTypes, CloseInv, StableInv, [Next]_vars
  PROVE  StableInv'
<1> USE DEF Places, HandleTypes, CloseInv, StableInv, WorkersOff, MakerPos, PackingPos, PermitInv,
   PositionsOK, At, locks, calls, ends, count, close
<1> USE ProcFacts, Kinds, NoPublisher
<1>1. CASE Start
  BY <1>1 DEF Start, Register
<1>2. CASE MaintainDNS
  BY <1>2 DEF MaintainDNS, Register
<1>3. CASE StartDNSWorker
  BY <1>3 DEF StartDNSWorker, StartWorker, Launchable, Register
<1>4. CASE StartRefreshWorker
  BY <1>4 DEF StartRefreshWorker, StartWorker, Launchable, Register
<1>5. ASSUME NEW p \in Makers, MakerStep(p) PROVE StableInv'
  <2>1. CASE Dial(p)
    BY <2>1 DEF Dial
  <2>2. CASE Attach(p)
    BY <2>2 DEF Attach, CloseAll
  <2>3. CASE BootAdmit(p)
    BY <2>3 DEF BootAdmit
  <2>4. CASE BootWrite(p)
    BY <2>4 DEF BootWrite, WriteReturns
  <2>5. CASE AcquireForPublish(p)
    BY <2>5 DEF AcquireForPublish, Acquire, Ask, Receive, Recheck
  <2>6. CASE Publish(p)
    BY <2>6 DEF Publish
  <2>7. CASE ReleaseAfterPublish(p)
    BY <2>7 DEF ReleaseAfterPublish
  <2>8. CASE Retire(p)
    BY <2>8 DEF Retire, CloseAll
  <2>9. CASE EndToken(p)
    BY <2>9 DEF EndToken
  <2>10. CASE Detach(p)
    BY <2>10 DEF Detach
  <2>11. CASE Discard(p)
    BY <2>11 DEF Discard, CloseAll
  <2>12. CASE Unregister(p)
    BY <2>12 DEF Unregister, EndCall
  <2> QED
    BY <1>5, <2>1, <2>2, <2>3, <2>4, <2>5, <2>6, <2>7, <2>8, <2>9, <2>10, <2>11, <2>12 DEF MakerStep
<1>6. ASSUME NEW w \in Workers, WorkerExits(w) PROVE StableInv'
  BY <1>6 DEF WorkerExits, EndCall
<1>7. CASE Consume \/ PackStep
  <2>1. CASE Consume \/ Pack
    BY <2>1 DEF Consume, Register, Pack
  <2>2. CASE PackAcquire \/ PackCheck \/ PackWrite
    BY <2>2 DEF PackAcquire, Acquire, Ask, Receive, Recheck, PackCheck, PackWrite, AdmitWrite,
         WriteAdmitted, WriteReturns
  <2>3. CASE PackReturns \/ FinishPack \/ FinishConsume
    BY <2>3 DEF PackReturns, PackFails, FinishPack, EndCall, FinishConsume
  <2> QED
    BY <1>7, <2>1, <2>2, <2>3 DEF PackStep
<1>8. CASE RefreshStep \/ RefreshTimer
  <2>1. CASE RefreshCheck \/ RefreshAcquire \/ RefreshBegin
    BY <2>1 DEF RefreshCheck, RefreshAcquire, Acquire, Ask, Receive, Recheck, RefreshBegin
  <2>2. CASE RefreshWrite \/ RefreshComplete \/ RefreshRelease
    BY <2>2 DEF RefreshWrite, AdmitWrite, WriteAdmitted, WriteReturns, RefreshComplete, RefreshRelease
  <2>3. CASE RefreshWoken \/ RefreshTimer
    BY <2>3 DEF RefreshWoken, RefreshTimer
  <2> QED
    BY <1>8, <2>1, <2>2, <2>3 DEF RefreshStep
<1>9. ASSUME NEW p \in {"start", "pack"}, CallerCancels(p) PROVE StableInv'
  BY <1>9 DEF CallerCancels
<1>10. ASSUME NEW p \in Shutters, CloseHandles(p) \/ ShutdownStep(p) \/ JoinExpires(p) PROVE StableInv'
  <2>1. CASE CloseHandles(p)
    BY <2>1 DEF CloseHandles
  <2>2. CASE CancelCaptured(p) \/ CloseCaptured(p)
    BY <2>2 DEF CancelCaptured, CloseCaptured, CloseAll
  <2>3. CASE JoinOnce(p) \/ Join(p) \/ JoinExpires(p)
    BY <2>3 DEF JoinOnce, Join, JoinExpires
  <2> QED
    BY <1>10, <2>1, <2>2, <2>3 DEF ShutdownStep
<1>11. CASE UNCHANGED vars
  BY <1>11 DEF vars
<1> QED
  BY <1>1, <1>2, <1>3, <1>4, <1>5, <1>6, <1>7, <1>8, <1>9, <1>10, <1>11 DEF Next

\* A write in flight uses an endpoint Shutdown knows of.
LEMMA FlightKept ==
  ASSUME PermitInv, Places, AttemptType, HandleTypes, OwnerInv, CloseInv, EndpointInv, StableInv, FlightInv, [Next]_vars
  PROVE  FlightInv'
<1> USE DEF Places, AttemptType, HandleTypes, NoAttempt, OwnerInv, CloseInv, EndpointInv, StableInv,
   FlightInv, WritingPos, WorkersOff, MakerPos, PackingPos, HeldPos, PermitInv, PositionsOK, At,
   locks, calls, ends, count, close
<1> USE ProcFacts, Kinds, NoneIsNoSocket, NoPublisher
<1>1. CASE Start
  BY <1>1 DEF Start, Register
<1>2. CASE MaintainDNS
  BY <1>2 DEF MaintainDNS, Register
<1>3. CASE StartDNSWorker
  BY <1>3 DEF StartDNSWorker, StartWorker, Launchable, Register
<1>4. CASE StartRefreshWorker
  BY <1>4 DEF StartRefreshWorker, StartWorker, Launchable, Register
<1>5. ASSUME NEW p \in Makers, MakerStep(p) PROVE FlightInv'
  <2>1. CASE Dial(p)
    BY <2>1 DEF Dial
  <2>2. CASE Attach(p)
    BY <2>2 DEF Attach, CloseAll
  <2>3. CASE BootAdmit(p)
    BY <2>3 DEF BootAdmit
  <2>4. CASE BootWrite(p)
    BY <2>4 DEF BootWrite, WriteReturns
  <2>5. CASE AcquireForPublish(p)
    BY <2>5 DEF AcquireForPublish, Acquire, Ask, Receive, Recheck
  <2>0. ASSUME NEW q \in Procs, pc[q] \in WritingPos, pc[p] \in MakerPos, pc[p] # "booting"
        PROVE  (q = "pack" /\ pc[q] = "packWriting") \/ (q = "refresh" /\ pc[q] = "refreshWriting")
    <3>1. q \in Makers \/ q \in {"pack", "refresh"} \/ q \in Shutters
      BY Zenon, <2>0 DEF Procs, Workers, Makers
    <3>2. q \notin Shutters
      BY <2>0
    <3>3. q \notin Makers
      BY <2>0, <1>5
    <3> QED
      BY <2>0, <3>1, <3>2, <3>3
  <2>6. CASE Publish(p)
    <3>1. \A q \in Procs : pc[q] \notin WritingPos
      BY <2>0, <2>6 DEF Publish
    <3>2. \A q \in Procs : pc'[q] \notin WritingPos
      BY <2>6, <3>1 DEF Publish
    <3> QED
      BY <3>2
  <2>7. CASE ReleaseAfterPublish(p)
    BY <2>7 DEF ReleaseAfterPublish
  <2>8. CASE Retire(p)
    BY <2>8 DEF Retire, CloseAll
  <2>9. CASE EndToken(p)
    BY <2>9 DEF EndToken
  <2>10. CASE Detach(p)
    <3> SUFFICES ASSUME NEW q \in Procs, pc'[q] \in WritingPos
                 PROVE  /\ handle'[q] \in Sockets /\ sock'[handle'[q]] # "unused"
                        /\ closeOnce' = "no" => handle'[q] \in {published', attempt'.candidate}
                        /\ closeOnce' = "running" /\ sock'[handle'[q]] = "open" => handle'[q] \in doomed'[1]
                        /\ closeOnce' = "done" => sock'[handle'[q]] # "open"
      OBVIOUS
    <3>1. q # p /\ pc[q] \in WritingPos
      BY <2>10 DEF Detach
    <3>2. (q = "pack" /\ pc[q] = "packWriting") \/ (q = "refresh" /\ pc[q] = "refreshWriting")
      BY <2>0, <2>10, <3>1 DEF Detach
    <3>3. closeOnce = "no" => handle[q] = published
      BY <3>2
    <3>4. handle'[q] = handle[q]
      BY <2>10, <3>1 DEF Detach
    <3> QED
      BY <2>10, <3>1, <3>3, <3>4 DEF Detach
  <2>11. CASE Discard(p)
    BY <2>11 DEF Discard, CloseAll
  <2>12. CASE Unregister(p)
    BY <2>12 DEF Unregister, EndCall
  <2> QED
    BY <1>5, <2>1, <2>2, <2>3, <2>4, <2>5, <2>6, <2>7, <2>8, <2>9, <2>10, <2>11, <2>12 DEF MakerStep
<1>6. ASSUME NEW w \in Workers, WorkerExits(w) PROVE FlightInv'
  BY <1>6 DEF WorkerExits, EndCall
<1>7. CASE Consume \/ PackStep
  <2>1. CASE Consume \/ Pack
    BY <2>1 DEF Consume, Register, Pack
  <2>2. CASE PackAcquire \/ PackCheck \/ PackWrite
    BY <2>2 DEF PackAcquire, Acquire, Ask, Receive, Recheck, PackCheck, PackWrite, AdmitWrite,
         WriteAdmitted, WriteReturns
  <2>3. CASE PackReturns \/ FinishPack \/ FinishConsume
    BY <2>3 DEF PackReturns, PackFails, FinishPack, EndCall, FinishConsume
  <2> QED
    BY <1>7, <2>1, <2>2, <2>3 DEF PackStep
<1>8. CASE RefreshStep \/ RefreshTimer
  <2>1. CASE RefreshCheck \/ RefreshAcquire \/ RefreshBegin
    BY <2>1 DEF RefreshCheck, RefreshAcquire, Acquire, Ask, Receive, Recheck, RefreshBegin
  <2>2. CASE RefreshWrite \/ RefreshComplete \/ RefreshRelease
    BY <2>2 DEF RefreshWrite, AdmitWrite, WriteAdmitted, WriteReturns, RefreshComplete, RefreshRelease
  <2>3. CASE RefreshWoken \/ RefreshTimer
    BY <2>3 DEF RefreshWoken, RefreshTimer
  <2> QED
    BY <1>8, <2>1, <2>2, <2>3 DEF RefreshStep
<1>9. ASSUME NEW p \in {"start", "pack"}, CallerCancels(p) PROVE FlightInv'
  BY <1>9 DEF CallerCancels
<1>10. ASSUME NEW p \in Shutters, CloseHandles(p) \/ ShutdownStep(p) \/ JoinExpires(p) PROVE FlightInv'
  <2>1. CASE CloseHandles(p)
    BY <2>1 DEF CloseHandles
  <2>2. CASE CancelCaptured(p) \/ CloseCaptured(p)
    BY <2>2 DEF CancelCaptured, CloseCaptured, CloseAll
  <2>3. CASE JoinOnce(p) \/ Join(p) \/ JoinExpires(p)
    BY <2>3 DEF JoinOnce, Join, JoinExpires
  <2> QED
    BY <1>10, <2>1, <2>2, <2>3 DEF ShutdownStep
<1>11. CASE UNCHANGED vars
  BY <1>11 DEF vars
<1> QED
  BY <1>1, <1>2, <1>3, <1>4, <1>5, <1>6, <1>7, <1>8, <1>9, <1>10, <1>11 DEF Next

\* A socket changes hands without being dropped.
LEMMA OwnedKept ==
  ASSUME PermitInv, Places, AttemptType, HandleTypes, OwnerInv, CloseInv, EndpointInv, SocketsOwned, [Next]_vars
  PROVE  SocketsOwned'
<1> USE DEF Places, AttemptType, HandleTypes, NoAttempt, OwnerInv, CloseInv, EndpointInv,
   SocketsOwned, Open, WorkersOff, MakerPos, HeldPos, PermitInv, PositionsOK, At, locks, calls,
   ends, count, close
<1> USE ProcFacts, Kinds, NoneIsNoSocket
<1>1. CASE Start
  BY <1>1 DEF Start, Register
<1>2. CASE MaintainDNS
  BY <1>2 DEF MaintainDNS, Register
<1>3. CASE StartDNSWorker
  BY <1>3 DEF StartDNSWorker, StartWorker, Launchable, Register
<1>4. CASE StartRefreshWorker
  BY <1>4 DEF StartRefreshWorker, StartWorker, Launchable, Register
<1>5. ASSUME NEW p \in Makers, MakerStep(p) PROVE SocketsOwned'
  <2>1. CASE Dial(p)
    BY <2>1 DEF Dial
  <2>2. CASE Attach(p)
    BY <2>2 DEF Attach, CloseAll
  <2>3. CASE BootAdmit(p)
    BY <2>3 DEF BootAdmit
  <2>4. CASE BootWrite(p)
    BY <2>4 DEF BootWrite, WriteReturns
  <2>5. CASE AcquireForPublish(p)
    BY <2>5 DEF AcquireForPublish, Acquire, Ask, Receive, Recheck
  <2>6. CASE Publish(p)
    BY <2>6 DEF Publish
  <2>7. CASE ReleaseAfterPublish(p)
    BY <2>7 DEF ReleaseAfterPublish
  <2>8. CASE Retire(p)
    BY <2>8 DEF Retire, CloseAll
  <2>9. CASE EndToken(p)
    BY <2>9 DEF EndToken
  <2>10. CASE Detach(p)
    BY <2>10 DEF Detach
  <2>11. CASE Discard(p)
    BY <2>11 DEF Discard, CloseAll
  <2>12. CASE Unregister(p)
    BY <2>12 DEF Unregister, EndCall
  <2> QED
    BY <1>5, <2>1, <2>2, <2>3, <2>4, <2>5, <2>6, <2>7, <2>8, <2>9, <2>10, <2>11, <2>12 DEF MakerStep
<1>6. ASSUME NEW w \in Workers, WorkerExits(w) PROVE SocketsOwned'
  BY <1>6 DEF WorkerExits, EndCall
<1>7. CASE Consume \/ PackStep
  <2>1. CASE Consume \/ Pack
    BY <2>1 DEF Consume, Register, Pack
  <2>2. CASE PackAcquire \/ PackCheck \/ PackWrite
    BY <2>2 DEF PackAcquire, Acquire, Ask, Receive, Recheck, PackCheck, PackWrite, AdmitWrite,
         WriteAdmitted, WriteReturns
  <2>3. CASE PackReturns \/ FinishPack \/ FinishConsume
    BY <2>3 DEF PackReturns, PackFails, FinishPack, EndCall, FinishConsume
  <2> QED
    BY <1>7, <2>1, <2>2, <2>3 DEF PackStep
<1>8. CASE RefreshStep \/ RefreshTimer
  <2>1. CASE RefreshCheck \/ RefreshAcquire \/ RefreshBegin
    BY <2>1 DEF RefreshCheck, RefreshAcquire, Acquire, Ask, Receive, Recheck, RefreshBegin
  <2>2. CASE RefreshWrite \/ RefreshComplete \/ RefreshRelease
    BY <2>2 DEF RefreshWrite, AdmitWrite, WriteAdmitted, WriteReturns, RefreshComplete, RefreshRelease
  <2>3. CASE RefreshWoken \/ RefreshTimer
    BY <2>3 DEF RefreshWoken, RefreshTimer
  <2> QED
    BY <1>8, <2>1, <2>2, <2>3 DEF RefreshStep
<1>9. ASSUME NEW p \in {"start", "pack"}, CallerCancels(p) PROVE SocketsOwned'
  BY <1>9 DEF CallerCancels
<1>10. ASSUME NEW p \in Shutters, CloseHandles(p) \/ ShutdownStep(p) \/ JoinExpires(p) PROVE SocketsOwned'
  <2>1. CASE CloseHandles(p)
    BY <2>1 DEF CloseHandles
  <2>2. CASE CancelCaptured(p) \/ CloseCaptured(p)
    BY <2>2 DEF CancelCaptured, CloseCaptured, CloseAll
  <2>3. CASE JoinOnce(p) \/ Join(p) \/ JoinExpires(p)
    BY <2>3 DEF JoinOnce, Join, JoinExpires
  <2> QED
    BY <1>10, <2>1, <2>2, <2>3 DEF ShutdownStep
<1>11. CASE UNCHANGED vars
  BY <1>11 DEF vars
<1> QED
  BY <1>1, <1>2, <1>3, <1>4, <1>5, <1>6, <1>7, <1>8, <1>9, <1>10, <1>11 DEF Next

\* The contexts, the flags and what Shutdown captured keep their types.
LEMMA FlagsKept ==
  ASSUME FlagTypes, [Next]_vars
  PROVE  FlagTypes'
<1> USE DEF FlagTypes, Captured, PermitInv, PositionsOK, At, locks, calls, ends, count, close
<1> USE ProcFacts, Kinds
<1>1. CASE Start
  BY <1>1 DEF Start, Register
<1>2. CASE MaintainDNS
  BY <1>2 DEF MaintainDNS, Register
<1>3. CASE StartDNSWorker
  BY <1>3 DEF StartDNSWorker, StartWorker, Launchable, Register
<1>4. CASE StartRefreshWorker
  BY <1>4 DEF StartRefreshWorker, StartWorker, Launchable, Register
<1>5. ASSUME NEW p \in Makers, MakerStep(p) PROVE FlagTypes'
  <2>1. CASE Dial(p) \/ Attach(p) \/ BootAdmit(p) \/ BootWrite(p)
    BY <2>1 DEF Dial, Attach, CloseAll, BootAdmit, BootWrite, WriteReturns
  <2>2. CASE AcquireForPublish(p) \/ Publish(p) \/ ReleaseAfterPublish(p) \/ Retire(p)
    BY <2>2 DEF AcquireForPublish, Acquire, Ask, Receive, Recheck, Publish, ReleaseAfterPublish, Retire, CloseAll
  <2>3. CASE EndToken(p) \/ Detach(p) \/ Discard(p) \/ Unregister(p)
    BY <2>3 DEF EndToken, Detach, Discard, CloseAll, Unregister, EndCall
  <2> QED
    BY <1>5, <2>1, <2>2, <2>3 DEF MakerStep
<1>6. ASSUME NEW w \in Workers, WorkerExits(w) PROVE FlagTypes'
  BY <1>6 DEF WorkerExits, EndCall
<1>7. CASE Consume \/ PackStep
  <2>1. CASE Consume \/ Pack
    BY <2>1 DEF Consume, Register, Pack
  <2>2. CASE PackAcquire \/ PackCheck \/ PackWrite
    BY <2>2 DEF PackAcquire, Acquire, Ask, Receive, Recheck, PackCheck, PackWrite, AdmitWrite,
         WriteAdmitted, WriteReturns
  <2>3. CASE PackReturns \/ FinishPack \/ FinishConsume
    BY <2>3 DEF PackReturns, PackFails, FinishPack, EndCall, FinishConsume
  <2> QED
    BY <1>7, <2>1, <2>2, <2>3 DEF PackStep
<1>8. CASE RefreshStep \/ RefreshTimer
  <2>1. CASE RefreshCheck \/ RefreshAcquire \/ RefreshBegin
    BY <2>1 DEF RefreshCheck, RefreshAcquire, Acquire, Ask, Receive, Recheck, RefreshBegin
  <2>2. CASE RefreshWrite \/ RefreshComplete \/ RefreshRelease
    BY <2>2 DEF RefreshWrite, AdmitWrite, WriteAdmitted, WriteReturns, RefreshComplete, RefreshRelease
  <2>3. CASE RefreshWoken \/ RefreshTimer
    BY <2>3 DEF RefreshWoken, RefreshTimer
  <2> QED
    BY <1>8, <2>1, <2>2, <2>3 DEF RefreshStep
<1>9. ASSUME NEW p \in {"start", "pack"}, CallerCancels(p) PROVE FlagTypes'
  BY <1>9 DEF CallerCancels
<1>10. ASSUME NEW p \in Shutters, CloseHandles(p) \/ ShutdownStep(p) \/ JoinExpires(p) PROVE FlagTypes'
  <2>1. CASE CloseHandles(p)
    BY <2>1 DEF CloseHandles
  <2>2. CASE CancelCaptured(p) \/ CloseCaptured(p)
    BY <2>2 DEF CancelCaptured, CloseCaptured, CloseAll
  <2>3. CASE JoinOnce(p) \/ Join(p) \/ JoinExpires(p)
    BY <2>3 DEF JoinOnce, Join, JoinExpires
  <2> QED
    BY <1>10, <2>1, <2>2, <2>3 DEF ShutdownStep
<1>11. CASE UNCHANGED vars
  BY <1>11 DEF vars
<1> QED
  BY <1>1, <1>2, <1>3, <1>4, <1>5, <1>6, <1>7, <1>8, <1>9, <1>10, <1>11 DEF Next

-----------------------------------------------------------------------------
(* The inductive invariant and what follows from it.                       *)

\* All of it together is inductive.
RuntimeInv ==
  /\ PermitInv /\ Places /\ FlagTypes /\ AttemptType /\ HandleTypes
  /\ OwnerInv /\ RegisteredNames /\ RegisteredInv /\ TokenInv /\ WriteInv
  /\ CloseInv /\ CountInv /\ DrainInv
  /\ EndpointInv /\ StableInv /\ FlightInv /\ SocketsOwned

\* Nothing is started, open or held at first.
LEMMA RuntimeInvInit == Init => RuntimeInv
<1> SUFFICES ASSUME Init PROVE RuntimeInv
  OBVIOUS
<1> USE ProcFacts, Kinds, NoneIsNoSocket
<1>1. /\ pc["start"] = "idle" /\ pc["pack"] = "idle" /\ pc["dns"] = "off" /\ pc["refresh"] = "off"
      /\ \A p \in Shutters : pc[p] = "idle"
      /\ \A p \in Makers : pc[p] \in {"idle", "off"}
      /\ \A p \in Procs : pc[p] \in {"idle", "off"}
  BY DEF Init, Workers
<1>2. PermitInv
  BY InitKeeps
<1>3. Places /\ FlagTypes /\ AttemptType /\ HandleTypes
  BY <1>1 DEF Init, Places, FlagTypes, AttemptType, HandleTypes, NoAttempt, MakerPos, PackingPos
<1>4. OwnerInv /\ RegisteredNames /\ RegisteredInv /\ TokenInv
  BY <1>1 DEF Init, OwnerInv, RegisteredNames, RegisteredInv, TokenInv, NoAttempt, MakerPos,
     PackingPos, TokenPos
<1>5. WriteInv /\ CloseInv /\ CountInv /\ DrainInv
  BY <1>1 DEF Init, WriteInv, CloseInv, CountInv, DrainInv, One, NoAttempt
<1>6. EndpointInv /\ StableInv /\ FlightInv /\ SocketsOwned
  BY <1>1 DEF Init, EndpointInv, StableInv, FlightInv, SocketsOwned, Open, NoAttempt, MakerPos,
     WritingPos
<1> QED
  BY <1>2, <1>3, <1>4, <1>5, <1>6 DEF RuntimeInv

\* Every step keeps the invariant, one lemma above per part.
LEMMA RuntimeInvKept == RuntimeInv /\ [Next]_vars => RuntimeInv'
<1> SUFFICES ASSUME RuntimeInv, [Next]_vars PROVE RuntimeInv'
  OBVIOUS
<1> USE DEF RuntimeInv
<1>1. PermitInv'
  BY NextKeeps
<1>2. Places' /\ FlagTypes' /\ AttemptType' /\ HandleTypes'
  BY PlacesKept, FlagsKept, AttemptTyped
<1>3. OwnerInv' /\ RegisteredNames' /\ RegisteredInv' /\ TokenInv'
  BY OwnerKept, NamesKept, RegisteredKept, TokenKept
<1>4. WriteInv' /\ CloseInv' /\ CountInv' /\ DrainInv'
  BY WriteKept, CloseKept, CountKept, DrainKept
<1>5. EndpointInv' /\ StableInv' /\ FlightInv' /\ SocketsOwned'
  BY EndpointKept, StableKept, FlightKept, OwnedKept
<1> QED
  BY <1>1, <1>2, <1>3, <1>4, <1>5

\* The parts together are an invariant of the Runtime.
LEMMA RuntimeInvariant == Spec => []RuntimeInv
BY RuntimeInvInit, RuntimeInvKept, PTL DEF Spec

\* Every field of Runtime keeps its type; in particular activeCalls and
\* activeWrites never go below zero, whatever ends in which order.
THEOREM RuntimeTypes == Spec => []TypeOK
<1>1. RuntimeInv => TypeOK
  <2> SUFFICES ASSUME RuntimeInv PROVE TypeOK
    OBVIOUS
  <2>1. cancelled \subseteq Procs /\ closing \in BOOLEAN /\ refreshWake \in BOOLEAN /\ permit \in BOOLEAN
    BY DEF RuntimeInv, FlagTypes, PermitInv, PositionsOK
  <2>2. activeWrites \in Nat /\ activeCalls \in Nat /\ drained \in Nat
    BY DEF RuntimeInv, WriteInv, CountInv, One
  <2>3. registered \subseteq {"pack", "request", "dns", "refresh"}
    BY DEF RuntimeInv, RegisteredNames
  <2> QED
    BY <2>1, <2>2, <2>3 DEF TypeOK, RuntimeInv, AttemptType, HandleTypes, TokenInv
<1> QED
  BY <1>1, RuntimeInvariant, PTL

\* The drained channel is closed once, by the last registered operation of a
\* closing runtime: endCallLocked never closes it twice, and no operation
\* registers after it was closed.
THEOREM DrainIsClosedOnce == Spec => []DrainedOnce
<1>1. RuntimeInv => DrainedOnce
  BY DEF RuntimeInv, CountInv, One, DrainedOnce
<1> QED
  BY <1>1, RuntimeInvariant, PTL

\* A Shutdown that reports a drain leaves no open socket, no write in flight,
\* no token and no running goroutine behind.
THEOREM DrainIsClean == Spec => []CleanAfterDrain
<1>1. RuntimeInv => CleanAfterDrain
  <2> SUFFICES ASSUME RuntimeInv, shutdownResult = "drained" PROVE CleanAfterDrain
    BY DEF CleanAfterDrain
  <2> USE ProcFacts, Kinds, NoneIsNoSocket DEF RuntimeInv
  <2>1. closing /\ closeOnce = "done" /\ activeCalls = 0
    BY DEF DrainInv, CountInv, CloseInv, One
  <2>2. /\ attempt.owner = "none" /\ "dns" \notin registered /\ "refresh" \notin registered
        /\ "request" \notin registered /\ "pack" \notin registered
    BY <2>1 DEF CountInv, One
  <2>3. registered = {}
    BY <2>2 DEF RegisteredNames
  <2>4. /\ pc["start"] \in {"idle", "startDNS", "startRefresh"} /\ pc["dns"] = "off"
        /\ pc["refresh"] = "off" /\ pc["pack"] = "idle"
    BY <2>2 DEF Places, OwnerInv, RegisteredInv
  <2>5. \A p \in Procs \ Shutters : pc[p] \in {"idle", "off", "startDNS", "startRefresh"}
    BY <2>4 DEF Procs
  <2>6. activeWrites = 0 /\ gate = "free"
    BY <2>4 DEF WriteInv, One, TokenInv, TokenPos, MakerPos
  <2>7. \A p \in Procs : pc[p] \notin Holding
    BY <2>5 DEF Places, Holding
  <2>8. permit
    BY <2>7 DEF PermitInv, PositionsOK, OneHolder
  <2>9. published = None /\ attempt.candidate = None /\ retired = None
    BY <2>1, <2>2 DEF EndpointInv
  <2>10. Open = {}
    <3>1. \A p \in Makers : pc[p] \notin {"dialled", "discard"}
      BY <2>4
    <3> QED
      BY <2>1, <2>9, <3>1 DEF SocketsOwned, Open
  <2> QED
    BY <2>3, <2>5, <2>6, <2>8, <2>10 DEF CleanAfterDrain
<1> QED
  BY <1>1, RuntimeInvariant, PTL

\* However Shutdown ended, with a drain or by its deadline, nothing is
\* published or attached, and the socket of a write still in flight is closed.
THEOREM NothingIsSentLate == Spec => []NothingSentAfterShutdown
<1>1. RuntimeInv => NothingSentAfterShutdown
  <2> SUFFICES ASSUME RuntimeInv, shutdownResult # "none" PROVE NothingSentAfterShutdown
    BY DEF NothingSentAfterShutdown
  <2>1. closing /\ closeOnce = "done"
    BY DEF RuntimeInv, CloseInv
  <2> QED
    BY <2>1 DEF RuntimeInv, EndpointInv, FlightInv, WritingPos, NothingSentAfterShutdown
<1> QED
  BY <1>1, RuntimeInvariant, PTL

\* No socket leaks, whichever dial, attachment, publication, retirement or
\* Shutdown it meets.
THEOREM SocketsAreOwned == Spec => []SocketsOwned
<1>1. RuntimeInv => SocketsOwned
  BY DEF RuntimeInv
<1> QED
  BY <1>1, RuntimeInvariant, PTL

\* The endpoint a request or a refresh works on is neither replaced nor closed
\* under it, except by Shutdown.
THEOREM EndpointIsStable == Spec => []EndpointStable
<1>1. RuntimeInv => EndpointStable
  BY DEF RuntimeInv, StableInv, EndpointInv, EndpointStable
<1> QED
  BY <1>1, RuntimeInvariant, PTL
=============================================================================
