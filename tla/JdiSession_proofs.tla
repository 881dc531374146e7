--------------------------- MODULE JdiSession_proofs ---------------------------
(***************************************************************************)
(* Proofs about a whole JDI session, for every number of threads, stops,   *)
(* commands and requests: the session uses its inbox only through the      *)
(* critical sections of StopInbox, so that what is proved of the inbox     *)
(* holds of the session; the discard after a resume-all is atomic; no      *)
(* stop is lost, since its event reaches the inbox whatever times out;     *)
(* and in a plain session stops are told in order, the session implements  *)
(* the ledger of stops, and the stop told is the one the sidecar selected. *)
(***************************************************************************)
EXTENDS JdiProperties, StopInbox_proofs, SidecarStops_proofs

-----------------------------------------------------------------------------
(* The session implements the inbox.                                       *)

LEMMA SessionInitIsInboxInit == JdiInit => InboxInit
  BY DEF JdiInit, InboxInit

\* A sidecar event is applied by an inbox action, whoever applies it.
LEMMA AppliedIsInboxStep ==
    ASSUME NEW e, ApplySidecarEvent(e)
    PROVE  InboxNext
  <1>1. e \in SidecarEvents
    BY DEF ApplySidecarEvent, SidecarEvents
  <1> QED BY <1>1 DEF InboxNext

LEMMA ReaderInboxStep == ReaderNext => [InboxNext]_inboxVars
  <1> SUFFICES ASSUME ReaderNext PROVE [InboxNext]_inboxVars
    OBVIOUS
  <1>1. CASE ReaderQueuesEvent
    BY <1>1 DEF ReaderQueuesEvent, Untouched
  <1>2. CASE ReaderSinksEvent
    BY <1>2, AppliedIsInboxStep DEF ReaderSinksEvent, Untouched
  <1>3. CASE ReaderDeliversResponse
    BY <1>3 DEF ReaderDeliversResponse, Untouched
  <1>4. CASE ReaderEnds
    BY <1>4 DEF ReaderEnds, Untouched
  <1> QED BY <1>1, <1>2, <1>3, <1>4 DEF ReaderNext

LEMMA AppliesOneInboxStep ==
    ASSUME NEW w, AppliesOne(w) PROVE InboxNext
  BY AppliedIsInboxStep DEF AppliesOne

LEMMA AppliedAllInboxStep ==
    ASSUME NEW w, AppliedAll(w) PROVE [InboxNext]_inboxVars
  BY DEF AppliedAll, InboxNext, Untouched

LEMMA PollerInboxStep == PollerNext => [InboxNext]_inboxVars
  BY AppliesOneInboxStep, AppliedAllInboxStep
  DEF PollerNext, PollerDrains, PollerApplies, PollerDone, Untouched

\* The steps of the command thread that work on `inner`.
LEMMA CmdInboxStep == CmdNext => [InboxNext]_inboxVars
  <1> SUFFICES ASSUME CmdNext PROVE [InboxNext]_inboxVars
    OBVIOUS
  <1>1. CASE CmdApplies
    BY <1>1, AppliesOneInboxStep DEF CmdApplies
  <1>2. CASE CmdApplied
    BY <1>2, AppliedAllInboxStep DEF CmdApplied
  <1>3. CASE CmdTakesPending
    BY <1>3 DEF CmdTakesPending, InboxNext
  <1>4. CASE CmdArms
    BY <1>4 DEF CmdArms, InboxNext
  <1>5. CASE CmdReportsTimeout
    BY <1>5 DEF CmdReportsTimeout, InboxNext
  <1>6. CASE CmdTellsStop
    <2>1. FinalizeDeliveredStop(cmd.stop) /\ cmd.stop \in StopEvents
      BY <1>6 DEF CmdTellsStop, FinalizeDeliveredStop
    <2> QED BY <2>1 DEF InboxNext
  <1>7. CASE CmdSuspended
    BY <1>7 DEF CmdSuspended, InboxNext
  <1>8. CASE CmdDrainsPending
    BY <1>8 DEF CmdDrainsPending, InboxNext
  <1>9. CASE CmdRemembers
    <2>1. RememberDiscarded(Head(cmd.ids)) /\ Head(cmd.ids) \in StopIds
      BY <1>9 DEF CmdRemembers, RememberDiscarded
    <2> QED BY <2>1 DEF InboxNext
  <1>10. CASE CmdResumed
    BY <1>10 DEF CmdResumed, InboxNext
  <1>11. CASE CmdKilled
    BY <1>11 DEF CmdKilled, InboxNext
  <1>12. CASE \/ CmdRequests \/ CmdNoPending \/ CmdSessionDead \/ CmdGetsReply
              \/ CmdGraceWait \/ CmdAcked \/ CmdShutsDown
    BY <1>12 DEF CmdRequests, CmdNoPending, CmdSessionDead, CmdGetsReply, CmdGraceWait,
                 CmdAcked, CmdShutsDown, Untouched
  <1> QED BY <1>1, <1>2, <1>3, <1>4, <1>5, <1>6, <1>7, <1>8, <1>9, <1>10, <1>11, <1>12
          DEF CmdNext

LEMMA SessionStepIsInboxStep == [JdiNext]_jdiVars => [InboxNext]_inboxVars
  <1> SUFFICES ASSUME [JdiNext]_jdiVars PROVE [InboxNext]_inboxVars
    OBVIOUS
  <1>1. CASE ReaderNext \/ PollerNext \/ CmdNext
    BY <1>1, ReaderInboxStep, PollerInboxStep, CmdInboxStep
  <1>2. CASE SidecarActs \/ RegisterSink \/ CmdRequestTimesOut \/ SidecarCrashes
    BY <1>2 DEF SidecarActs, RegisterSink, CmdRequestTimesOut, SidecarCrashes, Untouched
  <1>3. CASE ClientNext
    BY <1>3 DEF ClientNext, CmdIssue, CmdKill, Untouched
  <1>4. CASE UNCHANGED jdiVars
    BY <1>4 DEF jdiVars
  <1> QED BY <1>1, <1>2, <1>3, <1>4 DEF JdiNext

\* The daemon's threads change JdiSessionInner only by the critical sections
\* StopInbox describes, one at a time: the session implements the inbox.
THEOREM SessionImplementsInbox == JdiSafety => InboxSpec
  BY SessionInitIsInboxInit, SessionStepIsInboxStep, PTL DEF JdiSafety, InboxSpec

\* So in a session a stop waits at most once for the user ...
THEOREM SessionNoDuplicatePending == JdiSafety => []NoDuplicatePending
  BY SessionImplementsInbox, NoDuplicatePendingHolds, PTL

\* ... and a stop that is remembered as told or discarded is not waiting.
THEOREM SessionPendingNotDelivered == JdiSafety => []PendingNotDelivered
  BY SessionImplementsInbox, PendingNotDeliveredHolds, PTL
-----------------------------------------------------------------------------
(* Type correctness of a whole session.                                    *)

\* The method a request of the command thread names depends on the command
\* it serves, so the types need to know which commands get as far as that.
ArmedCommand == cmd.pc = "arm" => cmd.name \in {"run", "continue", "step"}

SessionInv == SidecarInv /\ SessionTypeOK /\ ArmedCommand

\* The daemon touches only the sidecar's two streams and its life.
LEMMA WireTypes ==
    ASSUME SidecarInv,
           UNCHANGED <<targetVars, queueVars, loop, rpc>>,
           toSidecar' \in Seq(Requests),
           toDaemon' \in Seq(Messages),
           alive' \in BOOLEAN
    PROVE  SidecarInv'
  BY DEF SidecarInv, SidecarTypeOK, Known, targetVars, queueVars

LEMMA WireUntouched ==
    ASSUME SidecarInv, UNCHANGED sidecarVars
    PROVE  SidecarInv'
  BY DEF SidecarInv, SidecarTypeOK, Known, sidecarVars, targetVars, queueVars

LEMMA MessageTypes ==
    ASSUME SidecarTypeOK, toDaemon # <<>>
    PROVE  /\ Tail(toDaemon) \in Seq(Messages)
           /\ Head(toDaemon).type = "event" => Head(toDaemon).event \in SidecarEvents
           /\ Head(toDaemon).type = "response" => Head(toDaemon).result \in Results
  <1>1. Tail(toDaemon) \in Seq(Messages) /\ Head(toDaemon) \in Messages
    BY TailSeq DEF SidecarTypeOK
  <1> QED BY <1>1 DEF Messages

\* The parts of a command.
LEMMA CmdParts ==
    ASSUME SessionTypeOK
    PROVE  /\ cmd.pc \in CmdPcs
           /\ cmd.name \in Commands \cup {"continue", "kill"}
           /\ cmd.id \in Nat
           /\ cmd.reply \in Results \cup {NoReply}
           /\ cmd.stop \in StopIds \cup {VmExit, NoEvent}
           /\ cmd.ids \in Seq(StopIds)
  BY DEF SessionTypeOK, CmdStates, StopEvents

LEMMA CmdIdleType == CmdIdle \in CmdStates
  <1>1. <<>> \in Seq(StopIds)
    BY EmptySeq
  <1> QED BY <1>1 DEF CmdIdle, CmdStates, CmdPcs, StopEvents

LEMMA GotoType ==
    ASSUME SessionTypeOK, NEW pc \in CmdPcs, Goto(pc)
    PROVE  cmd' \in CmdStates /\ cmd'.pc = pc /\ cmd'.name = cmd.name
  BY DEF SessionTypeOK, CmdStates, Goto

\* A request leaves.
LEMMA SendsTypes ==
    ASSUME SidecarInv, SessionTypeOK,
           NEW method \in Methods, NEW s \in StopIds \cup {NoEvent}, NEW pc \in CmdPcs \ {"arm"},
           Sends(method, s, pc)
    PROVE  SidecarInv' /\ cmd' \in CmdStates /\ requestId' \in Nat /\ cmd'.pc # "arm"
  <1> DEFINE req == [id |-> requestId + 1, method |-> method, stop |-> s]
  <1>1. requestId + 1 \in Nat /\ requestId' = requestId + 1
    BY DEF SessionTypeOK, Sends
  <1>2. req \in Requests
    BY <1>1 DEF Requests
  <1> HIDE DEF req
  <1>3. toSidecar' = Append(toSidecar, req) \/ toSidecar' = toSidecar
    BY Zenon DEF Sends, req
  <1>4. toSidecar' \in Seq(Requests)
    <2>1. toSidecar \in Seq(Requests)
      BY DEF SidecarInv, SidecarTypeOK
    <2> QED BY <1>2, <1>3, <2>1, AppendProperties
  <1>5. SidecarInv'
    <2>1. UNCHANGED <<targetVars, queueVars, loop, rpc, toDaemon, alive>>
      BY DEF Sends
    <2> QED BY <1>4, <2>1, WireTypes DEF SidecarInv, SidecarTypeOK
  <1>6. \/ cmd' = [cmd EXCEPT !.pc = pc, !.id = requestId + 1, !.reply = NoReply, !.stop = s]
        \/ cmd' = [cmd EXCEPT !.pc = pc, !.id = 0, !.reply = RpcError, !.stop = s]
    BY Zenon DEF Sends
  <1>7. cmd' \in CmdStates /\ cmd'.pc = pc
    <2>1. \A n \in Nat, r \in Results \cup {NoReply} :
             LET c == [cmd EXCEPT !.pc = pc, !.id = n, !.reply = r, !.stop = s]
             IN c \in CmdStates /\ c.pc = pc
      BY DEF SessionTypeOK, CmdStates, StopEvents
    <2>2. 0 \in Nat /\ RpcError \in Results
      BY PlainResults
    <2> QED BY <1>1, <1>6, <2>1, <2>2
  <1> QED BY <1>1, <1>5, <1>7

\* Draining the queue, in either worker.
LEMMA DrainsTypes ==
    ASSUME SidecarTypeOK, SessionTypeOK, NEW w \in Workers, Drains(w)
    PROVE  /\ events' \in Seq(SidecarEvents)
           /\ batch' \in [Workers -> Seq(SidecarEvents)]
           /\ sawAlive' \in [Workers -> BOOLEAN]
  <1>1. <<>> \in Seq(SidecarEvents)
    BY EmptySeq
  <1>2. sawAlive' \in [Workers -> BOOLEAN]
    BY Zenon DEF Drains, SessionTypeOK, SidecarTypeOK
  <1> QED BY <1>1, <1>2 DEF Drains, SessionTypeOK

LEMMA AppliesTypes ==
    ASSUME SessionTypeOK, NEW w \in Workers
    PROVE  /\ AppliesOne(w) => /\ batch' \in [Workers -> Seq(SidecarEvents)]
                               /\ mutex' \in Workers \cup {Free}
           /\ AppliedAll(w) => mutex' \in Workers \cup {Free}
  <1>1. ASSUME AppliesOne(w) PROVE batch' \in [Workers -> Seq(SidecarEvents)]
    <2>1. Tail(batch[w]) \in Seq(SidecarEvents)
      BY <1>1, TailSeq DEF AppliesOne, SessionTypeOK
    <2> QED BY <1>1, <2>1 DEF AppliesOne, SessionTypeOK
  <1> QED BY <1>1 DEF AppliesOne, AppliedAll

\* A reply reaches the command.
LEMMA ReplyTypes ==
    ASSUME SessionTypeOK, NEW r \in Results,
           cmd' = cmd \/ cmd' = [cmd EXCEPT !.reply = r, !.id = 0]
    PROVE  cmd' \in CmdStates /\ cmd'.pc = cmd.pc /\ cmd'.name = cmd.name
  <1>1. cmd \in CmdStates /\ 0 \in Nat
    BY DEF SessionTypeOK
  <1>2. CASE cmd' = cmd
    BY <1>1, <1>2
  <1>3. CASE cmd' = [cmd EXCEPT !.reply = r, !.id = 0]
    BY <1>1, <1>3 DEF CmdStates
  <1> QED BY <1>2, <1>3

\* The reader thread and the registration of the sink.
LEMMA ReaderTypeStep ==
    ASSUME SessionInv, ReaderNext \/ RegisterSink
    PROVE  SessionInv'
  <1>0. SidecarInv /\ SidecarTypeOK /\ SessionTypeOK /\ ArmedCommand
    BY DEF SessionInv, SidecarInv
  <1>1. CASE ReaderQueuesEvent
    <2>1. toDaemon' \in Seq(Messages) /\ Head(toDaemon).event \in SidecarEvents
      BY <1>0, <1>1, MessageTypes DEF ReaderQueuesEvent
    <2>2. events' \in Seq(SidecarEvents)
      <3>1. events \in Seq(SidecarEvents) /\ events' = Append(events, Head(toDaemon).event)
        BY <1>0, <1>1 DEF ReaderQueuesEvent, SessionTypeOK
      <3> QED BY <2>1, <3>1, AppendProperties
    <2>3. SidecarInv'
      <3>1. toSidecar' \in Seq(Requests) /\ alive' \in BOOLEAN
        BY <1>0, <1>1 DEF ReaderQueuesEvent, SidecarTypeOK
      <3> QED BY <1>0, <1>1, <2>1, <3>1, WireTypes DEF ReaderQueuesEvent
    <2> QED BY <1>0, <1>1, <2>1, <2>2, <2>3
            DEF ReaderQueuesEvent, SessionInv, SessionTypeOK, ArmedCommand, pollVars
  <1>2. CASE ReaderSinksEvent
    <2>1. SidecarInv'
      BY <1>0, <1>2, WireUntouched DEF ReaderSinksEvent
    <2> QED BY <1>0, <1>2, <2>1
            DEF ReaderSinksEvent, SessionInv, SessionTypeOK, ArmedCommand, pollVars
  <1>3. CASE ReaderDeliversResponse
    <2>1. toDaemon' \in Seq(Messages) /\ Head(toDaemon).result \in Results
      BY <1>0, <1>3, MessageTypes DEF ReaderDeliversResponse
    <2>2. SidecarInv'
      <3>1. toSidecar' \in Seq(Requests) /\ alive' \in BOOLEAN
        BY <1>0, <1>3 DEF ReaderDeliversResponse, SidecarTypeOK
      <3> QED BY <1>0, <1>3, <2>1, <3>1, WireTypes DEF ReaderDeliversResponse
    <2>3. cmd' \in CmdStates /\ cmd'.pc = cmd.pc /\ cmd'.name = cmd.name
      <3>1. cmd' = cmd \/ cmd' = [cmd EXCEPT !.reply = Head(toDaemon).result, !.id = 0]
        BY <1>3 DEF ReaderDeliversResponse
      <3> QED BY <1>0, <2>1, <3>1, ReplyTypes
    <2> QED BY <1>0, <1>3, <2>2, <2>3
            DEF ReaderDeliversResponse, SessionInv, SessionTypeOK, ArmedCommand,
                pollVars, transportVars
  <1>4. CASE ReaderEnds
    <2>1. SidecarInv'
      BY <1>0, <1>4, WireUntouched DEF ReaderEnds
    <2>2. cmd' \in CmdStates /\ cmd'.pc = cmd.pc /\ cmd'.name = cmd.name
      <3>1. cmd' = cmd \/ cmd' = [cmd EXCEPT !.reply = RpcError, !.id = 0]
        BY <1>4 DEF ReaderEnds
      <3>2. RpcError \in Results
        BY PlainResults
      <3> QED BY <1>0, <3>1, <3>2, ReplyTypes
    <2>3. eof' \in BOOLEAN
      BY <1>4, Zenon DEF ReaderEnds
    <2> QED BY <1>0, <1>4, <2>1, <2>2, <2>3
            DEF ReaderEnds, SessionInv, SessionTypeOK, ArmedCommand, pollVars
  <1>5. CASE RegisterSink
    <2>1. SidecarInv'
      BY <1>0, <1>5, WireUntouched DEF RegisterSink
    <2>2. sinkOn' \in BOOLEAN
      BY <1>5, Zenon DEF RegisterSink
    <2> QED BY <1>0, <1>5, <2>1, <2>2
            DEF RegisterSink, SessionInv, SessionTypeOK, ArmedCommand, pollVars
  <1> QED BY <1>1, <1>2, <1>3, <1>4, <1>5 DEF ReaderNext

\* The pollers, and what the two workers share.
LEMMA PollerTypeStep ==
    ASSUME SessionInv, PollerNext
    PROVE  SessionInv'
  <1>0. SidecarInv /\ SidecarTypeOK /\ SessionTypeOK /\ ArmedCommand /\ "poller" \in Workers
    BY DEF SessionInv, SidecarInv, Workers
  <1>1. SidecarInv'
    BY <1>0, WireUntouched DEF PollerNext, PollerDrains, PollerApplies, PollerDone
  <1>2. CASE PollerDrains
    <2>1. /\ events' \in Seq(SidecarEvents)
          /\ batch' \in [Workers -> Seq(SidecarEvents)]
          /\ sawAlive' \in [Workers -> BOOLEAN]
      BY <1>0, <1>2, DrainsTypes DEF PollerDrains
    <2> QED BY <1>0, <1>1, <1>2, <2>1
            DEF PollerDrains, SessionInv, SessionTypeOK, ArmedCommand
  <1>3. CASE PollerApplies
    <2>1. batch' \in [Workers -> Seq(SidecarEvents)] /\ mutex' \in Workers \cup {Free}
      BY <1>0, <1>3, AppliesTypes DEF PollerApplies
    <2> QED BY <1>0, <1>1, <1>3, <2>1
            DEF PollerApplies, SessionInv, SessionTypeOK, ArmedCommand, transportVars
  <1>4. CASE PollerDone
    <2>1. mutex' \in Workers \cup {Free}
      BY <1>0, <1>4, AppliesTypes DEF PollerDone
    <2> QED BY <1>0, <1>1, <1>4, <2>1
            DEF PollerDone, SessionInv, SessionTypeOK, ArmedCommand, transportVars
  <1> QED BY <1>2, <1>3, <1>4 DEF PollerNext

\* Finishing leaves the idle command behind.
LEMMA FinishesType == Finishes => cmd' \in CmdStates /\ cmd'.pc = "idle"
  BY CmdIdleType DEF Finishes, CmdIdle

\* A command thread's step that keeps to its own state and the mutex.
LEMMA CmdOwnStep ==
    ASSUME SessionInv,
           UNCHANGED <<sidecarVars, transportVars, pollVars, requestId>>,
           mutex' \in Workers \cup {Free},
           cmd' \in CmdStates,
           told' \in Seq(StopIds),
           cmd'.pc = "arm" => cmd'.name \in {"run", "continue", "step"}
    PROVE  SessionInv'
  <1>1. SidecarInv'
    BY WireUntouched DEF SessionInv
  <1> QED BY <1>1 DEF SessionInv, SessionTypeOK, ArmedCommand, transportVars, pollVars

\* A command thread's step that sends a request.
LEMMA CmdSendStep ==
    ASSUME SessionInv,
           NEW method \in Methods, NEW s \in StopIds \cup {NoEvent}, NEW pc \in CmdPcs \ {"arm"},
           Sends(method, s, pc),
           UNCHANGED <<transportVars, mutex, pollVars, told>>
    PROVE  SessionInv'
  <1>1. SidecarInv' /\ cmd' \in CmdStates /\ requestId' \in Nat /\ cmd'.pc # "arm"
    BY SendsTypes DEF SessionInv
  <1> QED BY <1>1 DEF SessionInv, SessionTypeOK, ArmedCommand, transportVars, pollVars

\* The steps that apply and drain events.
LEMMA CmdEventTypeStep ==
    ASSUME SessionInv, CmdApplies \/ CmdApplied \/ CmdGraceWait
    PROVE  SessionInv'
  <1>0. SidecarInv /\ SidecarTypeOK /\ SessionTypeOK /\ ArmedCommand /\ "command" \in Workers
    BY DEF SessionInv, SidecarInv, Workers
  <1>1. CASE CmdApplies
    <2>1. batch' \in [Workers -> Seq(SidecarEvents)] /\ mutex' \in Workers \cup {Free}
      BY <1>0, <1>1, AppliesTypes DEF CmdApplies
    <2>2. SidecarInv'
      BY <1>0, <1>1, WireUntouched DEF CmdApplies
    <2> QED BY <1>0, <1>1, <2>1, <2>2
            DEF CmdApplies, SessionInv, SessionTypeOK, ArmedCommand, transportVars
  <1>2. CASE CmdApplied
    <2>1. mutex' \in Workers \cup {Free}
      BY <1>0, <1>2, AppliesTypes DEF CmdApplied
    <2>2. cmd' \in CmdStates /\ cmd'.pc # "arm"
      <3>1. PICK pc \in {"applied", "graceApplied"} : Goto(pc)
        BY <1>2 DEF CmdApplied
      <3>2. pc \in CmdPcs /\ pc # "arm"
        BY DEF CmdPcs
      <3> QED BY <1>0, <3>1, <3>2, GotoType
    <2>3. told' \in Seq(StopIds)
      BY <1>0, <1>2 DEF CmdApplied, SessionTypeOK
    <2> QED BY <1>2, <2>1, <2>2, <2>3, CmdOwnStep DEF CmdApplied
  <1>3. CASE CmdGraceWait
    <2>1. /\ events' \in Seq(SidecarEvents)
          /\ batch' \in [Workers -> Seq(SidecarEvents)]
          /\ sawAlive' \in [Workers -> BOOLEAN]
      BY <1>0, <1>3, DrainsTypes DEF CmdGraceWait
    <2>2. SidecarInv'
      BY <1>0, <1>3, WireUntouched DEF CmdGraceWait
    <2>3. cmd' \in CmdStates /\ cmd'.pc # "arm"
      <3>1. PICK pc \in {"graceApply", "graceApplied"} : Goto(pc)
        BY <1>3 DEF CmdGraceWait
      <3>2. pc \in CmdPcs /\ pc # "arm"
        BY DEF CmdPcs
      <3> QED BY <1>0, <3>1, <3>2, GotoType
    <2> QED BY <1>0, <1>3, <2>1, <2>2, <2>3
            DEF CmdGraceWait, SessionInv, SessionTypeOK, ArmedCommand
  <1> QED BY <1>1, <1>2, <1>3

\* The steps that send a request.
LEMMA CmdRequestTypeStep ==
    ASSUME InboxTypeOK, SessionInv, CmdRequests \/ CmdTakesPending \/ CmdArms
    PROVE  SessionInv'
  <1>0. "await" \in CmdPcs \ {"arm"} /\ "acking" \in CmdPcs \ {"arm"}
    BY DEF CmdPcs
  <1>1. CASE CmdRequests
    <2>1. Method(cmd.name) \in Methods
      BY <1>1 DEF CmdRequests, Method, Methods
    <2> QED BY <1>0, <1>1, <2>1, CmdSendStep DEF CmdRequests
  <1>2. CASE CmdTakesPending
    <2>1. Head(pendingStops) \in StopIds
      BY <1>2 DEF CmdTakesPending, PopPending, InboxTypeOK
    <2>2. "ackStop" \in Methods
      BY DEF Methods
    <2> QED BY <1>0, <1>2, <2>1, <2>2, CmdSendStep DEF CmdTakesPending
  <1>3. CASE CmdArms
    <2>1. Method(cmd.name) \in Methods
      BY <1>3 DEF CmdArms, At, SessionInv, ArmedCommand, Method, Methods
    <2> QED BY <1>0, <1>3, <2>1, CmdSendStep DEF CmdArms
  <1> QED BY <1>1, <1>2, <1>3

\* A command that has been answered.
LEMMA CmdReplyTypeStep ==
    ASSUME SessionInv, CmdGetsReply
    PROVE  SessionInv'
  <1> DEFINE pc == AfterReply(cmd.name, cmd.reply.kind)
  <1>1. pc \in CmdPcs /\ pc # "arm"
    BY DEF AfterReply, CmdPcs
  <1> HIDE DEF pc
  <1>2. cmd.reply \in Results /\ SessionTypeOK
    BY DEF CmdGetsReply, SessionInv, SessionTypeOK, CmdStates
  <1>3. cmd.reply.stop \in StopEvents \cup {NoEvent} /\ cmd.reply.ids \in Seq(StopIds)
    BY <1>2 DEF Results, StopEvents
  <1>4. \/ cmd' = CmdIdle
        \/ cmd' = [cmd EXCEPT !.pc = pc, !.stop = cmd.reply.stop, !.ids = cmd.reply.ids,
                              !.reply = NoReply]
    BY Zenon DEF CmdGetsReply, pc
  <1>5. cmd' \in CmdStates /\ cmd'.pc # "arm"
    <2>1. cmd \in CmdStates
      BY <1>2 DEF SessionTypeOK
    <2>2. CASE cmd' = CmdIdle
      BY <2>2, CmdIdleType DEF CmdIdle
    <2>3. CASE cmd' = [cmd EXCEPT !.pc = pc, !.stop = cmd.reply.stop, !.ids = cmd.reply.ids,
                                  !.reply = NoReply]
      BY <1>1, <1>3, <2>1, <2>3 DEF CmdStates
    <2> QED BY <1>4, <2>2, <2>3
  <1>6. mutex' \in Workers \cup {Free} /\ told' \in Seq(StopIds)
    BY <1>2 DEF CmdGetsReply, SessionTypeOK
  <1> QED BY <1>5, <1>6, CmdOwnStep DEF CmdGetsReply

\* The steps of the command thread that end a command or work on `inner`.
LEMMA CmdInnerTypeStep ==
    ASSUME SessionInv,
           \/ CmdNoPending \/ CmdSessionDead \/ CmdReportsTimeout \/ CmdAcked \/ CmdTellsStop
           \/ CmdSuspended \/ CmdKilled
    PROVE  SessionInv'
  <1>0. /\ SessionTypeOK /\ ArmedCommand
        /\ cmd \in CmdStates /\ mutex \in Workers \cup {Free} /\ told \in Seq(StopIds)
    BY DEF SessionInv, SessionTypeOK
  <1>1. CASE CmdNoPending
    <2>1. PICK pc \in {"arm", "timeout"} : Goto(pc)
      BY <1>1 DEF CmdNoPending
    <2>2. pc \in CmdPcs
      BY DEF CmdPcs
    <2>3. cmd' \in CmdStates /\ cmd'.pc = pc /\ cmd'.name = cmd.name
      BY <1>0, <2>1, <2>2, GotoType
    <2>4. cmd'.pc = "arm" => cmd.name \in {"run", "continue", "step"}
      <3>1. At("graceApplied") => cmd' = [cmd EXCEPT !.pc = "timeout"]
        BY <1>1 DEF CmdNoPending, Goto, At
      <3>2. At("graceApplied") => cmd'.pc = "timeout"
        BY <1>0, <3>1 DEF CmdStates
      <3> QED BY <1>1, <3>2 DEF CmdNoPending
    <2> QED BY <1>0, <1>1, <2>3, <2>4, CmdOwnStep DEF CmdNoPending
  <1>2. CASE CmdSessionDead \/ CmdReportsTimeout \/ CmdSuspended \/ CmdKilled
    <2>1. cmd' \in CmdStates /\ cmd'.pc = "idle"
      BY <1>2, FinishesType DEF CmdSessionDead, CmdReportsTimeout, CmdSuspended, CmdKilled
    <2> QED BY <1>0, <1>2, <2>1, CmdOwnStep
            DEF CmdSessionDead, CmdReportsTimeout, CmdSuspended, CmdKilled
  <1>3. CASE CmdAcked
    <2>1. cmd' \in CmdStates /\ cmd'.pc = "finalize"
      BY <1>0, <1>3 DEF CmdAcked, CmdStates, CmdPcs
    <2> QED BY <1>0, <1>3, <2>1, CmdOwnStep DEF CmdAcked
  <1>4. CASE CmdTellsStop
    <2>1. cmd' \in CmdStates /\ cmd'.pc = "idle"
      BY <1>4, FinishesType DEF CmdTellsStop
    <2>2. told' \in Seq(StopIds)
      <3>1. cmd.stop # VmExit => cmd.stop \in StopIds
        BY <1>4 DEF CmdTellsStop, FinalizeDeliveredStop, StopEvents
      <3>2. told' = told \/ (cmd.stop # VmExit /\ told' = Append(told, cmd.stop))
        BY <1>4 DEF CmdTellsStop
      <3> QED BY <1>0, <3>1, <3>2, AppendProperties
    <2> QED BY <1>0, <1>4, <2>1, <2>2, CmdOwnStep DEF CmdTellsStop
  <1> QED BY <1>1, <1>2, <1>3, <1>4

\* The discard after a resume-all.
LEMMA CmdDiscardTypeStep ==
    ASSUME InboxTypeOK, SessionInv, CmdDrainsPending \/ CmdRemembers \/ CmdResumed
    PROVE  SessionInv'
  <1>0. /\ SessionTypeOK /\ cmd \in CmdStates /\ cmd.ids \in Seq(StopIds)
        /\ mutex \in Workers \cup {Free} /\ told \in Seq(StopIds)
        /\ "command" \in Workers
    BY DEF SessionInv, SessionTypeOK, CmdStates, Workers
  <1>1. CASE CmdDrainsPending
    <2>1. pendingStops \o cmd.ids \in Seq(StopIds)
      BY <1>0, ConcatProperties DEF InboxTypeOK
    <2>2. cmd' \in CmdStates /\ cmd'.pc = "remember"
      BY <1>0, <1>1, <2>1 DEF CmdDrainsPending, CmdStates, CmdPcs
    <2> QED BY <1>0, <1>1, <2>2, CmdOwnStep DEF CmdDrainsPending
  <1>2. CASE CmdRemembers
    <2>1. Tail(cmd.ids) \in Seq(StopIds)
      BY <1>0, <1>2, TailSeq DEF CmdRemembers
    <2>2. cmd' \in CmdStates /\ cmd'.pc = "remember"
      BY <1>0, <1>2, <2>1 DEF CmdRemembers, CmdStates, At
    <2> QED BY <1>0, <1>2, <2>2, CmdOwnStep DEF CmdRemembers
  <1>3. CASE CmdResumed
    <2>1. cmd' \in CmdStates /\ cmd'.pc = "idle"
      BY <1>3, FinishesType DEF CmdResumed
    <2> QED BY <1>0, <1>3, <2>1, CmdOwnStep DEF CmdResumed
  <1> QED BY <1>1, <1>2, <1>3

\* kill shuts the sidecar process down.
LEMMA CmdShutsDownTypeStep ==
    ASSUME SessionInv, CmdShutsDown
    PROVE  SessionInv'
  <1>0. SidecarInv /\ SidecarTypeOK /\ SessionTypeOK
    BY DEF SessionInv, SidecarInv
  <1>1. SidecarInv'
    <2>1. alive' \in BOOLEAN
      BY Zenon DEF CmdShutsDown
    <2>2. toSidecar' \in Seq(Requests) /\ toDaemon' \in Seq(Messages)
      BY <1>0 DEF CmdShutsDown, SidecarTypeOK
    <2> QED BY <1>0, <2>1, <2>2, WireTypes DEF CmdShutsDown
  <1>2. cmd' \in CmdStates /\ cmd'.pc = "killed"
    <2>1. Goto("killed") /\ "killed" \in CmdPcs
      BY DEF CmdShutsDown, CmdPcs
    <2> QED BY <1>0, <2>1, GotoType
  <1> QED BY <1>0, <1>1, <1>2
          DEF CmdShutsDown, SessionInv, SessionTypeOK, ArmedCommand, transportVars, pollVars

LEMMA CmdTypeStep ==
    ASSUME InboxTypeOK, SessionInv, CmdNext
    PROVE  SessionInv'
  BY CmdEventTypeStep, CmdRequestTypeStep, CmdReplyTypeStep, CmdInnerTypeStep,
     CmdDiscardTypeStep, CmdShutsDownTypeStep DEF CmdNext

\* A client's command begins.
LEMMA ClientTypeStep ==
    ASSUME SessionInv, ClientNext
    PROVE  SessionInv'
  <1>0. SidecarInv /\ SidecarTypeOK /\ SessionTypeOK /\ "command" \in Workers
    BY DEF SessionInv, SidecarInv, Workers
  <1>1. ASSUME NEW name \in Commands, CmdIssue(name) PROVE SessionInv'
    <2>1. /\ events' \in Seq(SidecarEvents)
          /\ batch' \in [Workers -> Seq(SidecarEvents)]
          /\ sawAlive' \in [Workers -> BOOLEAN]
      BY <1>0, <1>1, DrainsTypes DEF CmdIssue
    <2>2. SidecarInv'
      BY <1>0, <1>1, WireUntouched DEF CmdIssue
    <2>3. cmd' \in CmdStates /\ cmd'.pc # "arm"
      <3>1. PICK pc \in {"applied", "apply"} : cmd' = [CmdIdle EXCEPT !.name = name, !.pc = pc]
        BY <1>1 DEF CmdIssue
      <3> QED BY <3>1, CmdIdleType DEF CmdStates, CmdPcs
    <2> QED BY <1>0, <1>1, <2>1, <2>2, <2>3
            DEF CmdIssue, SessionInv, SessionTypeOK, ArmedCommand
  <1>2. CASE CmdKill
    <2> DEFINE req == [id |-> requestId + 1, method |-> "terminate", stop |-> NoEvent]
    <2>1. requestId + 1 \in Nat /\ requestId' = requestId + 1
      BY <1>0, <1>2 DEF SessionTypeOK, CmdKill
    <2>2. req \in Requests
      BY <2>1 DEF Requests, Methods
    <2> HIDE DEF req
    <2>3. toSidecar' \in Seq(Requests)
      <3>1. toSidecar \in Seq(Requests)
        BY <1>0 DEF SidecarTypeOK
      <3>2. toSidecar' = Append(toSidecar, req) \/ toSidecar' = toSidecar
        BY <1>2, Zenon DEF CmdKill, req
      <3> QED BY <2>2, <3>1, <3>2, AppendProperties
    <2>4. SidecarInv'
      <3>1. UNCHANGED <<targetVars, queueVars, loop, rpc, toDaemon, alive>>
        BY <1>2 DEF CmdKill
      <3> QED BY <1>0, <2>3, <3>1, WireTypes DEF SidecarTypeOK
    <2>5. cmd' \in CmdStates /\ cmd'.pc = "await"
      <3>1. \/ cmd' = [CmdIdle EXCEPT !.name = "kill", !.pc = "await", !.id = requestId + 1]
            \/ cmd' = [CmdIdle EXCEPT !.name = "kill", !.pc = "await", !.reply = RpcError]
        BY <1>2, Zenon DEF CmdKill
      <3>2. RpcError \in Results
        BY PlainResults
      <3> QED BY <2>1, <3>1, <3>2, CmdIdleType DEF CmdStates, CmdPcs
    <2> QED BY <1>0, <1>2, <2>1, <2>4, <2>5
            DEF CmdKill, SessionInv, SessionTypeOK, ArmedCommand, transportVars, pollVars
  <1> QED BY <1>1, <1>2 DEF ClientNext

\* The sidecar's own steps, a request given up, and the sidecar's death.
LEMMA SidecarTypeStep ==
    ASSUME SessionInv, SidecarActs \/ CmdRequestTimesOut \/ SidecarCrashes
    PROVE  SessionInv'
  <1>0. SidecarInv /\ SidecarTypeOK /\ SessionTypeOK /\ ArmedCommand
    BY DEF SessionInv, SidecarInv
  <1>1. CASE SidecarActs
    <2>1. SidecarInv'
      BY <1>0, <1>1, TargetTypeStep, LoopTypeStep, RpcTypeStep DEF SidecarActs
    <2> QED BY <1>0, <1>1, <2>1
            DEF SidecarActs, SessionInv, SessionTypeOK, ArmedCommand, sessionVars,
                transportVars, pollVars
  <1>2. CASE CmdRequestTimesOut
    <2>1. cmd' \in CmdStates /\ cmd'.pc = cmd.pc /\ cmd'.name = cmd.name
      <3>1. RpcError \in Results /\ cmd' = [cmd EXCEPT !.reply = RpcError, !.id = 0]
        BY <1>2, PlainResults DEF CmdRequestTimesOut
      <3> QED BY <1>0, <3>1, ReplyTypes
    <2>2. mutex' \in Workers \cup {Free} /\ told' \in Seq(StopIds)
      BY <1>0, <1>2 DEF CmdRequestTimesOut, SessionTypeOK
    <2> QED BY <1>0, <1>2, <2>1, <2>2, CmdOwnStep DEF CmdRequestTimesOut, ArmedCommand
  <1>3. CASE SidecarCrashes
    <2>1. SidecarInv'
      <3>1. alive' \in BOOLEAN
        BY <1>3, Zenon DEF SidecarCrashes
      <3>2. toSidecar' \in Seq(Requests) /\ toDaemon' \in Seq(Messages)
        BY <1>0, <1>3 DEF SidecarCrashes, SidecarTypeOK
      <3> QED BY <1>0, <1>3, <3>1, <3>2, WireTypes DEF SidecarCrashes
    <2> QED BY <1>0, <1>3, <2>1
            DEF SidecarCrashes, SessionInv, SessionTypeOK, ArmedCommand, sessionVars,
                transportVars, pollVars
  <1> QED BY <1>1, <1>2, <1>3

LEMMA SessionInvStep ==
    ASSUME InboxTypeOK, SessionInv, [JdiNext]_jdiVars
    PROVE  SessionInv'
  <1>1. CASE JdiNext
    BY <1>1, ReaderTypeStep, PollerTypeStep, CmdTypeStep, ClientTypeStep, SidecarTypeStep
    DEF JdiNext
  <1>2. CASE UNCHANGED jdiVars
    <2>1. SidecarInv'
      BY <1>2, WireUntouched DEF SessionInv, jdiVars
    <2> QED BY <1>2, <2>1
            DEF SessionInv, SessionTypeOK, ArmedCommand, jdiVars, sessionVars,
                transportVars, pollVars
  <1> QED BY <1>1, <1>2

LEMMA SessionInvInit == JdiInit => SessionInv
  <1> SUFFICES ASSUME JdiInit PROVE SessionInv
    OBVIOUS
  <1>1. SidecarInv
    BY SidecarInvInit DEF JdiInit
  <1>2. <<>> \in Seq(SidecarEvents) /\ <<>> \in Seq(StopIds)
    BY EmptySeq
  <1>3. sawAlive \in [Workers -> BOOLEAN] /\ sinkOn \in BOOLEAN /\ eof \in BOOLEAN
    BY Zenon DEF JdiInit
  <1> QED BY <1>1, <1>2, <1>3, CmdIdleType
          DEF JdiInit, SessionInv, SessionTypeOK, ArmedCommand, CmdIdle

\* The types of a whole session, whatever the number of threads, stops,
\* commands and requests: in particular every stop the daemon has to tell,
\* acknowledge or remember is one the sidecar may raise.
THEOREM SessionTypeCorrect == JdiSafety => []JdiTypeOK
  <1>1. InboxTypeOK /\ SessionInv => JdiTypeOK
    BY DEF JdiTypeOK, SessionInv, SidecarInv
  <1>2. InboxTypeOK /\ SessionInv /\ [JdiNext]_jdiVars => SessionInv'
    BY SessionInvStep
  <1>3. JdiSafety => []InboxTypeOK
    BY SessionImplementsInbox, InboxTypeCorrect, PTL
  <1> QED BY <1>1, <1>2, <1>3, SessionInvInit, PTL DEF JdiSafety

-----------------------------------------------------------------------------
(* A step leaves nothing behind.                                           *)

\* The daemon's threads leave the RPC thread and the step alone.
LEMMA FilterOwnedSessionStep ==
    ASSUME SessionInv, FilterOwned, [JdiNext]_jdiVars
    PROVE  FilterOwned'
  <1>1. CASE SidecarActs
    BY <1>1, FilterOwnedStep DEF SidecarActs, SessionInv, SidecarInv
  <1> DEFINE kept == UNCHANGED <<vmUp, stepReq, stepThread, rpc>>
  <1>2. kept => FilterOwned'
    BY DEF FilterOwned
  <1>3. CASE ReaderNext \/ RegisterSink
    BY <1>2, <1>3
    DEF ReaderNext, ReaderQueuesEvent, ReaderSinksEvent, ReaderDeliversResponse, ReaderEnds,
        RegisterSink, sidecarVars, targetVars, queueVars
  <1>4. CASE PollerNext
    BY <1>2, <1>4
    DEF PollerNext, PollerDrains, PollerApplies, PollerDone, sidecarVars, targetVars, queueVars
  <1>5. CASE ClientNext
    BY <1>2, <1>5 DEF ClientNext, CmdIssue, CmdKill, sidecarVars, targetVars, queueVars
  <1>6. CASE CmdNext
    <2>1. CASE CmdRequests \/ CmdTakesPending \/ CmdArms
      BY <1>2, <2>1 DEF CmdRequests, CmdTakesPending, CmdArms, Sends, targetVars, queueVars
    <2>2. CASE CmdShutsDown
      BY <1>2, <2>2 DEF CmdShutsDown, targetVars, queueVars
    <2>3. CASE \/ CmdApplies \/ CmdApplied \/ CmdNoPending \/ CmdSessionDead \/ CmdGetsReply
               \/ CmdGraceWait \/ CmdReportsTimeout \/ CmdAcked \/ CmdTellsStop \/ CmdSuspended
               \/ CmdDrainsPending \/ CmdRemembers \/ CmdResumed \/ CmdKilled
      <3>1. UNCHANGED sidecarVars
        BY <2>3 DEF CmdApplies, CmdApplied, CmdNoPending, CmdSessionDead, CmdGetsReply,
                    CmdGraceWait, CmdReportsTimeout, CmdAcked, CmdTellsStop, CmdSuspended,
                    CmdDrainsPending, CmdRemembers, CmdResumed, CmdKilled
      <3> QED BY <1>2, <3>1 DEF sidecarVars, targetVars, queueVars
    <2> QED BY <1>6, <2>1, <2>2, <2>3 DEF CmdNext
  <1>7. CASE CmdRequestTimesOut \/ SidecarCrashes \/ UNCHANGED jdiVars
    BY <1>2, <1>7
    DEF CmdRequestTimesOut, SidecarCrashes, jdiVars, sidecarVars, targetVars, queueVars
  <1> QED BY <1>1, <1>3, <1>4, <1>5, <1>6, <1>7 DEF JdiNext

\* Between two requests of a session whose target lives no step request is
\* enabled and activeStepThreadId is null: step's finally block has run,
\* whatever ended the step.
THEOREM StepLeavesNoFilterHolds == JdiSafety => []StepLeavesNoFilter
  <1>1. JdiInit => FilterOwned
    BY FilterOwnedInit DEF JdiInit
  <1>2. InboxTypeOK /\ SessionInv /\ [JdiNext]_jdiVars => SessionInv'
    BY SessionInvStep
  <1>3. SessionInv /\ FilterOwned /\ [JdiNext]_jdiVars => FilterOwned'
    BY FilterOwnedSessionStep
  <1>4. FilterOwned => StepLeavesNoFilter
    BY DEF FilterOwned, StepPcs, StepLeavesNoFilter
  <1>5. JdiSafety => []InboxTypeOK
    BY SessionImplementsInbox, InboxTypeCorrect, PTL
  <1> QED BY <1>1, <1>2, <1>3, <1>4, <1>5, SessionInvInit, PTL DEF JdiSafety

-----------------------------------------------------------------------------
(* The discard after a resume-all.                                         *)

\* While the command thread remembers the discarded ids nobody else gets
\* hold of `inner`.
LEMMA DiscardAtomicStep ==
    ASSUME SessionInv, DiscardAtomic, [JdiNext]_jdiVars
    PROVE  DiscardAtomic'
  <1>0. cmd \in CmdStates /\ SessionTypeOK
    BY DEF SessionInv, SessionTypeOK
  <1>1. UNCHANGED <<cmd, mutex, pendingStops>> => DiscardAtomic'
    BY DEF DiscardAtomic, At
  <1>2. cmd'.pc # "remember" => DiscardAtomic'
    BY DEF DiscardAtomic, At
  <1>3. CASE ReaderNext
    <2>1. CASE ReaderQueuesEvent
      BY <1>1, <2>1 DEF ReaderQueuesEvent, Untouched, inboxVars
    <2>2. CASE ReaderSinksEvent
      BY <1>1, <2>2 DEF ReaderSinksEvent, Untouched, inboxVars, DiscardAtomic, At, Free
    <2>3. CASE ReaderDeliversResponse \/ ReaderEnds
      <3>1. cmd'.pc = cmd.pc /\ UNCHANGED <<mutex, pendingStops>>
        BY <1>0, <2>3
        DEF ReaderDeliversResponse, ReaderEnds, Untouched, inboxVars, CmdStates
      <3> QED BY <3>1 DEF DiscardAtomic, At
    <2> QED BY <1>3, <2>1, <2>2, <2>3 DEF ReaderNext
  <1>4. CASE SidecarActs \/ RegisterSink \/ SidecarCrashes \/ UNCHANGED jdiVars
    BY <1>1, <1>4
    DEF SidecarActs, RegisterSink, SidecarCrashes, jdiVars, sessionVars, Untouched, inboxVars
  <1>5. CASE PollerNext
    <2>1. CASE PollerDrains
      BY <1>1, <2>1 DEF PollerDrains, Untouched, inboxVars
    <2>2. CASE PollerApplies \/ PollerDone
      <3>1. MayLock("poller") /\ cmd' = cmd
        BY <2>2 DEF PollerApplies, PollerDone, AppliesOne, AppliedAll
      <3>2. cmd.pc # "remember"
        BY <3>1 DEF MayLock, DiscardAtomic, At, Free
      <3> QED BY <1>2, <3>1, <3>2
    <2> QED BY <1>5, <2>1, <2>2 DEF PollerNext
  <1>6. CASE ClientNext
    <2>1. cmd'.pc # "remember"
      BY <1>6 DEF ClientNext, CmdIssue, CmdKill, CmdIdle
    <2> QED BY <1>2, <2>1
  <1>7. CASE CmdRequestTimesOut
    <2>1. cmd'.pc # "remember"
      BY <1>0, <1>7 DEF CmdRequestTimesOut, CmdStates
    <2> QED BY <1>2, <2>1
  <1>8. CASE CmdNext
    <2>1. CASE CmdDrainsPending
      BY <2>1 DEF CmdDrainsPending, DrainPending, DiscardAtomic
    <2>2. CASE CmdRemembers
      <3>1. UNCHANGED <<mutex, pendingStops>> /\ At("remember")
        BY <2>2 DEF CmdRemembers, RememberDiscarded
      <3> QED BY <3>1 DEF DiscardAtomic, At
    <2>3. CASE CmdApplies
      BY <1>2, <2>3 DEF CmdApplies
    <2>4. CASE CmdRequests \/ CmdTakesPending \/ CmdArms
      <3>1. cmd'.pc \in {"await", "acking"}
        BY <1>0, <2>4 DEF CmdRequests, CmdTakesPending, CmdArms, Sends, CmdStates
      <3> QED BY <1>2, <3>1
    <2>5. CASE \/ CmdSessionDead \/ CmdReportsTimeout \/ CmdTellsStop \/ CmdSuspended
               \/ CmdResumed \/ CmdKilled
      <3>1. cmd'.pc = "idle"
        BY <2>5, FinishesType
        DEF CmdSessionDead, CmdReportsTimeout, CmdTellsStop, CmdSuspended, CmdResumed, CmdKilled
      <3> QED BY <1>2, <3>1
    <2>6. CASE CmdApplied \/ CmdNoPending \/ CmdGraceWait \/ CmdAcked \/ CmdShutsDown
      <3>1. cmd'.pc \in {"applied", "graceApplied", "arm", "timeout", "graceApply", "finalize",
                         "killed"}
        BY <1>0, <2>6
        DEF CmdApplied, CmdNoPending, CmdGraceWait, CmdAcked, CmdShutsDown, Goto, CmdStates
      <3> QED BY <1>2, <3>1
    <2>7. CASE CmdGetsReply
      <3> DEFINE pc == AfterReply(cmd.name, cmd.reply.kind)
      <3>1. pc # "remember"
        BY DEF AfterReply
      <3> HIDE DEF pc
      <3>2. \/ cmd' = CmdIdle
            \/ cmd' = [cmd EXCEPT !.pc = pc, !.stop = cmd.reply.stop, !.ids = cmd.reply.ids,
                                  !.reply = NoReply]
        BY <2>7, Zenon DEF CmdGetsReply, pc
      <3>3. CASE cmd' = CmdIdle
        BY <1>2, <3>3 DEF CmdIdle
      <3>4. CASE cmd' = [cmd EXCEPT !.pc = pc, !.stop = cmd.reply.stop, !.ids = cmd.reply.ids,
                                    !.reply = NoReply]
        <4>1. cmd'.pc = pc
          BY <1>0, <3>4 DEF CmdStates
        <4> QED BY <1>2, <3>1, <4>1
      <3> QED BY <3>2, <3>3, <3>4
    <2> QED BY <1>8, <2>1, <2>2, <2>3, <2>4, <2>5, <2>6, <2>7 DEF CmdNext
  <1> QED BY <1>3, <1>4, <1>5, <1>6, <1>7, <1>8 DEF JdiNext

\* discard_stops_after_resume_all is one critical section: from the moment
\* it has emptied the queue to its last line no thread adds a stop that
\* nobody would remember.
THEOREM DiscardAtomicHolds == JdiSafety => []DiscardAtomic
  <1>1. JdiInit => DiscardAtomic
    BY DEF JdiInit, DiscardAtomic, At, CmdIdle
  <1>2. InboxTypeOK /\ SessionInv /\ [JdiNext]_jdiVars => SessionInv'
    BY SessionInvStep
  <1>3. SessionInv /\ DiscardAtomic /\ [JdiNext]_jdiVars => DiscardAtomic'
    BY DiscardAtomicStep
  <1>4. JdiSafety => []InboxTypeOK
    BY SessionImplementsInbox, InboxTypeCorrect, PTL
  <1> QED BY <1>1, <1>2, <1>3, <1>4, SessionInvInit, PTL DEF JdiSafety


-----------------------------------------------------------------------------
(* Which variables the daemon's threads and the sidecar's leave alone.     *)

\* The daemon's threads touch the sidecar's streams and its life only.
LEMMA DaemonLeaves ==
    ASSUME \/ ReaderNext \/ RegisterSink \/ PollerNext \/ ClientNext \/ CmdNext
           \/ CmdRequestTimesOut \/ SidecarCrashes
    PROVE  /\ UNCHANGED <<suspends, vmUp, vmEvents, stepReq, raised, dropped, stops, current,
                          currentThread, stepThread, loop, rpc>>
           /\ alive' => alive
  <1> USE DEF targetVars, queueVars
  <1>1. CASE ReaderNext \/ RegisterSink
    BY <1>1 DEF ReaderNext, ReaderQueuesEvent, ReaderSinksEvent, ReaderDeliversResponse,
                ReaderEnds, RegisterSink, sidecarVars
  <1>2. CASE PollerNext
    BY <1>2 DEF PollerNext, PollerDrains, PollerApplies, PollerDone, sidecarVars
  <1>3. CASE ClientNext
    <2>1. CmdKill => UNCHANGED <<targetVars, queueVars, loop, rpc, toDaemon, alive>>
      BY Zenon DEF CmdKill
    <2>2. \A name : CmdIssue(name) => UNCHANGED sidecarVars
      BY DEF CmdIssue
    <2> QED BY <1>3, <2>1, <2>2 DEF ClientNext, sidecarVars
  <1>4. CASE CmdRequests \/ CmdTakesPending \/ CmdArms \/ CmdShutsDown
    BY <1>4 DEF CmdRequests, CmdTakesPending, CmdArms, CmdShutsDown, Sends
  <1>5. CASE \/ CmdApplies \/ CmdApplied \/ CmdNoPending \/ CmdSessionDead \/ CmdGetsReply
             \/ CmdGraceWait \/ CmdReportsTimeout \/ CmdAcked \/ CmdTellsStop \/ CmdSuspended
             \/ CmdDrainsPending \/ CmdRemembers \/ CmdResumed \/ CmdKilled
             \/ CmdRequestTimesOut \/ SidecarCrashes
    BY <1>5 DEF CmdApplies, CmdApplied, CmdNoPending, CmdSessionDead, CmdGetsReply,
                CmdGraceWait, CmdReportsTimeout, CmdAcked, CmdTellsStop, CmdSuspended,
                CmdDrainsPending, CmdRemembers, CmdResumed, CmdKilled,
                CmdRequestTimesOut, SidecarCrashes, sidecarVars
  <1> QED BY <1>1, <1>2, <1>3, <1>4, <1>5 DEF CmdNext

\* The sidecar's threads keep out of the daemon; the target works through its
\* events, the loop through the first lines of a stop, the RPC thread on its request.
LEMMA SidecarLeaves ==
    ASSUME SidecarActs
    PROVE  /\ UNCHANGED <<state, lastEvent, deliveredStop, deliveredIds, pendingStops>>
           /\ UNCHANGED <<events, sunk, sinkOn, eof, mutex, pollPc, batch, sawAlive, cmd,
                          requestId, told>>
           /\ alive' = alive
           /\ TargetNext => UNCHANGED <<raised, dropped, stops, current, currentThread, stepThread,
                                        loop, rpc, toSidecar, toDaemon>>
           /\ LoopNext => UNCHANGED <<vmUp, stepReq, dropped, stepThread, rpc, toSidecar>>
           /\ RpcNext => UNCHANGED <<raised, loop>>
  <1>1. /\ UNCHANGED <<state, lastEvent, deliveredStop, deliveredIds, pendingStops>>
        /\ UNCHANGED <<events, sunk, sinkOn, eof, mutex, pollPc, batch, sawAlive, cmd,
                       requestId, told>>
    BY DEF SidecarActs, Untouched, inboxVars, sessionVars, transportVars, pollVars
  <1>2. TargetNext => /\ alive' = alive
                      /\ UNCHANGED <<raised, dropped, stops, current, currentThread, stepThread,
                                     loop, rpc, toSidecar, toDaemon>>
    BY DEF TargetNext, TargetHitsRequest, TargetHits, TargetSteps, TargetExits, queueVars
  <1>3. LoopNext => alive' = alive /\ UNCHANGED <<vmUp, stepReq, dropped, stepThread, rpc, toSidecar>>
    BY DEF LoopNext, LoopAccepts, LoopRejects, LoopFails, LoopQueuesStop, LoopVmStart, LoopVmDeath,
           LoopSends, LoopReads, queueVars, targetVars
  <1>4. RpcNext => alive' = alive /\ UNCHANGED <<raised, loop>>
    BY DEF RpcNext, RpcReads, PollQueuedStopOrResume, PollStop, TimesOut, ExamineStop, StepBegins,
           StepDiscardsOther, StepDiscardedOthers, StepFails, StepFinally, AckStop, SuspendAll,
           DiscardCurrent, DiscardNext, VmResume, Terminate, TargetGone, RpcReplies, queueVars
  <1> QED BY <1>1, <1>2, <1>3, <1>4 DEF SidecarActs

\* Nothing moves in a stuttering step.
LEMMA NothingMoves ==
    ASSUME UNCHANGED jdiVars
    PROVE  /\ UNCHANGED <<state, lastEvent, deliveredStop, deliveredIds, pendingStops>>
           /\ UNCHANGED <<events, sunk, sinkOn, eof, mutex, pollPc, batch, sawAlive, cmd,
                          requestId, told>>
           /\ UNCHANGED <<suspends, vmUp, vmEvents, stepReq, raised, dropped, stops, current,
                          currentThread, stepThread, loop, rpc, toSidecar, toDaemon, alive>>
  BY DEF jdiVars, inboxVars, sessionVars, transportVars, pollVars, sidecarVars, targetVars, queueVars

-----------------------------------------------------------------------------
(* What the steps of the command thread make of a command.                 *)

\* Where each step leaves the command's program counter.
LEMMA CmdMoves ==
    ASSUME cmd \in CmdStates, CmdNext
    PROVE  \/ CmdApplies /\ cmd' = cmd
           \/ CmdApplied /\ cmd'.pc = (IF At("apply") THEN "applied" ELSE "graceApplied")
           \/ CmdRequests /\ cmd'.pc = "await"
           \/ CmdTakesPending /\ cmd'.pc = "acking" /\ cmd'.stop = Head(pendingStops)
           \/ CmdNoPending /\ cmd'.pc = (IF At("applied") THEN "arm" ELSE "timeout")
           \/ CmdArms /\ cmd'.pc = "await"
           \/ CmdGetsReply /\ cmd'.pc = AfterReply(cmd.name, cmd.reply.kind)
           \/ CmdGraceWait /\ cmd'.pc = (IF NothingToApply THEN "graceApplied" ELSE "graceApply")
           \/ CmdAcked /\ cmd'.pc = "finalize" /\ cmd'.stop = cmd.stop
           \/ CmdDrainsPending /\ cmd'.pc = "remember"
           \/ CmdRemembers /\ cmd'.pc = "remember"
           \/ CmdShutsDown /\ cmd'.pc = "killed"
           \/ /\ CmdSessionDead \/ CmdReportsTimeout \/ CmdTellsStop \/ CmdSuspended
                 \/ CmdResumed \/ CmdKilled
              /\ cmd' = CmdIdle
  <1> USE DEF CmdStates
  <1>1. CASE CmdApplies
    BY <1>1 DEF CmdApplies
  <1>2. CASE CmdApplied
    BY <1>2 DEF CmdApplied, Goto
  <1>3. CASE CmdRequests
    BY <1>3 DEF CmdRequests, Sends
  <1>4. CASE CmdTakesPending
    BY <1>4 DEF CmdTakesPending, Sends
  <1>5. CASE CmdNoPending
    BY <1>5 DEF CmdNoPending, Goto
  <1>6. CASE CmdArms
    BY <1>6 DEF CmdArms, Sends
  <1>7. CASE CmdGetsReply
    <2> DEFINE pc == AfterReply(cmd.name, cmd.reply.kind)
    <2> SUFFICES cmd'.pc = pc
      BY <1>7
    <2> HIDE DEF pc
    <2>1. \/ pc = "idle" /\ cmd' = CmdIdle
          \/ cmd' = [cmd EXCEPT !.pc = pc, !.stop = cmd.reply.stop, !.ids = cmd.reply.ids,
                                !.reply = NoReply]
      BY <1>7, Zenon DEF CmdGetsReply, pc
    <2>2. CASE pc = "idle" /\ cmd' = CmdIdle
      BY <2>2 DEF CmdIdle
    <2>3. CASE cmd' = [cmd EXCEPT !.pc = pc, !.stop = cmd.reply.stop, !.ids = cmd.reply.ids,
                                  !.reply = NoReply]
      BY <2>3
    <2> QED BY <2>1, <2>2, <2>3
  <1>8. CASE CmdGraceWait
    BY <1>8 DEF CmdGraceWait, Goto
  <1>9. CASE CmdAcked
    BY <1>9 DEF CmdAcked
  <1>10. CASE CmdDrainsPending
    BY <1>10 DEF CmdDrainsPending
  <1>11. CASE CmdRemembers
    BY <1>11 DEF CmdRemembers, At
  <1>12. CASE CmdShutsDown
    BY <1>12 DEF CmdShutsDown, Goto
  <1>13. CASE CmdSessionDead \/ CmdReportsTimeout \/ CmdTellsStop \/ CmdSuspended \/ CmdResumed \/ CmdKilled
    BY <1>13 DEF CmdSessionDead, CmdReportsTimeout, CmdTellsStop, CmdSuspended, CmdResumed, CmdKilled, Finishes
  <1> QED BY <1>1, <1>2, <1>3, <1>4, <1>5, <1>6, <1>7, <1>8, <1>9, <1>10, <1>11, <1>12, <1>13
          DEF CmdNext

-----------------------------------------------------------------------------
(* The life of the sidecar, as the daemon sees it.                         *)

\* While the sidecar lives nobody has seen it dead, and no kill is past the
\* shutting down.
DeadIsDead ==
    alive => /\ state # "Dead"
             /\ cmd.pc # "killed"
             /\ \A w \in Workers : sawAlive[w]

\* No event of the sidecar marks the session Dead.
LEMMA AppliedLives ==
    ASSUME NEW e, ApplySidecarEvent(e), state # "Dead"
    PROVE  state' # "Dead"
  BY DEF ApplySidecarEvent, ApplyVmExit, ApplyStop, inboxVars

\* Only a dead sidecar, or kill after it has shut one down, makes it Dead.
LEMMA DeadIsDeadStep ==
    ASSUME SessionInv, DeadIsDead, [JdiNext]_jdiVars
    PROVE  DeadIsDead'
  <1>0. /\ cmd \in CmdStates /\ sawAlive \in [Workers -> BOOLEAN]
        /\ "command" \in Workers /\ "poller" \in Workers
    BY DEF SessionInv, SessionTypeOK, Workers
  <1>1. CASE SidecarActs
    BY <1>1, SidecarLeaves DEF DeadIsDead
  <1>2. CASE UNCHANGED jdiVars
    BY <1>2, NothingMoves DEF DeadIsDead
  <1> SUFFICES ASSUME ~ SidecarActs, JdiNext, alive'
               PROVE  DeadIsDead'
    BY <1>1, <1>2 DEF DeadIsDead
  <1>3. alive /\ state # "Dead" /\ cmd.pc # "killed" /\ \A w \in Workers : sawAlive[w]
    BY DaemonLeaves DEF JdiNext, DeadIsDead
  <1>4. \A w \in Workers : AppliedAll(w) => UNCHANGED <<state, sawAlive>> \/ UNCHANGED state
    BY <1>3 DEF AppliedAll, Untouched, inboxVars
  <1>5. CASE RegisterSink \/ SidecarCrashes
    BY <1>3, <1>5 DEF DeadIsDead, RegisterSink, SidecarCrashes, sessionVars, pollVars, Untouched, inboxVars
  <1>6. CASE ReaderNext
    <2>1. state' # "Dead" /\ UNCHANGED sawAlive
      BY <1>3, <1>6, AppliedLives
      DEF ReaderNext, ReaderQueuesEvent, ReaderSinksEvent, ReaderDeliversResponse, ReaderEnds,
          pollVars, Untouched, inboxVars
    <2>2. cmd'.pc = cmd.pc
      BY <1>0, <1>6
      DEF ReaderNext, ReaderQueuesEvent, ReaderSinksEvent, ReaderDeliversResponse, ReaderEnds, CmdStates
    <2> QED BY <1>3, <2>1, <2>2 DEF DeadIsDead
  <1>7. CASE PollerNext
    <2>1. cmd' = cmd /\ state' # "Dead"
      BY <1>0, <1>3, <1>4, <1>7, AppliedLives
      DEF PollerNext, PollerDrains, PollerApplies, PollerDone, AppliesOne, Untouched, inboxVars
    <2>2. sawAlive' = sawAlive \/ sawAlive' = [sawAlive EXCEPT !["poller"] = alive]
      BY <1>7 DEF PollerNext, PollerDrains, PollerApplies, PollerDone, Drains
    <2> QED BY <1>0, <1>3, <2>1, <2>2 DEF DeadIsDead
  <1>8. CASE ClientNext
    <2>1. state' = state
      BY <1>8 DEF ClientNext, CmdIssue, CmdKill, Untouched, inboxVars
    <2>2. sawAlive' = sawAlive \/ sawAlive' = [sawAlive EXCEPT !["command"] = alive]
      BY <1>8 DEF ClientNext, CmdIssue, CmdKill, Drains, pollVars
    <2>3. cmd'.pc # "killed"
      BY <1>8 DEF ClientNext, CmdIssue, CmdKill, CmdIdle
    <2> QED BY <1>0, <1>3, <2>1, <2>2, <2>3 DEF DeadIsDead
  <1>9. CASE CmdRequestTimesOut
    <2>1. cmd'.pc = cmd.pc /\ UNCHANGED <<state, sawAlive>>
      BY <1>0, <1>9 DEF CmdRequestTimesOut, CmdStates, pollVars, Untouched, inboxVars
    <2> QED BY <1>3, <2>1 DEF DeadIsDead
  <1>10. CASE CmdNext
    <2>1. ~ CmdShutsDown /\ ~ CmdKilled
      BY <1>3 DEF CmdShutsDown, CmdKilled, At
    <2>2. cmd'.pc # "killed"
      <3>1. AfterReply(cmd.name, cmd.reply.kind) # "killed"
        BY DEF AfterReply
      <3> QED BY <1>0, <1>3, <1>10, <2>1, <3>1, CmdMoves DEF CmdIdle
    <2>3. sawAlive' = sawAlive \/ sawAlive' = [sawAlive EXCEPT !["command"] = alive]
      BY <1>10, <2>1
      DEF CmdNext, CmdApplies, CmdApplied, CmdRequests, CmdTakesPending, CmdNoPending, CmdArms,
          CmdSessionDead, CmdGetsReply, CmdGraceWait, CmdReportsTimeout, CmdAcked, CmdTellsStop,
          CmdSuspended, CmdDrainsPending, CmdRemembers, CmdResumed, Drains, pollVars
    <2>4. state' # "Dead"
      <3>1. CASE CmdApplies \/ CmdApplied
        BY <1>0, <1>3, <1>4, <3>1, AppliedLives DEF CmdApplies, CmdApplied, AppliesOne
      <3>2. CASE \/ CmdTakesPending \/ CmdArms \/ CmdReportsTimeout \/ CmdTellsStop \/ CmdSuspended
                 \/ CmdDrainsPending \/ CmdRemembers \/ CmdResumed
        BY <1>3, <3>2
        DEF CmdTakesPending, CmdArms, CmdReportsTimeout, CmdTellsStop, CmdSuspended, CmdDrainsPending,
            CmdRemembers, CmdResumed, PopPending, Arm, SetRunning, FinalizeDeliveredStop, SetSuspended,
            DrainPending, RememberDiscarded, FinishDiscard
      <3>3. CASE CmdRequests \/ CmdNoPending \/ CmdSessionDead \/ CmdGetsReply \/ CmdGraceWait \/ CmdAcked
        BY <1>3, <3>3
        DEF CmdRequests, CmdNoPending, CmdSessionDead, CmdGetsReply, CmdGraceWait, CmdAcked,
            Untouched, inboxVars
      <3> QED BY <1>10, <2>1, <3>1, <3>2, <3>3 DEF CmdNext
    <2> QED BY <1>0, <1>3, <2>2, <2>3, <2>4 DEF DeadIsDead
  <1> QED BY <1>5, <1>6, <1>7, <1>8, <1>9, <1>10 DEF JdiNext

-----------------------------------------------------------------------------
(* Before the sink is registered.                                          *)

\* Commands come after the registration, and so do breakpoints and steps:
\* no stop is raised that the sink would miss.
BeforeSink ==
    ~ sinkOn => /\ cmd.pc = "idle"
                /\ toSidecar = <<>>
                /\ rpc.pc = "idle"
                /\ stepReq = NoThread
                /\ raised = <<>>
                /\ \A i \in DOMAIN vmEvents : vmEvents[i].kind \notin {"hit", "step"}

\* No command and no request precedes the registration of the sink.
LEMMA BeforeSinkStep ==
    ASSUME SessionInv, BeforeSink, [JdiNext]_jdiVars
    PROVE  BeforeSink'
  <1>0. cmd \in CmdStates /\ SidecarTypeOK
    BY DEF SessionInv, SessionTypeOK, SidecarInv
  <1> SUFFICES ASSUME ~ sinkOn' PROVE BeforeSink'
    BY DEF BeforeSink
  <1>1. CASE UNCHANGED jdiVars
    BY <1>1, NothingMoves DEF BeforeSink
  <1>2. CASE SidecarActs
    <2>1. ~ sinkOn /\ ~ TargetHitsRequest
      BY <1>2, SidecarLeaves DEF SidecarActs
    <2>2. CASE TargetNext
      <3>1. TargetExits
        BY <2>1, <2>2, SidecarAssumption DEF TargetNext, TargetSteps, BeforeSink
      <3>2. \A i \in DOMAIN vmEvents' : vmEvents'[i].kind \notin {"hit", "step"}
        <4>1. vmEvents \in Seq(VmEvents) /\ vmEvents' = Append(vmEvents, [kind |-> "vmDeath"])
          BY <1>0, <3>1 DEF SidecarTypeOK, TargetExits
        <4>2. [kind |-> "vmDeath"] \in VmEvents
          BY DEF VmEvents
        <4> QED BY <2>1, <4>1, <4>2, AppendProperties, LenProperties DEF BeforeSink
      <3> QED BY <1>2, <2>1, <2>2, <3>1, <3>2, SidecarLeaves DEF BeforeSink, TargetExits
    <2>3. CASE LoopNext
      <3>1. ~ LoopAccepts /\ (vmEvents' = vmEvents \/ (vmEvents # <<>> /\ vmEvents' = Tail(vmEvents)))
        <4>1. vmEvents \in Seq(VmEvents)
          BY <1>0 DEF SidecarTypeOK
        <4>2. vmEvents # <<>> => Head(vmEvents) = vmEvents[1] /\ 1 \in DOMAIN vmEvents
          BY <4>1, LenProperties, EmptySeq
        <4>3. ~ LoopAccepts
          BY <2>1, <4>2 DEF LoopAccepts, LoopReads, BeforeSink
        <4> QED BY <2>3, <4>3
                DEF LoopNext, LoopRejects, LoopFails, LoopVmStart, LoopVmDeath, LoopQueuesStop, LoopSends,
                    LoopReads, targetVars
      <3>2. \A i \in DOMAIN vmEvents' : vmEvents'[i].kind \notin {"hit", "step"}
        <4>1. vmEvents \in Seq(VmEvents)
          BY <1>0 DEF SidecarTypeOK
        <4> QED BY <2>1, <3>1, <4>1, HeadTailProperties, LenProperties DEF BeforeSink
      <3>3. raised' = raised
        BY <2>3, <3>1
        DEF LoopNext, LoopRejects, LoopFails, LoopVmStart, LoopVmDeath, LoopQueuesStop, LoopSends, queueVars
      <3> QED BY <1>2, <2>1, <2>3, <3>2, <3>3, SidecarLeaves DEF BeforeSink
    <2>4. ~ RpcNext
      BY <2>1, <1>0
      DEF BeforeSink, RpcNext, RpcReads, PollQueuedStopOrResume, PollStop, TimesOut, ExamineStop,
          StepBegins, StepDiscardsOther, StepDiscardedOthers, StepFails, StepFinally, AckStop, SuspendAll,
          DiscardCurrent, DiscardNext, VmResume, Terminate, TargetGone, RpcReplies, RpcAt,
          GoneWhilePolling, GoneWhileStepping, GoneWhileAcking, GoneWhileResuming
    <2> QED BY <1>2, <2>2, <2>3, <2>4 DEF SidecarActs
  <1>3. CASE ~ SidecarActs /\ JdiNext
    <2>1. UNCHANGED <<rpc, stepReq, raised, vmEvents>>
      BY <1>3, DaemonLeaves DEF JdiNext
    <2>2. ~ sinkOn /\ UNCHANGED <<toSidecar>> /\ cmd'.pc = cmd.pc
      <3>1. CASE ReaderNext
        <4>1. cmd'.pc = cmd.pc
          BY <1>0, <3>1
          DEF ReaderNext, ReaderQueuesEvent, ReaderSinksEvent, ReaderDeliversResponse, ReaderEnds, CmdStates
        <4>2. ~ sinkOn
          BY <3>1
          DEF ReaderNext, ReaderQueuesEvent, ReaderSinksEvent, ReaderDeliversResponse, ReaderEnds,
              transportVars
        <4>3. toSidecar' = toSidecar
          BY <3>1
          DEF ReaderNext, ReaderQueuesEvent, ReaderSinksEvent, ReaderDeliversResponse, ReaderEnds,
              sidecarVars
        <4> QED BY <4>1, <4>2, <4>3
      <3>2. ~ RegisterSink
        BY DEF RegisterSink
      <3>3. CASE PollerNext
        BY <3>3 DEF PollerNext, PollerDrains, PollerApplies, PollerDone, transportVars, sidecarVars
      <3>4. CASE SidecarCrashes
        BY <3>4 DEF SidecarCrashes, sessionVars, transportVars
      <3>5. ~ ClientNext
        <4>1. CmdKill => sinkOn /\ sinkOn' = sinkOn
          BY Zenon DEF CmdKill, transportVars
        <4>2. \A name : CmdIssue(name) => sinkOn /\ sinkOn' = sinkOn
          BY DEF CmdIssue
        <4> QED BY <4>1, <4>2 DEF ClientNext
      <3>6. CmdNext \/ CmdRequestTimesOut => (sinkOn => sinkOn')
        BY DEF CmdNext, CmdApplies, CmdApplied, CmdRequests, CmdTakesPending, CmdNoPending, CmdArms,
               CmdSessionDead, CmdGetsReply, CmdGraceWait, CmdReportsTimeout, CmdAcked, CmdTellsStop,
               CmdSuspended, CmdDrainsPending, CmdRemembers, CmdResumed, CmdShutsDown, CmdKilled,
               CmdRequestTimesOut, transportVars
      <3>7. ~ sinkOn => ~ CmdNext /\ ~ CmdRequestTimesOut
        BY DEF BeforeSink, CmdNext, CmdApplies, CmdApplied, CmdRequests, CmdTakesPending, CmdNoPending,
               CmdArms, CmdSessionDead, CmdGetsReply, CmdGraceWait, CmdReportsTimeout, CmdAcked,
               CmdTellsStop, CmdSuspended, CmdDrainsPending, CmdRemembers, CmdResumed, CmdShutsDown,
               CmdKilled, CmdRequestTimesOut, At
      <3>8. ~ CmdNext /\ ~ CmdRequestTimesOut
        BY <3>6, <3>7
      <3> QED BY <1>3, <3>1, <3>2, <3>3, <3>4, <3>5, <3>8, Zenon DEF JdiNext
    <2> QED BY <2>1, <2>2 DEF BeforeSink
  <1> QED BY <1>1, <1>2, <1>3

-----------------------------------------------------------------------------
(* The exit comes last.                                                    *)

StopEvent(m)   == m.type = "event" /\ m.event \in StopIds
CarriesExit(m) == IF m.type = "event" THEN m.event = VmExit ELSE m.result.stop = VmExit
LoopDone       == loop.pc = "ended" \/ loop.stop = VmExit

\* Some place of the daemon knows of the exit.
ExitTold ==
    \/ VmExit \in ToSet(events) \cup {sunk, cmd.stop, cmd.reply.stop}
    \/ \E w \in Workers : VmExit \in ToSet(batch[w])
    \/ state = "Exited"

\* Wherever the exit has got to, the event loop is done, and every event of
\* a stop has left the wire before it.
ExitLast ==
    /\ loop.pc \in {"idle", "ended"} => loop.stop = NoEvent
    /\ VmExit \in ToSet(stops) \cup {rpc.stop, rpc.result.stop} => LoopDone
    /\ \A i \in DOMAIN toDaemon : CarriesExit(toDaemon[i]) =>
         /\ LoopDone
         /\ \A j \in DOMAIN toDaemon : i < j => ~ StopEvent(toDaemon[j])
    /\ ExitTold => /\ LoopDone
                   /\ \A j \in DOMAIN toDaemon : ~ StopEvent(toDaemon[j])
                   /\ sunk \notin StopIds

\* The event loop sends the exit last and then ends.
LEMMA LoopMoves ==
    ASSUME SidecarInv, LoopNext, loop.pc \in {"idle", "ended"} => loop.stop = NoEvent
    PROVE  /\ loop'.pc \in {"idle", "ended"} => loop'.stop = NoEvent
           /\ LoopDone => LoopDone'
           /\ VmExit \in ToSet(stops') => VmExit \in ToSet(stops) \/ LoopDone'
           /\ \/ UNCHANGED toDaemon
              \/ /\ toDaemon' = Append(toDaemon, [type |-> "event", event |-> loop.stop])
                 /\ loop.stop \in SidecarEvents
                 /\ LoopDone => loop.stop = VmExit
                 /\ loop.stop = VmExit => LoopDone'
  <1>0. SidecarTypeOK /\ loop \in LoopStates /\ stops \in Seq(SidecarEvents) /\ raised \in Seq(Hits)
    BY DEF SidecarInv, SidecarTypeOK
  <1>1. CASE LoopAccepts
    <2>1. loop.pc = "idle" /\ loop.stop # VmExit /\ loop'.pc = "queue"
      BY <1>1, EventsDistinct DEF LoopAccepts, LoopReads
    <2> QED BY <1>1, <2>1 DEF LoopAccepts, LoopDone
  <1>2. CASE LoopRejects
    BY <1>2 DEF LoopRejects, LoopReads, LoopDone, queueVars
  <1>3. CASE LoopFails
    <2>1. loop.pc = "idle" /\ loop.stop # VmExit /\ loop'.stop = NoEvent
      BY <1>3, EventsDistinct DEF LoopFails, LoopReads, LoopIdle
    <2> QED BY <1>3, <2>1 DEF LoopFails, LoopDone, queueVars
  <1>4. CASE LoopQueuesStop
    <2>1. loop'.pc = "send" /\ loop'.stop = loop.stop /\ loop.pc = "queue"
      BY <1>0, <1>4 DEF LoopQueuesStop, LoopStates
    <2>2. loop.stop \in SidecarEvents
      BY <1>0, <2>1 DEF SidecarInv, Known
    <2>3. ToSet(stops') = ToSet(stops) \cup {loop.stop}
      BY <1>0, <1>4, <2>2, Appended DEF LoopQueuesStop
    <2> QED BY <1>4, <2>1, <2>3 DEF LoopQueuesStop, LoopDone
  <1>5. CASE LoopVmStart
    <2>1. loop.pc = "idle" /\ loop.stop # VmExit /\ loop'.pc = "send"
      BY <1>5, EventsDistinct DEF LoopVmStart, LoopReads
    <2>2. ToSet(stops') = ToSet(stops) \cup {VmStart}
      <3>1. VmStart \in SidecarEvents
        BY DEF SidecarEvents
      <3> QED BY <1>0, <1>5, <3>1, Appended DEF LoopVmStart
    <2> QED BY <1>5, <2>1, <2>2, EventsDistinct DEF LoopVmStart, LoopDone
  <1>6. CASE LoopVmDeath
    <2>1. loop'.pc = "send" /\ loop'.stop = VmExit
      BY <1>6 DEF LoopVmDeath
    <2> QED BY <1>6, <2>1 DEF LoopVmDeath, LoopDone
  <1>7. CASE LoopSends
    <2>1. loop.pc = "send" /\ loop.stop \in SidecarEvents
      BY <1>0, <1>7 DEF LoopSends, SidecarInv, Known
    <2>2. \/ loop.stop = VmExit /\ loop'.pc = "ended" /\ loop'.stop = NoEvent
          \/ loop.stop # VmExit /\ loop'.pc = "idle" /\ loop'.stop = NoEvent
      BY <1>7, Zenon DEF LoopSends, LoopIdle
    <2>3. stops' = stops /\ toDaemon' = Append(toDaemon, [type |-> "event", event |-> loop.stop])
      BY <1>7 DEF LoopSends, queueVars
    <2> QED BY <2>1, <2>2, <2>3 DEF LoopDone
  <1> QED BY <1>1, <1>2, <1>3, <1>4, <1>5, <1>6, <1>7 DEF LoopNext

\* A message is sent after the exit only if it is no event of a stop.
LEMMA ExitLastOnWire ==
    ASSUME SidecarTypeOK, ExitLast, NEW m \in Messages,
           toDaemon' = Append(toDaemon, m),
           LoopDone => LoopDone',
           CarriesExit(m) => LoopDone',
           LoopDone => ~ StopEvent(m),
           ExitTold' => ExitTold, sunk' = sunk
    PROVE  /\ \A i \in DOMAIN toDaemon' : CarriesExit(toDaemon'[i]) =>
                /\ LoopDone'
                /\ \A j \in DOMAIN toDaemon' : i < j => ~ StopEvent(toDaemon'[j])
           /\ ExitTold' => /\ LoopDone'
                           /\ \A j \in DOMAIN toDaemon' : ~ StopEvent(toDaemon'[j])
                           /\ sunk' \notin StopIds
  <1>1. toDaemon \in Seq(Messages)
    BY DEF SidecarTypeOK
  <1>2. /\ DOMAIN toDaemon = 1 .. Len(toDaemon) /\ Len(toDaemon) \in Nat
        /\ DOMAIN toDaemon' = 1 .. (Len(toDaemon) + 1)
        /\ \A i \in 1 .. Len(toDaemon) : toDaemon'[i] = toDaemon[i]
        /\ toDaemon'[Len(toDaemon) + 1] = m
    BY <1>1, Appended
  <1>3. ASSUME NEW i \in DOMAIN toDaemon', CarriesExit(toDaemon'[i])
        PROVE  /\ LoopDone'
               /\ \A j \in DOMAIN toDaemon' : i < j => ~ StopEvent(toDaemon'[j])
    <2>1. CASE i = Len(toDaemon) + 1
      BY <1>2, <1>3, <2>1
    <2>2. CASE i \in 1 .. Len(toDaemon)
      <3>1. LoopDone /\ \A j \in DOMAIN toDaemon : i < j => ~ StopEvent(toDaemon[j])
        BY <1>2, <1>3, <2>2 DEF ExitLast
      <3>2. ~ StopEvent(m)
        BY <3>1
      <3>3. \A j \in 1 .. (Len(toDaemon) + 1) : j \in 1 .. Len(toDaemon) \/ j = Len(toDaemon) + 1
        BY <1>2
      <3> QED BY <1>2, <3>1, <3>2, <3>3
    <2> QED BY <1>2, <2>1, <2>2
  <1>4. ASSUME ExitTold'
        PROVE  /\ LoopDone'
               /\ \A j \in DOMAIN toDaemon' : ~ StopEvent(toDaemon'[j])
               /\ sunk' \notin StopIds
    <2>1. LoopDone /\ sunk \notin StopIds /\ \A j \in DOMAIN toDaemon : ~ StopEvent(toDaemon[j])
      BY <1>4 DEF ExitLast
    <2>2. ~ StopEvent(m)
      BY <2>1
    <2>3. \A j \in 1 .. (Len(toDaemon) + 1) : j \in 1 .. Len(toDaemon) \/ j = Len(toDaemon) + 1
      BY <1>2
    <2> QED BY <1>2, <2>1, <2>2, <2>3
  <1> QED BY <1>3, <1>4

\* The sidecar keeps the exit last.
LEMMA ExitLastSidecar ==
    ASSUME SessionInv, ExitLast, SidecarActs
    PROVE  ExitLast'
  <1>0. SidecarTypeOK /\ SidecarInv /\ sunk \in SidecarEvents \cup {NoEvent}
    BY DEF SessionInv, SessionTypeOK, SidecarInv
  <1>1. UNCHANGED <<state, events, sunk, cmd, batch>>
    BY SidecarLeaves
  <1>2. ExitTold' <=> ExitTold
    BY <1>1 DEF ExitTold
  <1>3. CASE TargetNext
    <2>1. UNCHANGED <<stops, loop, rpc, toDaemon>>
      BY <1>3, SidecarLeaves
    <2> QED BY <1>1, <1>2, <2>1 DEF ExitLast, LoopDone
  <1>4. CASE LoopNext
    <2>1. rpc' = rpc
      BY <1>4, SidecarLeaves
    <2>2. /\ loop'.pc \in {"idle", "ended"} => loop'.stop = NoEvent
          /\ LoopDone => LoopDone'
          /\ VmExit \in ToSet(stops') => VmExit \in ToSet(stops) \/ LoopDone'
          /\ \/ UNCHANGED toDaemon
             \/ /\ toDaemon' = Append(toDaemon, [type |-> "event", event |-> loop.stop])
                /\ loop.stop \in SidecarEvents
                /\ LoopDone => loop.stop = VmExit
                /\ loop.stop = VmExit => LoopDone'
      BY <1>0, <1>4, LoopMoves DEF ExitLast
    <2>3. CASE UNCHANGED toDaemon
      BY <1>1, <1>2, <2>1, <2>2, <2>3 DEF ExitLast
    <2>4. CASE toDaemon' # toDaemon
      <3> DEFINE m == [type |-> "event", event |-> loop.stop]
      <3>1. m \in Messages
        BY <2>2, <2>4 DEF Messages
      <3>2. CarriesExit(m) => LoopDone'
        BY <2>2, <2>4 DEF CarriesExit
      <3>3. LoopDone => ~ StopEvent(m)
        BY <2>2, <2>4, EventsDistinct DEF StopEvent
      <3>4. toDaemon' = Append(toDaemon, m)
        BY <2>2, <2>4
      <3> HIDE DEF m
      <3>5. /\ \A i \in DOMAIN toDaemon' : CarriesExit(toDaemon'[i]) =>
                 /\ LoopDone'
                 /\ \A j \in DOMAIN toDaemon' : i < j => ~ StopEvent(toDaemon'[j])
            /\ ExitTold' => /\ LoopDone'
                            /\ \A j \in DOMAIN toDaemon' : ~ StopEvent(toDaemon'[j])
                            /\ sunk' \notin StopIds
        BY <1>0, <1>1, <1>2, <2>2, <3>1, <3>2, <3>3, <3>4, ExitLastOnWire
      <3> QED BY <2>1, <2>2, <3>5 DEF ExitLast
    <2> QED BY <2>3, <2>4
  <1>5. CASE RpcNext
    <2>1. loop' = loop /\ (LoopDone' <=> LoopDone)
      BY <1>5, SidecarLeaves DEF LoopDone
    <2>2. /\ ToSet(stops') \subseteq ToSet(stops)
          /\ rpc'.stop \in {rpc.stop, NoEvent, current} \cup ToSet(stops) \cup StopIds
          /\ rpc'.result.stop \in {rpc.result.stop, NoEvent, rpc.stop}
          /\ UNCHANGED toDaemon \/ RpcReplies
      BY <1>0, <1>5, RpcMoves
    <2>3. VmExit \in ToSet(stops') \cup {rpc'.stop, rpc'.result.stop} => LoopDone'
      <3>1. VmExit # NoEvent /\ VmExit # current /\ VmExit \notin StopIds
        BY <1>0, EventsDistinct DEF SidecarTypeOK
      <3> QED BY <2>1, <2>2, <3>1 DEF ExitLast
    <2>4. CASE UNCHANGED toDaemon
      BY <1>1, <1>2, <2>1, <2>3, <2>4 DEF ExitLast
    <2>5. CASE RpcReplies
      <3> DEFINE m == [type |-> "response", id |-> rpc.id, result |-> rpc.result]
      <3>1. m \in Messages /\ toDaemon' = Append(toDaemon, m)
        BY <1>0, <2>5 DEF Messages, RpcReplies, SidecarTypeOK, RpcStates
      <3>2. CarriesExit(m) => LoopDone'
        BY <2>1 DEF CarriesExit, ExitLast
      <3>3. ~ StopEvent(m)
        BY DEF StopEvent
      <3> HIDE DEF m
      <3>5. /\ \A i \in DOMAIN toDaemon' : CarriesExit(toDaemon'[i]) =>
                 /\ LoopDone'
                 /\ \A j \in DOMAIN toDaemon' : i < j => ~ StopEvent(toDaemon'[j])
            /\ ExitTold' => /\ LoopDone'
                            /\ \A j \in DOMAIN toDaemon' : ~ StopEvent(toDaemon'[j])
                            /\ sunk' \notin StopIds
        BY <1>0, <1>1, <1>2, <2>1, <3>1, <3>2, <3>3, ExitLastOnWire
      <3> QED BY <2>1, <2>3, <3>5 DEF ExitLast
    <2> QED BY <2>2, <2>4, <2>5
  <1> QED BY <1>3, <1>4, <1>5 DEF SidecarActs

\* A step of the command thread puts no stop into the command but the head
\* of the pending ones and the one its reply names.
LEMMA CmdStopMoves ==
    ASSUME SessionTypeOK, InboxTypeOK, CmdNext
    PROVE  /\ cmd'.stop \in {cmd.stop, cmd.reply.stop, NoEvent} \cup StopIds
           /\ cmd'.reply.stop \in {cmd.reply.stop, NoEvent}
  <1>0. cmd \in CmdStates /\ pendingStops \in Seq(StopIds)
    BY DEF SessionTypeOK, InboxTypeOK
  <1>1. CASE CmdTakesPending
    <2>1. Head(pendingStops) \in StopIds
      BY <1>0, <1>1, TailSeq DEF CmdTakesPending, PopPending
    <2>2. \/ cmd' = [cmd EXCEPT !.pc = "acking", !.id = requestId + 1, !.reply = NoReply, !.stop = Head(pendingStops)]
          \/ cmd' = [cmd EXCEPT !.pc = "acking", !.id = 0, !.reply = RpcError, !.stop = Head(pendingStops)]
      BY <1>1, Zenon DEF CmdTakesPending, Sends
    <2>3. cmd'.stop = Head(pendingStops) /\ cmd'.reply \in {NoReply, RpcError}
      BY <1>0, <2>2 DEF CmdStates
    <2> QED BY <2>1, <2>3 DEF NoReply, RpcError
  <1>2. CASE CmdRequests \/ CmdArms
    <2>1. \E n : \/ cmd' = [cmd EXCEPT !.pc = "await", !.id = n, !.reply = NoReply, !.stop = NoEvent]
                 \/ cmd' = [cmd EXCEPT !.pc = "await", !.id = n, !.reply = RpcError, !.stop = NoEvent]
      <3>1. \/ cmd' = [cmd EXCEPT !.pc = "await", !.id = requestId + 1, !.reply = NoReply, !.stop = NoEvent]
            \/ cmd' = [cmd EXCEPT !.pc = "await", !.id = 0, !.reply = RpcError, !.stop = NoEvent]
        BY <1>2, Zenon DEF CmdRequests, CmdArms, Sends
      <3> QED BY <3>1
    <2>2. cmd'.stop = NoEvent /\ cmd'.reply \in {NoReply, RpcError}
      BY <1>0, <2>1 DEF CmdStates
    <2> QED BY <2>2 DEF NoReply, RpcError
  <1>3. CASE CmdGetsReply
    <2>1. \/ cmd' = CmdIdle
          \/ \E pc : cmd' = [cmd EXCEPT !.pc = pc, !.stop = cmd.reply.stop, !.ids = cmd.reply.ids, !.reply = NoReply]
      BY <1>3, Zenon DEF CmdGetsReply
    <2>2. \/ cmd' = CmdIdle
          \/ cmd'.stop = cmd.reply.stop /\ cmd'.reply = NoReply
      BY <1>0, <2>1 DEF CmdStates
    <2> QED BY <2>2 DEF NoReply, CmdIdle
  <1>4. CASE CmdApplies \/ CmdApplied \/ CmdNoPending \/ CmdGraceWait \/ CmdShutsDown
    <2>1. cmd'.stop = cmd.stop /\ cmd'.reply = cmd.reply
      BY <1>0, <1>4 DEF CmdApplies, CmdApplied, CmdNoPending, CmdGraceWait, CmdShutsDown, Goto, CmdStates
    <2> QED BY <2>1
  <1>5. CASE CmdAcked \/ CmdDrainsPending \/ CmdRemembers
    <2>1. cmd'.stop = cmd.stop /\ cmd'.reply \in {cmd.reply, NoReply}
      BY <1>0, <1>5 DEF CmdAcked, CmdDrainsPending, CmdRemembers, CmdStates
    <2> QED BY <2>1 DEF NoReply
  <1>6. CASE CmdSessionDead \/ CmdReportsTimeout \/ CmdTellsStop \/ CmdSuspended \/ CmdResumed \/ CmdKilled
    <2>1. cmd' = CmdIdle
      BY <1>6 DEF CmdSessionDead, CmdReportsTimeout, CmdTellsStop, CmdSuspended, CmdResumed, CmdKilled, Finishes
    <2> QED BY <2>1 DEF CmdIdle, NoReply
  <1> QED BY <1>1, <1>2, <1>3, <1>4, <1>5, <1>6 DEF CmdNext

\* Draining the queue moves its events to the worker's batch; applying one
\* of them makes the session Exited only if it is the exit.
LEMMA DrainsMoves ==
    ASSUME SessionTypeOK, NEW w \in Workers, Drains(w)
    PROVE  /\ VmExit \notin ToSet(events')
           /\ \A v \in Workers : ToSet(batch'[v]) \subseteq ToSet(batch[v]) \cup ToSet(events)
           /\ \A v \in Workers : v # w => batch'[v] = batch[v]
           /\ batch'[w] = events
  BY DEF Drains, SessionTypeOK, ToSet

LEMMA AppliesMoves ==
    ASSUME SessionTypeOK, NEW w \in Workers, AppliesOne(w)
    PROVE  /\ \A v \in Workers : ToSet(batch'[v]) \subseteq ToSet(batch[v])
           /\ Head(batch[w]) \in ToSet(batch[w])
           /\ state' = "Exited" => state = "Exited" \/ Head(batch[w]) = VmExit
  <1>1. batch \in [Workers -> Seq(SidecarEvents)] /\ batch[w] \in Seq(SidecarEvents) /\ batch[w] # <<>>
    BY DEF SessionTypeOK, AppliesOne
  <1>2. ToSet(Tail(batch[w])) \subseteq ToSet(batch[w]) /\ Head(batch[w]) \in ToSet(batch[w])
    BY <1>1, Tailed
  <1>3. \A v \in Workers : batch'[v] = IF v = w THEN Tail(batch[w]) ELSE batch[v]
    BY <1>1 DEF AppliesOne
  <1>4. state' = "Exited" => state = "Exited" \/ Head(batch[w]) = VmExit
    BY DEF AppliesOne, ApplySidecarEvent, ApplyStop, inboxVars
  <1> QED BY <1>2, <1>3, <1>4

\* No step of the daemon but the reader's receiving brings news of the exit.
LEMMA ExitNotInvented ==
    ASSUME SessionInv, InboxTypeOK,
           \/ ReaderSinksEvent \/ ReaderEnds \/ RegisterSink \/ PollerNext \/ ClientNext \/ CmdNext
           \/ CmdRequestTimesOut \/ SidecarCrashes
    PROVE  /\ ExitTold' => ExitTold
           /\ sunk' \in {sunk, NoEvent}
           /\ toDaemon' = toDaemon
  <1>0. /\ SessionTypeOK /\ cmd \in CmdStates /\ events \in Seq(SidecarEvents)
        /\ "poller" \in Workers /\ "command" \in Workers
    BY DEF SessionInv, SessionTypeOK, Workers
  <1>1. CmdIdle.stop = NoEvent /\ NoReply.stop = NoEvent /\ RpcError.stop = NoEvent /\ CmdIdle.reply = NoReply
        /\ VmExit # NoEvent /\ VmExit \notin StopIds
    BY EventsDistinct DEF CmdIdle, NoReply, RpcError
  <1>2. CASE ReaderSinksEvent
    <2>1. state' = "Exited" => state = "Exited" \/ sunk = VmExit
      BY <1>2 DEF ReaderSinksEvent, ApplySidecarEvent, ApplyStop, Untouched, inboxVars
    <2>2. UNCHANGED <<events, batch, cmd, toDaemon>> /\ sunk' = NoEvent
      BY <1>2 DEF ReaderSinksEvent, sidecarVars, pollVars
    <2> QED BY <1>1, <2>1, <2>2 DEF ExitTold
  <1>3. CASE ReaderEnds \/ CmdRequestTimesOut
    <2>1. UNCHANGED <<events, sunk, batch, state, toDaemon>>
      BY <1>3 DEF ReaderEnds, CmdRequestTimesOut, sidecarVars, transportVars, pollVars, Untouched, inboxVars
    <2>2. cmd' = cmd \/ cmd' = [cmd EXCEPT !.reply = RpcError, !.id = 0]
      BY <1>3, Zenon DEF ReaderEnds, CmdRequestTimesOut
    <2>3. cmd'.stop = cmd.stop /\ cmd'.reply \in {cmd.reply, RpcError}
      BY <1>0, <2>2 DEF CmdStates
    <2> QED BY <1>1, <2>1, <2>3 DEF ExitTold
  <1>4. CASE RegisterSink \/ SidecarCrashes
    BY <1>4
    DEF ExitTold, RegisterSink, SidecarCrashes, sidecarVars, sessionVars, transportVars, pollVars, Untouched, inboxVars
  <1>5. CASE PollerNext
    <2>1. UNCHANGED <<sunk, cmd, toDaemon>>
      BY <1>5 DEF PollerNext, PollerDrains, PollerApplies, PollerDone, sidecarVars, transportVars
    <2>2. CASE PollerDrains
      <3>1. Drains("poller") /\ state' = state
        BY <2>2 DEF PollerDrains, Untouched, inboxVars
      <3> QED BY <1>0, <2>1, <3>1, DrainsMoves DEF ExitTold
    <2>3. CASE PollerApplies
      <3>1. AppliesOne("poller") /\ events' = events
        BY <2>3 DEF PollerApplies, transportVars
      <3> QED BY <1>0, <2>1, <3>1, AppliesMoves DEF ExitTold
    <2>4. CASE PollerDone
      <3>1. UNCHANGED <<events, batch>> /\ (state' = "Exited" => state = "Exited")
        BY <2>4 DEF PollerDone, AppliedAll, MarkDead, Untouched, inboxVars, transportVars
      <3> QED BY <2>1, <3>1 DEF ExitTold
    <2> QED BY <1>5, <2>2, <2>3, <2>4, <2>1 DEF PollerNext
  <1>6. CASE ClientNext
    <2>1. UNCHANGED <<state, sunk, toDaemon>>
      <3>1. CmdKill => UNCHANGED <<inboxVars, transportVars, toDaemon>>
        BY Zenon DEF CmdKill, Untouched
      <3>2. \A name : CmdIssue(name) => UNCHANGED <<inboxVars, sunk, sidecarVars>>
        BY DEF CmdIssue, Untouched
      <3> QED BY <1>6, <3>1, <3>2 DEF ClientNext, inboxVars, transportVars, sidecarVars
    <2>2. cmd'.stop = NoEvent /\ cmd'.reply \in {NoReply, RpcError}
      BY <1>6 DEF ClientNext, CmdIssue, CmdKill, CmdIdle
    <2>3. UNCHANGED <<events, batch>> \/ Drains("command")
      <3>1. CmdKill => UNCHANGED <<transportVars, pollVars>>
        BY Zenon DEF CmdKill
      <3> QED BY <1>6, <3>1 DEF ClientNext, CmdIssue, transportVars, pollVars
    <2> QED BY <1>0, <1>1, <2>1, <2>2, <2>3, DrainsMoves DEF ExitTold
  <1>7. CASE CmdNext
    <2>1. UNCHANGED <<sunk, toDaemon>>
      BY <1>7
      DEF CmdNext, CmdApplies, CmdApplied, CmdRequests, CmdTakesPending, CmdNoPending, CmdArms,
          CmdSessionDead, CmdGetsReply, CmdGraceWait, CmdReportsTimeout, CmdAcked, CmdTellsStop,
          CmdSuspended, CmdDrainsPending, CmdRemembers, CmdResumed, CmdShutsDown, CmdKilled,
          transportVars, sidecarVars, Sends
    <2>2. /\ cmd'.stop \in {cmd.stop, cmd.reply.stop, NoEvent} \cup StopIds
          /\ cmd'.reply.stop \in {cmd.reply.stop, NoEvent}
      BY <1>0, <1>7, CmdStopMoves
    <2>3. CASE CmdApplies
      <3>1. AppliesOne("command") /\ events' = events
        BY <2>3 DEF CmdApplies, transportVars
      <3> QED BY <1>0, <1>1, <2>1, <2>2, <3>1, AppliesMoves DEF ExitTold
    <2>4. CASE CmdGraceWait
      <3>1. Drains("command") /\ state' = state
        BY <2>4 DEF CmdGraceWait, Untouched, inboxVars
      <3> QED BY <1>0, <1>1, <2>1, <2>2, <3>1, DrainsMoves DEF ExitTold
    <2>5. CASE ~ CmdApplies /\ ~ CmdGraceWait
      <3>1. UNCHANGED <<events, batch>>
        BY <1>7, <2>5
        DEF CmdNext, CmdApplied, CmdRequests, CmdTakesPending, CmdNoPending, CmdArms,
            CmdSessionDead, CmdGetsReply, CmdReportsTimeout, CmdAcked, CmdTellsStop,
            CmdSuspended, CmdDrainsPending, CmdRemembers, CmdResumed, CmdShutsDown, CmdKilled,
            transportVars, pollVars
      <3>2. state' = "Exited" => state = "Exited" \/ cmd.stop = VmExit
        <4>1. CASE CmdApplied
          BY <4>1 DEF CmdApplied, AppliedAll, MarkDead, Untouched, inboxVars
        <4>2. CASE CmdTellsStop
          BY <4>2 DEF CmdTellsStop, FinalizeDeliveredStop
        <4>3. CASE \/ CmdTakesPending \/ CmdArms \/ CmdReportsTimeout \/ CmdSuspended
                   \/ CmdDrainsPending \/ CmdRemembers \/ CmdResumed \/ CmdKilled
          BY <4>3
          DEF CmdTakesPending, CmdArms, CmdReportsTimeout, CmdSuspended, CmdDrainsPending,
              CmdRemembers, CmdResumed, CmdKilled, PopPending, Arm, SetRunning, SetSuspended,
              DrainPending, RememberDiscarded, FinishDiscard, SetDead
        <4>4. CASE CmdRequests \/ CmdNoPending \/ CmdSessionDead \/ CmdGetsReply \/ CmdAcked \/ CmdShutsDown
          BY <4>4 DEF CmdRequests, CmdNoPending, CmdSessionDead, CmdGetsReply, CmdAcked, CmdShutsDown,
                      Untouched, inboxVars
        <4> QED BY <1>7, <2>5, <4>1, <4>2, <4>3, <4>4 DEF CmdNext
      <3> QED BY <1>1, <2>1, <2>2, <3>1, <3>2 DEF ExitTold
    <2> QED BY <2>3, <2>4, <2>5
  <1> QED BY <1>2, <1>3, <1>4, <1>5, <1>6, <1>7

\* The reader takes the first message off the wire.
LEMMA ExitLastReader ==
    ASSUME SessionInv, ExitLast, ReaderQueuesEvent \/ ReaderDeliversResponse
    PROVE  ExitLast'
  <1>0. /\ SessionTypeOK /\ cmd \in CmdStates /\ events \in Seq(SidecarEvents)
        /\ toDaemon \in Seq(Messages) /\ toDaemon # <<>>
    BY DEF SessionInv, SessionTypeOK, SidecarInv, SidecarTypeOK, ReaderQueuesEvent, ReaderDeliversResponse
  <1>1. UNCHANGED <<stops, loop, rpc>>
    BY DaemonLeaves DEF ReaderNext
  <1>2. toDaemon' = Tail(toDaemon) /\ UNCHANGED <<batch, state>>
    BY DEF ReaderQueuesEvent, ReaderDeliversResponse, Untouched, inboxVars, pollVars
  <1>3. /\ DOMAIN toDaemon = 1 .. Len(toDaemon) /\ Len(toDaemon) \in Nat /\ Len(toDaemon) >= 1
        /\ DOMAIN toDaemon' = 1 .. (Len(toDaemon) - 1)
        /\ \A i \in 1 .. (Len(toDaemon) - 1) : toDaemon'[i] = toDaemon[i + 1]
        /\ Head(toDaemon) = toDaemon[1] /\ toDaemon[1] \in Messages
    BY <1>0, <1>2, Tailed
  <1>4. \A i \in DOMAIN toDaemon' : i + 1 \in DOMAIN toDaemon /\ toDaemon'[i] = toDaemon[i + 1]
                                     /\ i + 1 > 1
    BY <1>3
  <1>5. \A i \in DOMAIN toDaemon' : CarriesExit(toDaemon'[i]) =>
          /\ LoopDone
          /\ \A j \in DOMAIN toDaemon' : i < j => ~ StopEvent(toDaemon'[j])
    <2> SUFFICES ASSUME NEW i \in DOMAIN toDaemon', CarriesExit(toDaemon'[i])
                 PROVE  LoopDone /\ \A j \in DOMAIN toDaemon' : i < j => ~ StopEvent(toDaemon'[j])
      OBVIOUS
    <2>1. LoopDone /\ \A j \in DOMAIN toDaemon : i + 1 < j => ~ StopEvent(toDaemon[j])
      BY <1>4 DEF ExitLast
    <2>2. \A j \in DOMAIN toDaemon' : i < j => i + 1 < j + 1
      BY <1>3
    <2> QED BY <1>4, <2>1, <2>2
  <1>6. ASSUME CarriesExit(Head(toDaemon)) \/ ExitTold
        PROVE  LoopDone /\ \A j \in DOMAIN toDaemon' : ~ StopEvent(toDaemon'[j])
    <2>1. CASE ExitTold
      BY <1>4, <2>1 DEF ExitLast
    <2>2. CASE CarriesExit(Head(toDaemon))
      <3>1. 1 \in DOMAIN toDaemon /\ CarriesExit(toDaemon[1])
        BY <1>3, <2>2
      <3>2. LoopDone /\ \A j \in DOMAIN toDaemon : 1 < j => ~ StopEvent(toDaemon[j])
        BY <3>1 DEF ExitLast
      <3>3. \A j \in DOMAIN toDaemon' : 1 < j + 1
        BY <1>3
      <3> QED BY <1>4, <3>2, <3>3
    <2> QED BY <1>6, <2>1, <2>2
  <1>7. (LoopDone' <=> LoopDone) /\ (loop'.pc \in {"idle", "ended"} => loop'.stop = NoEvent)
    BY <1>1 DEF LoopDone, ExitLast
  <1>8. VmExit \in ToSet(stops') \cup {rpc'.stop, rpc'.result.stop} => LoopDone'
    BY <1>1, <1>7 DEF ExitLast
  <1>9. ExitTold' => /\ CarriesExit(Head(toDaemon)) \/ ExitTold
                     /\ sunk' \notin StopIds
    <2>1. CASE ReaderQueuesEvent
      <3>1. /\ events' = Append(events, Head(toDaemon).event) /\ sunk' = Head(toDaemon).event
            /\ cmd' = cmd /\ Head(toDaemon).type = "event"
        BY <2>1 DEF ReaderQueuesEvent
      <3>2. Head(toDaemon).event \in SidecarEvents
        BY <1>3, <3>1 DEF Messages
      <3>3. ToSet(events') = ToSet(events) \cup {Head(toDaemon).event}
        BY <1>0, <3>1, <3>2, Appended
      <3>4. ExitTold' => CarriesExit(Head(toDaemon)) \/ ExitTold
        BY <1>2, <3>1, <3>3 DEF ExitTold, CarriesExit
      <3>5. ExitTold => ~ StopEvent(Head(toDaemon))
        BY <1>3 DEF ExitLast
      <3>6. CarriesExit(Head(toDaemon)) => Head(toDaemon).event \notin StopIds
        BY <3>1, EventsDistinct DEF CarriesExit
      <3> QED BY <3>1, <3>4, <3>5, <3>6 DEF StopEvent
    <2>2. CASE ReaderDeliversResponse
      <3>1. /\ sunk = NoEvent /\ sunk' = sunk /\ events' = events
            /\ Head(toDaemon).type = "response"
        BY <2>2 DEF ReaderDeliversResponse, transportVars
      <3>2. cmd' = cmd \/ cmd' = [cmd EXCEPT !.reply = Head(toDaemon).result, !.id = 0]
        BY <2>2, Zenon DEF ReaderDeliversResponse
      <3>3. cmd'.stop = cmd.stop /\ cmd'.reply \in {cmd.reply, Head(toDaemon).result}
        BY <1>0, <3>2 DEF CmdStates
      <3> QED BY <1>2, <3>1, <3>3, EventsDistinct DEF ExitTold, CarriesExit
    <2> QED BY <2>1, <2>2
  <1> QED BY <1>5, <1>6, <1>7, <1>8, <1>9 DEF ExitLast

\* Every step of the session keeps the exit last.
LEMMA ExitLastStep ==
    ASSUME SessionInv, InboxTypeOK, ExitLast, [JdiNext]_jdiVars
    PROVE  ExitLast'
  <1>1. CASE SidecarActs
    BY <1>1, ExitLastSidecar
  <1>2. CASE ReaderQueuesEvent \/ ReaderDeliversResponse
    BY <1>2, ExitLastReader
  <1>3. CASE UNCHANGED jdiVars
    BY <1>3, NothingMoves DEF ExitLast, LoopDone, ExitTold
  <1>4. CASE \/ ReaderSinksEvent \/ ReaderEnds \/ RegisterSink \/ PollerNext \/ ClientNext \/ CmdNext
             \/ CmdRequestTimesOut \/ SidecarCrashes
    <2>1. UNCHANGED <<stops, loop, rpc>>
      BY <1>4, DaemonLeaves DEF ReaderNext
    <2>2. (ExitTold' => ExitTold) /\ sunk' \in {sunk, NoEvent} /\ toDaemon' = toDaemon
      BY <1>4, ExitNotInvented
    <2>3. LoopDone' <=> LoopDone
      BY <2>1 DEF LoopDone
    <2> QED BY <2>1, <2>2, <2>3, EventsDistinct DEF ExitLast
  <1> QED BY <1>1, <1>2, <1>3, <1>4 DEF JdiNext, ReaderNext

-----------------------------------------------------------------------------
(* No stop is lost.                                                        *)

\* Where a stop that was raised is on the path of its event: still with the
\* event loop, on the wire, with the reader, queued, told, or told next.
InEvents(s) ==
    \/ s \in ToSet(told) \cup ToSet(pendingStops) \cup {loop.stop, sunk}
    \/ cmd.pc \in {"acking", "finalize"} /\ cmd.stop = s
    \/ [type |-> "event", event |-> s] \in ToSet(toDaemon)

\* As long as no client resumes everything, which discards stops on purpose,
\* the event of a stop is never given up, and only a told stop is ignored.
TwinKept ==
    /\ Len(raised) <= MaxStops
    /\ cmd.pc \notin {"discard", "remember"}
    /\ ToSet(deliveredIds) \subseteq ToSet(told)
    /\ alive => \A s \in 1 .. Len(raised) : InEvents(s)

\* The ids of raised stops are ids, never the absence of one.
LEMMA RaisedIds ==
    ASSUME SidecarTypeOK, TwinKept, NEW s \in 1 .. Len(raised)
    PROVE  s \in StopIds /\ s # NoEvent
  <1>1. Len(raised) \in Nat /\ Len(raised) <= MaxStops
    BY LenProperties DEF SidecarTypeOK, TwinKept
  <1> QED BY <1>1, MaxStopsAssumption, EventsDistinct DEF StopIds

\* Applying an event loses no pending stop; a stop it does not queue is
\* queued or remembered already, unless the session is over.
LEMMA AppliedKeeps ==
    ASSUME InboxTypeOK, NEW e, ApplySidecarEvent(e)
    PROVE  /\ ToSet(pendingStops) \subseteq ToSet(pendingStops')
           /\ deliveredIds' = deliveredIds
           /\ e \in StopIds /\ state \notin Over => e \in ToSet(pendingStops') \cup ToSet(deliveredIds)
  <1>1. pendingStops \in Seq(StopIds)
    BY DEF InboxTypeOK
  <1>2. CASE e = VmExit /\ ApplyVmExit
    BY <1>2, EventsDistinct DEF ApplyVmExit
  <1>3. CASE e = VmStart /\ UNCHANGED inboxVars
    BY <1>3, EventsDistinct DEF inboxVars
  <1>4. CASE e \in StopIds /\ ApplyStop(e)
    <2>1. CASE state \in Over \/ e \in ToSet(deliveredIds) \/ e \in ToSet(pendingStops)
      <3>1. UNCHANGED inboxVars
        BY <1>4, <2>1 DEF ApplyStop
      <3> QED BY <2>1, <3>1 DEF inboxVars
    <2>2. CASE ~ (state \in Over \/ e \in ToSet(deliveredIds) \/ e \in ToSet(pendingStops))
      <3>1. pendingStops' = Append(pendingStops, e) /\ deliveredIds' = deliveredIds
        BY <1>4, <2>2 DEF ApplyStop
      <3> QED BY <1>1, <1>4, <3>1, Appended
    <2> QED BY <2>1, <2>2
  <1> QED BY <1>2, <1>3, <1>4 DEF ApplySidecarEvent

\* The sidecar hands the event of a stop on to the wire.
LEMMA TwinKeptSidecar ==
    ASSUME SessionInv, ExitLast, TwinKept, SidecarActs
    PROVE  TwinKept'
  <1>0. SidecarTypeOK /\ SidecarInv /\ raised \in Seq(Hits) /\ toDaemon \in Seq(Messages)
    BY DEF SessionInv, SidecarInv, SidecarTypeOK
  <1>1. UNCHANGED <<deliveredIds, pendingStops, sunk, cmd, told, alive>>
    BY SidecarLeaves
  <1>2. ASSUME UNCHANGED <<raised, loop>>, ToSet(toDaemon) \subseteq ToSet(toDaemon')
        PROVE  TwinKept'
    BY <1>1, <1>2 DEF TwinKept, InEvents
  <1>3. CASE TargetNext
    BY <1>2, <1>3, SidecarLeaves
  <1>4. CASE RpcNext
    <2>1. ToSet(toDaemon) \subseteq ToSet(toDaemon')
      <3>1. toDaemon' = toDaemon \/ RpcReplies
        BY <1>0, <1>4, RpcMoves
      <3>2. CASE RpcReplies
        <4>1. [type |-> "response", id |-> rpc.id, result |-> rpc.result] \in Messages
          BY <1>0 DEF Messages, SidecarTypeOK, RpcStates
        <4> QED BY <1>0, <3>2, <4>1, Appended DEF RpcReplies
      <3> QED BY <3>1, <3>2
    <2> QED BY <1>2, <1>4, <2>1, SidecarLeaves
  <1>5. CASE LoopNext
    <2>0. loop \in LoopStates /\ (loop.pc \in {"idle", "ended"} => loop.stop = NoEvent)
      BY <1>0 DEF SidecarTypeOK, ExitLast
    <2>1. \A s \in 1 .. Len(raised) : s \in StopIds /\ s # NoEvent
      BY <1>0, RaisedIds
    <2>2. CASE LoopAccepts
      <3>1. loop.stop = NoEvent /\ loop'.stop = Len(raised) + 1 /\ toDaemon' = toDaemon
        BY <2>0, <2>2 DEF LoopAccepts, LoopReads
      <3>2. Len(raised') = Len(raised) + 1 /\ Len(raised) \in Nat /\ Len(raised) < MaxStops
        <4>1. PICK h : raised' = Append(raised, h) /\ h \in Hits
          <5>1. vmEvents \in Seq(VmEvents) /\ vmEvents # <<>> /\ Head(vmEvents).kind \in {"hit", "step"}
            BY <1>0, <2>2 DEF LoopAccepts, LoopReads, SidecarTypeOK
          <5>2. Head(vmEvents) \in VmEvents
            BY <5>1, TailSeq
          <5>3. Head(vmEvents).thread \in Threads /\ Head(vmEvents).policy \in {"thread", "all"}
            BY <5>1, <5>2 DEF VmEvents
          <5> QED BY <2>2, <5>3 DEF LoopAccepts, Hits
        <4> QED BY <1>0, <2>2, <4>1, AppendProperties, LenProperties DEF LoopAccepts
      <3>3. alive' => \A s \in 1 .. Len(raised') : InEvents(s)'
        <4> SUFFICES ASSUME alive', NEW s \in 1 .. Len(raised') PROVE InEvents(s)'
          OBVIOUS
        <4>1. CASE s = Len(raised) + 1
          BY <3>1, <4>1 DEF InEvents
        <4>2. CASE s \in 1 .. Len(raised)
          <5>1. InEvents(s) /\ s # loop.stop
            BY <1>1, <2>1, <3>1, <4>2 DEF TwinKept
          <5> QED BY <1>1, <3>1, <5>1 DEF InEvents
        <4> QED BY <3>2, <4>1, <4>2
      <3> QED BY <1>1, <3>2, <3>3, MaxStopsAssumption DEF TwinKept
    <2>3. CASE LoopRejects \/ LoopQueuesStop
      <3>1. raised' = raised /\ toDaemon' = toDaemon /\ loop'.stop = loop.stop
        BY <2>0, <2>3 DEF LoopRejects, LoopQueuesStop, LoopReads, LoopStates, queueVars
      <3> QED BY <1>1, <3>1 DEF TwinKept, InEvents
    <2>4. CASE LoopFails \/ LoopVmStart \/ LoopVmDeath
      <3>1. raised' = raised /\ toDaemon' = toDaemon /\ loop.stop = NoEvent
        BY <2>0, <2>4 DEF LoopFails, LoopVmStart, LoopVmDeath, LoopReads, queueVars
      <3>2. \A s \in 1 .. Len(raised) : InEvents(s) => InEvents(s)'
        BY <1>1, <2>1, <3>1 DEF InEvents
      <3> QED BY <1>1, <3>1, <3>2 DEF TwinKept
    <2>5. CASE LoopSends
      <3> DEFINE m == [type |-> "event", event |-> loop.stop]
      <3>1. raised' = raised /\ toDaemon' = Append(toDaemon, m)
        BY <2>5 DEF LoopSends, queueVars
      <3>2. m \in Messages
        <4>1. loop.stop \in SidecarEvents
          BY <1>0, <2>5 DEF LoopSends, SidecarInv, Known
        <4> QED BY <4>1 DEF Messages
      <3>3. ToSet(toDaemon') = ToSet(toDaemon) \cup {m}
        BY <1>0, <3>1, <3>2, Appended
      <3>4. \A s \in 1 .. Len(raised) : InEvents(s) => InEvents(s)'
        BY <1>1, <2>1, <3>3 DEF InEvents
      <3> QED BY <1>1, <3>1, <3>4 DEF TwinKept
    <2> QED BY <1>5, <2>2, <2>3, <2>4, <2>5 DEF LoopNext
  <1> QED BY <1>3, <1>4, <1>5 DEF SidecarActs

\* The reader hands it on to the queue, the sink to the pending stops.
LEMMA TwinKeptReader ==
    ASSUME SessionInv, InboxInv, DeadIsDead, BeforeSink, ExitLast, TwinKept, ReaderNext
    PROVE  TwinKept'
  <1>0. /\ SidecarTypeOK /\ SessionTypeOK /\ InboxTypeOK /\ cmd \in CmdStates
        /\ toDaemon \in Seq(Messages) /\ raised \in Seq(Hits)
    BY DEF SessionInv, SidecarInv, SidecarTypeOK, SessionTypeOK, InboxInv
  <1>1. UNCHANGED <<raised, loop>> /\ (alive' => alive)
    BY DaemonLeaves
  <1>2. told' = told
    BY DEF ReaderNext, ReaderQueuesEvent, ReaderSinksEvent, ReaderDeliversResponse, ReaderEnds
  <1>3. cmd'.pc = cmd.pc /\ cmd'.stop = cmd.stop
    BY <1>0
    DEF ReaderNext, ReaderQueuesEvent, ReaderSinksEvent, ReaderDeliversResponse, ReaderEnds, CmdStates
  <1>4. \A s \in 1 .. Len(raised) : s \in StopIds /\ s # NoEvent
    BY <1>0, RaisedIds
  <1> DEFINE ev(s) == [type |-> "event", event |-> s]
  <1>5. CASE ReaderQueuesEvent
    <2>1. /\ sunk = NoEvent /\ sunk' = Head(toDaemon).event /\ toDaemon' = Tail(toDaemon)
          /\ toDaemon # <<>> /\ UNCHANGED <<pendingStops, deliveredIds>>
      BY <1>5 DEF ReaderQueuesEvent, Untouched, inboxVars
    <2>2. ToSet(toDaemon) = {Head(toDaemon)} \cup ToSet(Tail(toDaemon))
      BY <1>0, <2>1, Tailed
    <2>3. \A s \in 1 .. Len(raised) : InEvents(s) => InEvents(s)'
      BY <1>1, <1>2, <1>3, <1>4, <2>1, <2>2 DEF InEvents
    <2> QED BY <1>1, <1>2, <1>3, <2>1, <2>3 DEF TwinKept
  <1>6. CASE ReaderSinksEvent
    <2>1. sunk # NoEvent /\ sunk' = NoEvent /\ toDaemon' = toDaemon
      BY <1>6 DEF ReaderSinksEvent, sidecarVars
    <2>2. CASE ~ sinkOn
      <3>1. raised = <<>> /\ deliveredIds' = deliveredIds
        BY <1>6, <2>2 DEF BeforeSink, ReaderSinksEvent, Untouched, inboxVars
      <3>2. 1 .. Len(raised) = {}
        <4>1. Len(raised) = 0
          BY <3>1, EmptySeq
        <4> QED BY <4>1
      <3> QED BY <1>1, <1>2, <1>3, <3>1, <3>2 DEF TwinKept
    <2>3. CASE sinkOn
      <3>1. ApplySidecarEvent(sunk)
        BY <1>6, <2>3 DEF ReaderSinksEvent
      <3>2. /\ ToSet(pendingStops) \subseteq ToSet(pendingStops')
            /\ deliveredIds' = deliveredIds
            /\ sunk \in StopIds /\ state \notin Over => sunk \in ToSet(pendingStops') \cup ToSet(deliveredIds)
        BY <1>0, <3>1, AppliedKeeps
      <3>3. alive /\ sunk \in StopIds => state \notin Over
        BY DEF DeadIsDead, ExitLast, ExitTold, Over
      <3>4. ToSet(deliveredIds) \subseteq ToSet(told)
        BY DEF TwinKept
      <3>5. alive => \A s \in 1 .. Len(raised) : InEvents(s) => InEvents(s)'
        BY <1>1, <1>2, <1>3, <1>4, <2>1, <3>2, <3>3, <3>4 DEF InEvents
      <3> QED BY <1>1, <1>2, <1>3, <3>2, <3>5 DEF TwinKept
    <2> QED BY <2>2, <2>3
  <1>7. CASE ReaderDeliversResponse
    <2>1. /\ toDaemon' = Tail(toDaemon) /\ toDaemon # <<>> /\ Head(toDaemon).type = "response"
          /\ UNCHANGED <<pendingStops, deliveredIds, sunk>>
      BY <1>7 DEF ReaderDeliversResponse, Untouched, inboxVars, transportVars
    <2>2. ToSet(toDaemon) = {Head(toDaemon)} \cup ToSet(Tail(toDaemon))
      BY <1>0, <2>1, Tailed
    <2>3. \A s : ev(s) # Head(toDaemon)
      BY <2>1
    <2>4. \A s \in 1 .. Len(raised) : InEvents(s) => InEvents(s)'
      BY <1>1, <1>2, <1>3, <2>1, <2>2, <2>3 DEF InEvents
    <2> QED BY <1>1, <1>2, <1>3, <2>1, <2>4 DEF TwinKept
  <1>8. CASE ReaderEnds
    <2>1. UNCHANGED <<pendingStops, deliveredIds, sunk, toDaemon>>
      BY <1>8 DEF ReaderEnds, Untouched, inboxVars, sidecarVars
    <2> QED BY <1>1, <1>2, <1>3, <2>1 DEF TwinKept, InEvents
  <1> QED BY <1>5, <1>6, <1>7, <1>8 DEF ReaderNext

\* The steps of the command thread.
LEMMA TwinKeptCmd ==
    ASSUME "resume" \notin Commands, SessionInv, InboxInv, TwinKept, CmdNext
    PROVE  TwinKept'
  <1>0. /\ SidecarTypeOK /\ SessionTypeOK /\ InboxTypeOK /\ cmd \in CmdStates
        /\ pendingStops \in Seq(StopIds) /\ told \in Seq(StopIds)
    BY DEF SessionInv, SidecarInv, SidecarTypeOK, SessionTypeOK, InboxInv, InboxTypeOK
  <1>1. UNCHANGED <<raised, loop>> /\ (alive' => alive)
    BY DaemonLeaves
  <1>2. UNCHANGED <<sunk, toDaemon>>
    BY ExitNotInvented, <1>0
    DEF CmdNext, CmdApplies, CmdApplied, CmdRequests, CmdTakesPending, CmdNoPending, CmdArms,
        CmdSessionDead, CmdGetsReply, CmdGraceWait, CmdReportsTimeout, CmdAcked, CmdTellsStop,
        CmdSuspended, CmdDrainsPending, CmdRemembers, CmdResumed, CmdShutsDown, CmdKilled,
        transportVars, sidecarVars, Sends
  <1>3. ~ CmdDrainsPending /\ ~ CmdRemembers /\ ~ CmdResumed
    BY DEF TwinKept, CmdDrainsPending, CmdRemembers, CmdResumed, At
  <1>4. cmd'.pc \notin {"discard", "remember"}
    <2>1. cmd.name # "resume"
      BY <1>0 DEF CmdStates
    <2>2. AfterReply(cmd.name, cmd.reply.kind) \notin {"discard", "remember"}
      BY <2>1 DEF AfterReply
    <2>3. CmdApplies => cmd'.pc \notin {"discard", "remember"}
      BY <1>0 DEF CmdApplies, TwinKept
    <2> QED BY <1>3, <2>2, <2>3, CmdMoves, <1>0 DEF CmdIdle
  <1> DEFINE kept == \A s \in 1 .. Len(raised) : InEvents(s) => InEvents(s)'
  <1>5. ASSUME ToSet(deliveredIds') \subseteq ToSet(told'), kept PROVE TwinKept'
    BY <1>1, <1>4, <1>5 DEF TwinKept
  <1> HIDE DEF kept
  <1>6. ToSet(deliveredIds) \subseteq ToSet(told)
    BY DEF TwinKept
  <1>7. CASE \/ CmdApplied \/ CmdRequests \/ CmdNoPending \/ CmdArms \/ CmdSessionDead
             \/ CmdGetsReply \/ CmdGraceWait \/ CmdReportsTimeout \/ CmdSuspended
             \/ CmdShutsDown \/ CmdKilled \/ CmdApplies
    <2>1. cmd.pc \notin {"acking", "finalize"} \/ CmdApplies
      BY <1>7
      DEF CmdApplied, CmdRequests, CmdNoPending, CmdArms, CmdSessionDead, CmdGetsReply,
          CmdGraceWait, CmdReportsTimeout, CmdSuspended, CmdShutsDown, CmdKilled, At
    <2>2. cmd.pc \notin {"acking", "finalize"}
      BY <2>1 DEF CmdApplies
    <2>3. told' = told
      BY <1>7
      DEF CmdApplied, CmdRequests, CmdNoPending, CmdArms, CmdSessionDead, CmdGetsReply, CmdApplies,
          CmdGraceWait, CmdReportsTimeout, CmdSuspended, CmdShutsDown, CmdKilled
    <2>4. ToSet(pendingStops) \subseteq ToSet(pendingStops') /\ deliveredIds' = deliveredIds
      <3>1. CASE CmdApplies
        BY <1>0, <3>1, AppliedKeeps DEF CmdApplies, AppliesOne
      <3>2. CASE ~ CmdApplies
        BY <1>7, <3>2
        DEF CmdApplied, CmdRequests, CmdNoPending, CmdArms, CmdSessionDead, CmdGetsReply,
            CmdGraceWait, CmdReportsTimeout, CmdSuspended, CmdShutsDown, CmdKilled,
            AppliedAll, MarkDead, Arm, SetRunning, SetSuspended, SetDead, Untouched, inboxVars
      <3> QED BY <3>1, <3>2
    <2>5. kept
      BY <1>1, <1>2, <2>2, <2>3, <2>4 DEF kept, InEvents
    <2> QED BY <1>5, <1>6, <2>3, <2>4, <2>5
  <1>8. CASE CmdAcked
    <2>1. cmd'.pc = "finalize" /\ cmd'.stop = cmd.stop /\ UNCHANGED <<told, pendingStops, deliveredIds>>
      BY <1>0, <1>8 DEF CmdAcked, CmdStates, Untouched, inboxVars
    <2>2. kept
      BY <1>1, <1>2, <2>1 DEF kept, InEvents
    <2> QED BY <1>5, <1>6, <2>1, <2>2
  <1>9. CASE CmdTakesPending
    <2>1. /\ pendingStops # <<>> /\ pendingStops' = Tail(pendingStops)
          /\ UNCHANGED <<told, deliveredIds>> /\ cmd.pc \in {"applied", "graceApplied"}
      BY <1>9 DEF CmdTakesPending, PopPending, At
    <2>2. cmd'.pc = "acking" /\ cmd'.stop = Head(pendingStops)
      <3>1. \/ cmd' = [cmd EXCEPT !.pc = "acking", !.id = requestId + 1, !.reply = NoReply, !.stop = Head(pendingStops)]
            \/ cmd' = [cmd EXCEPT !.pc = "acking", !.id = 0, !.reply = RpcError, !.stop = Head(pendingStops)]
        BY <1>9, Zenon DEF CmdTakesPending, Sends
      <3> QED BY <1>0, <3>1 DEF CmdStates
    <2>3. ToSet(pendingStops) = {Head(pendingStops)} \cup ToSet(Tail(pendingStops))
      BY <1>0, <2>1, Tailed
    <2>4. kept
      BY <1>1, <1>2, <2>1, <2>2, <2>3 DEF kept, InEvents
    <2> QED BY <1>5, <1>6, <2>1, <2>4
  <1>10. CASE CmdTellsStop
    <2>1. /\ cmd.stop \in StopIds \cup {VmExit}
          /\ pendingStops' = RemoveFirst(pendingStops, cmd.stop)
          /\ deliveredIds' = IF cmd.stop = VmExit THEN deliveredIds ELSE Remember(deliveredIds, cmd.stop)
          /\ told' = IF cmd.stop = VmExit THEN told ELSE Append(told, cmd.stop)
      BY <1>10 DEF CmdTellsStop, FinalizeDeliveredStop, StopEvents
    <2>2. ToSet(pendingStops) \subseteq ToSet(pendingStops') \cup {cmd.stop}
      BY <1>0, <2>1, FirstRemovedWithin
    <2>3. ToSet(told') = ToSet(told) \cup ({cmd.stop} \cap StopIds)
      <3>1. CASE cmd.stop = VmExit
        BY <2>1, <3>1, EventsDistinct
      <3>2. CASE cmd.stop \in StopIds
        <4>1. told' = Append(told, cmd.stop)
          BY <2>1, <3>2, EventsDistinct
        <4> QED BY <1>0, <3>2, <4>1, Appended
      <3> QED BY <2>1, <3>1, <3>2
    <2>4. ToSet(deliveredIds') \subseteq ToSet(told')
      <3>1. CASE cmd.stop = VmExit
        BY <1>6, <2>1, <2>3, <3>1
      <3>2. CASE cmd.stop \in StopIds /\ cmd.stop # VmExit
        <4>1. ToSet(deliveredIds') \subseteq ToSet(deliveredIds) \cup {cmd.stop}
          BY <1>0, <2>1, <3>2, RememberProperties
          DEF InboxInv, InboxTypeOK, DeliveredIdsBounded
        <4> QED BY <1>6, <2>3, <3>2, <4>1
      <3> QED BY <2>1, <3>1, <3>2
    <2>5. kept
      <3>1. \A s \in 1 .. Len(raised) : s \in StopIds
        BY <1>0, RaisedIds
      <3> QED BY <1>1, <1>2, <2>2, <2>3, <3>1 DEF kept, InEvents
    <2> QED BY <1>5, <2>4, <2>5
  <1> QED BY <1>3, <1>7, <1>8, <1>9, <1>10 DEF CmdNext

\* Every step of a session without resume keeps the event of a stop.
LEMMA TwinKeptStep ==
    ASSUME "resume" \notin Commands, SessionInv, InboxInv, DeadIsDead, BeforeSink, ExitLast, TwinKept,
           [JdiNext]_jdiVars
    PROVE  TwinKept'
  <1>0. /\ SidecarTypeOK /\ SessionTypeOK /\ InboxTypeOK /\ cmd \in CmdStates
    BY DEF SessionInv, SidecarInv, SessionTypeOK, InboxInv
  <1>1. CASE SidecarActs
    BY <1>1, TwinKeptSidecar
  <1>2. CASE ReaderNext
    BY <1>2, TwinKeptReader
  <1>3. CASE CmdNext
    BY <1>3, TwinKeptCmd
  <1>4. CASE UNCHANGED jdiVars
    BY <1>4, NothingMoves DEF TwinKept, InEvents
  <1>5. CASE RegisterSink \/ PollerNext \/ ClientNext \/ CmdRequestTimesOut \/ SidecarCrashes
    <2>1. UNCHANGED <<raised, loop>> /\ (alive' => alive)
      BY <1>5, DaemonLeaves
    <2>2. told' = told
      <3>1. CmdKill => told' = told
        BY Zenon DEF CmdKill
      <3> QED BY <1>5, <3>1
              DEF RegisterSink, PollerNext, PollerDrains, PollerApplies, PollerDone, ClientNext,
                  CmdIssue, CmdRequestTimesOut, SidecarCrashes, sessionVars
    <2>3. UNCHANGED <<sunk, toDaemon>>
      <3>1. CmdKill => UNCHANGED <<sunk, toDaemon>>
        BY Zenon DEF CmdKill, transportVars
      <3> QED BY <1>5, <3>1
              DEF RegisterSink, PollerNext, PollerDrains, PollerApplies, PollerDone, ClientNext,
                  CmdIssue, CmdRequestTimesOut, SidecarCrashes, sessionVars, sidecarVars, transportVars
    <2>4. ToSet(pendingStops) \subseteq ToSet(pendingStops') /\ deliveredIds' = deliveredIds
      <3>1. CASE PollerApplies
        BY <1>0, <3>1, AppliedKeeps DEF PollerApplies, AppliesOne
      <3>2. CASE ~ PollerApplies
        BY <1>5, <3>2
        DEF RegisterSink, PollerNext, PollerDrains, PollerDone, ClientNext, CmdKill,
            CmdIssue, CmdRequestTimesOut, SidecarCrashes, AppliedAll, MarkDead, Untouched, inboxVars
      <3> QED BY <3>1, <3>2
    <2>5. \/ cmd'.pc = cmd.pc /\ cmd'.stop = cmd.stop
          \/ cmd.pc = "idle" /\ cmd'.pc \in {"await", "apply", "applied"}
      <3>1. CASE RegisterSink \/ PollerNext \/ SidecarCrashes
        BY <3>1 DEF RegisterSink, PollerNext, PollerDrains, PollerApplies, PollerDone, SidecarCrashes, sessionVars
      <3>2. CASE CmdRequestTimesOut
        BY <1>0, <3>2 DEF CmdRequestTimesOut, CmdStates
      <3>3. CASE ClientNext
        BY <3>3 DEF ClientNext, CmdKill, CmdIssue, CmdIdle, At
      <3> QED BY <1>5, <3>1, <3>2, <3>3
    <2>6. cmd'.pc \notin {"discard", "remember"}
      BY <2>5 DEF TwinKept
    <2>7. \A s \in 1 .. Len(raised) : InEvents(s) => InEvents(s)'
      BY <2>1, <2>2, <2>3, <2>4, <2>5 DEF InEvents
    <2> QED BY <2>1, <2>2, <2>4, <2>6, <2>7 DEF TwinKept
  <1> QED BY <1>1, <1>2, <1>3, <1>4, <1>5 DEF JdiNext

\* All of it holds at the start of a session.
LEMMA AccountsInit == JdiInit => DeadIsDead /\ BeforeSink /\ ExitLast /\ TwinKept
  <1> SUFFICES ASSUME JdiInit PROVE DeadIsDead /\ BeforeSink /\ ExitLast /\ TwinKept
    OBVIOUS
  <1>1. /\ state \in {"Loaded", "Running"} /\ cmd = CmdIdle /\ requestId = 0
        /\ events = <<>> /\ sunk = NoEvent /\ told = <<>>
        /\ deliveredIds = <<>> /\ pendingStops = <<>>
    BY DEF JdiInit, InboxInit
  <1>2. \A w \in Workers : sawAlive[w] /\ batch[w] = <<>>
    BY DEF JdiInit
  <1>3. /\ stepReq = NoThread /\ raised = <<>> /\ stops = <<>> /\ loop = LoopIdle /\ rpc = RpcIdle
        /\ toSidecar = <<>> /\ toDaemon = <<>>
        /\ vmEvents = <<>> \/ vmEvents = <<[kind |-> "vmStart"]>>
    BY DEF JdiInit, SidecarInit
  <1>4. ToSet(<<>>) = {} /\ Len(<<>>) = 0 /\ DOMAIN <<>> = {}
    BY EmptySeq DEF ToSet
  <1>5. DeadIsDead
    BY <1>1, <1>2 DEF DeadIsDead, CmdIdle
  <1>6. BeforeSink
    BY <1>1, <1>3, <1>4 DEF BeforeSink, CmdIdle, RpcIdle
  <1>7. ExitLast
    BY <1>1, <1>2, <1>3, <1>4, EventsDistinct
    DEF ExitLast, LoopIdle, RpcIdle, RpcError, ExitTold, CmdIdle, NoReply
  <1>8. TwinKept
    BY <1>1, <1>3, <1>4, MaxStopsAssumption DEF TwinKept, CmdIdle
  <1> QED BY <1>5, <1>6, <1>7, <1>8

\* While session and sidecar live a stop that was raised is told, taken back
\* by the sidecar or somewhere on its way, whatever requests time out and
\* however the threads interleave: nothing but a resume of everything, which
\* discards the waiting stops on purpose, ends the life of an untold stop.
THEOREM StopAccountedHolds == "resume" \notin Commands => (JdiSafety => []StopAccounted)
  <1> SUFFICES ASSUME "resume" \notin Commands PROVE JdiSafety => []StopAccounted
    OBVIOUS
  <1>1. InboxTypeOK /\ SessionInv /\ [JdiNext]_jdiVars => SessionInv'
    BY SessionInvStep
  <1>2. JdiSafety => []InboxInv
    BY SessionImplementsInbox, InboxInvariant, PTL
  <1>3. InboxInv => InboxTypeOK
    BY DEF InboxInv
  <1> DEFINE I == SessionInv /\ DeadIsDead /\ BeforeSink /\ ExitLast /\ TwinKept
  <1>4. JdiInit => I
    BY SessionInvInit, AccountsInit
  <1>5. InboxInv /\ I /\ [JdiNext]_jdiVars => I'
    BY <1>1, <1>3, DeadIsDeadStep, BeforeSinkStep, ExitLastStep, TwinKeptStep
  <1>6. I => StopAccounted
    <2> SUFFICES ASSUME I, alive, NEW s \in Raised
                 PROVE  s \in ToSet(told) \cup dropped \cup InSidecar \cup OnTheWire \cup InDaemon
      BY DEF StopAccounted
    <2>1. InEvents(s)
      BY DEF TwinKept, Raised
    <2>2. [type |-> "event", event |-> s] \in ToSet(toDaemon) => s \in OnTheWire
      BY DEF OnTheWire
    <2> QED BY <2>1, <2>2 DEF InEvents, InSidecar, InDaemon
  <1> HIDE DEF I
  <1> QED BY <1>2, <1>4, <1>5, <1>6, PTL DEF JdiSafety

-----------------------------------------------------------------------------
(* Plain sessions: one request at a time.                                  *)

\* A plain session: run, continue and suspend, no request given up, a sidecar
\* that stays, and no more stops than the inbox remembers ids of (32 in the code):
\* a late copy of a stop whose id was evicted would be queued again.
Plain ==
    /\ Commands \subseteq {"run", "continue", "suspend"}
    /\ ~ RequestTimeouts
    /\ ~ SidecarMayCrash
    /\ MaxStops <= IdCap

\* The methods, commands and places of the command thread of a plain session.
PlainMethods == {"continue", "ackStop", "suspend"}
PlainNames == {"run", "continue", "suspend"}
PlainPcs == {"idle", "apply", "applied", "arm", "await", "grace", "graceApply", "graceApplied",
             "timeout", "acking", "finalize", "suspended"}

\* The answers on the wire, and the command that waits for the next stop.
Responses == {m \in ToSet(toDaemon) : m.type = "response"}
Continuing == cmd.pc = "await" /\ cmd.name \in {"run", "continue"}

\* What a plain session never does: lose the sidecar, step, drop a stop.
PlainSession ==
    /\ alive
    /\ stepThread = NoThread
    /\ dropped = {}
    /\ cmd.pc \in PlainPcs
    /\ cmd.name \in PlainNames
    /\ rpc.pc \in {"idle", "poll", "wait", "examine", "reply", "ackStop", "suspend"}
    /\ rpc.method \in PlainMethods

\* The command thread is where it sends this request.
Fits(method, stop) ==
    /\ method \in PlainMethods
    /\ method = "continue" => Continuing
    /\ method = "ackStop" => cmd.pc = "acking" /\ cmd.stop = stop
    /\ method = "suspend" => cmd.pc = "await"

\* An answer that carries a stop answers a continue.
FitsResult(r) == r.stop # NoEvent => Continuing /\ r.kind = "stop"

\* One request at a time: it is with the sidecar's reader, its RPC thread, on the
\* wire as an answer, or with the command thread, and it is the command's own.
OneRequest ==
    /\ cmd.id # 0 <=> cmd.pc \in {"await", "acking"} /\ cmd.reply = NoReply
    /\ cmd.reply # NoReply => cmd.pc \in {"await", "acking"}
    /\ FitsResult(cmd.reply)
    /\ Len(toSidecar) <= 1
    /\ \A r \in ToSet(toSidecar) : r.id = cmd.id /\ Fits(r.method, r.stop)
    /\ rpc.pc # "idle" => rpc.id = cmd.id /\ toSidecar = <<>>
    /\ rpc.pc \in {"poll", "wait", "examine"} => Continuing /\ rpc.method = "continue"
    /\ rpc.pc = "ackStop" => cmd.pc = "acking" /\ cmd.stop = rpc.stop
    /\ rpc.pc = "suspend" => cmd.pc = "await"
    /\ rpc.pc = "reply" => FitsResult(rpc.result)
    /\ \A i \in DOMAIN toDaemon : toDaemon[i].type = "response" =>
          /\ toDaemon[i].id = cmd.id
          /\ FitsResult(toDaemon[i].result)
          /\ rpc.pc = "idle"
          /\ toSidecar = <<>>
          /\ \A j \in DOMAIN toDaemon : toDaemon[j].type = "response" => i = j
    /\ cmd.id = 0 => toSidecar = <<>> /\ rpc.pc = "idle" /\ Responses = {}

\* The stop is taken by the command thread and not told yet.
Held(s) == cmd.pc \in {"acking", "finalize"} /\ cmd.stop = s

\* The event of the stop is still to reach the inbox; copies of it are queued or
\* drained; the inbox has seen it somewhere.
Coming(s) == loop.stop = s \/ [type |-> "event", event |-> s] \in ToSet(toDaemon)
Copies == ToSet(events) \cup UNION {ToSet(batch[w]) : w \in Workers}
Seen == ToSet(pendingStops) \cup Copies \cup {sunk} \cup (IF cmd.pc = "acking" THEN {cmd.stop} ELSE {})

\* The events of stops are on the wire in the order they were raised, and the
\* one the event loop has in hand is the latest.
WireOrder ==
    /\ loop.stop \in StopIds => loop.stop = Len(raised)
    /\ loop.pc = "queue" => loop.stop \in StopIds
    /\ \A i, j \in DOMAIN toDaemon :
          StopEvent(toDaemon[i]) /\ StopEvent(toDaemon[j]) /\ i < j =>
              toDaemon[i].event < toDaemon[j].event
    /\ \A i \in DOMAIN toDaemon : StopEvent(toDaemon[i]) =>
          /\ toDaemon[i].event <= Len(raised)
          /\ loop.stop \in StopIds => toDaemon[i].event < loop.stop

\* What the inbox has seen comes before what is still to come; pending stops are
\* in order, but for one taken in hand; and every copy has left a trace, so that
\* its second arrival is ignored.
InboxOrder ==
    /\ \A x \in Seen \cap StopIds : x <= Len(raised) /\ \A y \in StopIds : Coming(y) => x < y
    /\ sunk \in StopIds => \A y \in (ToSet(pendingStops) \cup Copies) \cap StopIds : y <= sunk
    /\ \A i, j \in DOMAIN pendingStops : i < j => pendingStops[i] < pendingStops[j] \/ Held(pendingStops[j])
    /\ \A x \in Copies \cap StopIds :
          x \in ToSet(deliveredIds) \cup ToSet(pendingStops) \cup {sunk} \/ Held(x)

\* The stop has left the sidecar's queue for the command: the RPC thread has it,
\* an answer carries it, or the command acknowledged it.
InHand(s) ==
   \/ rpc.pc = "examine" /\ rpc.stop = s
   \/ rpc.pc = "reply" /\ rpc.result.stop = s
   \/ \E m \in Responses : m.result.stop = s
   \/ cmd.reply.stop = s
   \/ cmd.pc = "finalize" /\ cmd.stop = s
   \/ cmd.pc = "acking" /\ cmd.stop = s /\ toSidecar = <<>> /\ rpc.pc # "ackStop"

\* The event loop has raised the stop and not queued it yet.
InLoop(s) == loop.pc = "queue" /\ loop.stop = s

\* The stops told are the first ones raised; the one in hand is the next one; the
\* sidecar's queue holds the rest in order.
StopsTold ==
    /\ Len(told) <= Len(raised)
    /\ \A i \in DOMAIN told : told[i] = i
    /\ deliveredIds = told
    /\ \A s \in StopIds : InHand(s) \/ Held(s) => s = Len(told) + 1 /\ s <= Len(raised)
    /\ \A s \in StopIds : InLoop(s) => Len(told) < s /\ ~ InHand(s)
    /\ \A s \in StopIds : s \in ToSet(stops) <=>
          Len(told) < s /\ s <= Len(raised) /\ ~ InLoop(s) /\ ~ InHand(s)
    /\ \A i, j \in DOMAIN stops : i < j /\ stops[i] \in StopIds /\ stops[j] \in StopIds => stops[i] < stops[j]

\* What is known of every session.
Grounds == SessionInv /\ InboxInv /\ DeadIsDead /\ BeforeSink /\ ExitLast /\ TwinKept

\* The inductive invariant of plain sessions.
PlainInv == PlainSession /\ OneRequest /\ WireOrder /\ InboxOrder /\ StopsTold

\* The steps of a plain session.
LEMMA PlainSteps ==
    ASSUME Plain, Grounds, PlainSession, JdiNext
    PROVE  \/ SidecarActs /\ TargetNext
           \/ SidecarActs /\ LoopNext
           \/ SidecarActs /\ (RpcReads \/ PollQueuedStopOrResume \/ PollStop \/ TimesOut \/ ExamineStop
                                \/ AckStop \/ SuspendAll \/ TargetGone \/ RpcReplies)
           \/ ReaderQueuesEvent \/ ReaderSinksEvent \/ ReaderDeliversResponse
           \/ RegisterSink \/ PollerNext
           \/ \E name \in Commands : CmdIssue(name)
           \/ CmdApplies \/ CmdApplied \/ CmdRequests \/ CmdTakesPending \/ CmdNoPending \/ CmdArms
           \/ CmdSessionDead \/ CmdGetsReply \/ CmdGraceWait \/ CmdReportsTimeout \/ CmdAcked
           \/ CmdTellsStop \/ CmdSuspended
  <1>1. ~ CmdRequestTimesOut /\ ~ SidecarCrashes /\ ~ CmdKill /\ ~ ReaderEnds
    <2>1. ~ CmdKill
      <3>1. CmdKill => "kill" \in Commands
        BY Zenon DEF CmdKill
      <3> QED BY <3>1 DEF Plain
    <2> QED BY <2>1 DEF Plain, PlainSession, CmdRequestTimesOut, SidecarCrashes, ReaderEnds
  <1>2. /\ ~ CmdDrainsPending /\ ~ CmdRemembers /\ ~ CmdResumed /\ ~ CmdShutsDown /\ ~ CmdKilled
    BY DEF PlainSession, PlainPcs, CmdDrainsPending, CmdRemembers, CmdResumed, CmdShutsDown, CmdKilled, At
  <1>3. RpcNext => \/ RpcReads \/ PollQueuedStopOrResume \/ PollStop \/ TimesOut \/ ExamineStop
                   \/ AckStop \/ SuspendAll \/ TargetGone \/ RpcReplies
    BY DEF PlainSession, RpcNext, StepBegins, StepDiscardsOther, StepDiscardedOthers, StepFails, StepFinally,
           DiscardCurrent, DiscardNext, VmResume, Terminate, RpcAt
  <1> QED BY <1>1, <1>2, <1>3, Zenon DEF JdiNext, SidecarActs, ReaderNext, ClientNext, CmdNext

\* What a request is made of, beside the command.
SidecarView == <<toSidecar, rpc, toDaemon, alive, stepThread, dropped>>

\* No answer carries no stop.
LEMMA NoReplyFits == NoReply.stop = NoEvent /\ FitsResult(NoReply)
  BY DEF NoReply, FitsResult

\* A step of the command thread with no request under way.
LEMMA RequestFree ==
    ASSUME PlainSession, OneRequest, cmd.id = 0,
           UNCHANGED SidecarView,
           cmd'.id = 0, cmd'.reply = NoReply, cmd'.pc \in PlainPcs \ {"await", "acking"}, cmd'.name \in PlainNames
    PROVE  PlainSession' /\ OneRequest'
  <1>1. PlainSession'
    BY DEF PlainSession, SidecarView
  <1>2. toSidecar = <<>> /\ rpc.pc = "idle" /\ Responses = {}
    BY DEF OneRequest
  <1>3. \A i \in DOMAIN toDaemon : toDaemon[i].type # "response"
    BY <1>2 DEF Responses, ToSet
  <1>4. Len(toSidecar) = 0 /\ ToSet(toSidecar) = {}
    BY <1>2, EmptySeq DEF ToSet
  <1> QED BY <1>1, <1>2, <1>3, <1>4, NoReplyFits DEF OneRequest, SidecarView, Responses, FitsResult

\* A step that leaves the request and its command alone.
LEMMA RequestSame ==
    ASSUME PlainSession, OneRequest, UNCHANGED SidecarView, cmd' = cmd
    PROVE  PlainSession' /\ OneRequest'
  BY DEF PlainSession, OneRequest, SidecarView, Responses, Fits, FitsResult, Continuing

\* A request leaves.
LEMMA RequestSent ==
    ASSUME SessionInv, PlainSession, OneRequest, cmd.id = 0,
           NEW method \in PlainMethods, NEW s \in StopIds \cup {NoEvent}, NEW pc \in {"await", "acking"},
           Sends(method, s, pc),
           method = "continue" => pc = "await" /\ cmd.name \in {"run", "continue"},
           method = "ackStop" => pc = "acking",
           method = "suspend" => pc = "await"
    PROVE  /\ PlainSession' /\ OneRequest'
           /\ cmd' = [cmd EXCEPT !.pc = pc, !.id = requestId + 1, !.reply = NoReply, !.stop = s]
           /\ toSidecar' = <<[id |-> requestId + 1, method |-> method, stop |-> s]>>
  <1> DEFINE req == [id |-> requestId + 1, method |-> method, stop |-> s]
  <1>0. /\ cmd \in CmdStates /\ requestId \in Nat /\ alive
        /\ toSidecar = <<>> /\ rpc.pc = "idle" /\ Responses = {}
    BY DEF SessionInv, SessionTypeOK, PlainSession, OneRequest
  <1>1. /\ toSidecar' = Append(toSidecar, req)
        /\ cmd' = [cmd EXCEPT !.pc = pc, !.id = requestId + 1, !.reply = NoReply, !.stop = s]
        /\ UNCHANGED <<targetVars, queueVars, loop, rpc, toDaemon, alive>>
    BY <1>0, Zenon DEF Sends
  <1>2. toSidecar' = <<req>>
    BY <1>0, <1>1
  <1> HIDE DEF req
  <1>3. Len(<<req>>) = 1 /\ ToSet(<<req>>) = {req} /\ <<req>> # <<>>
    BY DEF ToSet
  <1>4. /\ cmd'.pc = pc /\ cmd'.id = requestId + 1 /\ cmd'.id # 0 /\ cmd'.reply = NoReply
        /\ cmd'.stop = s /\ cmd'.name = cmd.name
    BY <1>0, <1>1 DEF CmdStates
  <1>5. UNCHANGED <<rpc, toDaemon, alive, stepThread, dropped>>
    BY <1>1 DEF queueVars
  <1>6. PlainSession'
    BY <1>4, <1>5 DEF PlainSession, PlainPcs
  <1>7. \A i \in DOMAIN toDaemon : toDaemon[i].type # "response"
    BY <1>0 DEF Responses, ToSet
  <1>8. req.id = requestId + 1 /\ req.method = method /\ req.stop = s
    BY DEF req
  <1>9. Fits(method, s)'
    BY <1>4 DEF Fits, Continuing
  <1>10. OneRequest'
    BY <1>0, <1>2, <1>3, <1>4, <1>5, <1>7, <1>8, <1>9, NoReplyFits DEF OneRequest, FitsResult
  <1> QED BY <1>1, <1>2, <1>6, <1>10 DEF req

\* The RPC thread gets on with the request it has read.
LEMMA RequestServed ==
    ASSUME PlainSession, OneRequest,
           rpc.pc # "idle", rpc'.id = rpc.id, rpc'.method = rpc.method,
           rpc'.pc \in {"wait", "examine", "reply"},
           rpc'.pc \in {"wait", "examine"} => rpc.pc \in {"poll", "wait", "examine"},
           rpc'.pc = "reply" => FitsResult(rpc'.result),
           UNCHANGED <<toSidecar, toDaemon, alive, stepThread, dropped, cmd>>
    PROVE  PlainSession' /\ OneRequest'
  <1>1. PlainSession'
    BY DEF PlainSession
  <1>2. \A i \in DOMAIN toDaemon : toDaemon[i].type # "response"
    BY DEF OneRequest
  <1>3. cmd.id # 0 /\ rpc.id = cmd.id /\ toSidecar = <<>>
    BY DEF OneRequest
  <1>5. ToSet(toSidecar') = {}
    BY <1>3, EmptySeq DEF ToSet
  <1> QED BY <1>1, <1>2, <1>3, <1>5 DEF OneRequest, FitsResult, Continuing, Responses

\* An event is put on the wire.
LEMMA RequestBesideEvent ==
    ASSUME PlainSession, OneRequest, toDaemon \in Seq(Messages),
           NEW m \in Messages, m.type = "event", toDaemon' = Append(toDaemon, m),
           UNCHANGED <<toSidecar, rpc, alive, stepThread, dropped, cmd>>
    PROVE  PlainSession' /\ OneRequest'
  <1>1. PlainSession'
    BY DEF PlainSession
  <1>2. /\ DOMAIN toDaemon = 1 .. Len(toDaemon) /\ Len(toDaemon) \in Nat
        /\ DOMAIN toDaemon' = 1 .. (Len(toDaemon) + 1)
        /\ \A i \in 1 .. Len(toDaemon) : toDaemon'[i] = toDaemon[i]
        /\ toDaemon'[Len(toDaemon) + 1] = m
        /\ ToSet(toDaemon') = ToSet(toDaemon) \cup {m}
    BY Appended
  <1>3. \A i \in DOMAIN toDaemon' : toDaemon'[i].type = "response" =>
            i \in DOMAIN toDaemon /\ toDaemon'[i] = toDaemon[i]
    BY <1>2
  <1>4. cmd.id = 0 => Responses' = {}
    BY <1>2 DEF OneRequest, Responses
  <1>5. \A r : FitsResult(r)' <=> FitsResult(r)
    BY DEF FitsResult, Continuing
  <1>6. \A a, b : Fits(a, b)' <=> Fits(a, b)
    BY DEF Fits, Continuing
  <1>7. Continuing' <=> Continuing
    BY DEF Continuing
  <1> QED BY <1>1, <1>3, <1>4, <1>5, <1>6, <1>7 DEF OneRequest

\* The response is put on the wire.
LEMMA RequestAnswered ==
    ASSUME PlainSession, OneRequest, SidecarTypeOK, RpcReplies, UNCHANGED cmd
    PROVE  PlainSession' /\ OneRequest'
  <1> DEFINE m == [type |-> "response", id |-> rpc.id, result |-> rpc.result]
  <1>0. /\ rpc.pc = "reply" /\ toDaemon' = Append(toDaemon, m) /\ rpc' = RpcIdle
        /\ UNCHANGED <<toSidecar, alive, stepThread, dropped>>
    BY DEF RpcReplies, RpcAt, queueVars
  <1>1. m \in Messages /\ m.type = "response" /\ m.id = rpc.id /\ m.result = rpc.result
    BY DEF SidecarTypeOK, RpcStates, Messages
  <1> HIDE DEF m
  <1>2. /\ DOMAIN toDaemon = 1 .. Len(toDaemon) /\ Len(toDaemon) \in Nat
        /\ DOMAIN toDaemon' = 1 .. (Len(toDaemon) + 1)
        /\ \A i \in 1 .. Len(toDaemon) : toDaemon'[i] = toDaemon[i]
        /\ toDaemon'[Len(toDaemon) + 1] = m
    BY <1>0, <1>1, Appended DEF SidecarTypeOK
  <1>3. PlainSession'
    BY <1>0 DEF PlainSession, RpcIdle, PlainMethods
  <1>4. \A i \in DOMAIN toDaemon : toDaemon[i].type # "response"
    BY <1>0 DEF OneRequest
  <1>5. \A i \in DOMAIN toDaemon' : toDaemon'[i].type = "response" =>
            i = Len(toDaemon) + 1 /\ toDaemon'[i] = m
    BY <1>2, <1>4
  <1>6. cmd.id # 0 /\ rpc.id = cmd.id /\ toSidecar = <<>> /\ FitsResult(rpc.result)
    BY <1>0 DEF OneRequest
  <1>7. \A r : FitsResult(r)' <=> FitsResult(r)
    BY DEF FitsResult, Continuing
  <1>8. rpc'.pc = "idle" /\ ToSet(toSidecar') = {}
    BY <1>0, <1>6, EmptySeq DEF RpcIdle, ToSet
  <1>10. \A i \in DOMAIN toDaemon' : toDaemon'[i].type = "response" =>
            toDaemon'[i].id = cmd.id /\ toDaemon'[i].result = rpc.result
    BY <1>1, <1>5, <1>6
  <1>11. \A i \in DOMAIN toDaemon' : toDaemon'[i].type = "response" =>
            /\ FitsResult(toDaemon[i].result)'
            /\ \A j \in DOMAIN toDaemon' : toDaemon'[j].type = "response" => i = j
    BY <1>5, <1>6, <1>10 DEF FitsResult, Continuing
  <1>12. Continuing' <=> Continuing
    BY DEF Continuing
  <1> QED BY <1>0, <1>3, <1>6, <1>7, <1>8, <1>10, <1>11, <1>12 DEF OneRequest

\* The sidecar's threads.
LEMMA RequestSidecar ==
    ASSUME Grounds, PlainSession, OneRequest, SidecarActs,
           TargetNext \/ LoopNext
             \/ (RpcReads \/ PollQueuedStopOrResume \/ PollStop \/ TimesOut \/ ExamineStop
                   \/ AckStop \/ SuspendAll \/ TargetGone \/ RpcReplies)
    PROVE  PlainSession' /\ OneRequest'
  <1>0. /\ SidecarInv /\ SidecarTypeOK /\ rpc \in RpcStates /\ toDaemon \in Seq(Messages)
        /\ toSidecar \in Seq(Requests) /\ UNCHANGED <<cmd, alive>>
    BY SidecarLeaves DEF Grounds, SessionInv, SidecarInv, SidecarTypeOK
  <1>1. CASE TargetNext
    BY <1>0, <1>1, SidecarLeaves, RequestSame DEF SidecarView
  <1>2. CASE LoopNext
    <2>1. UNCHANGED <<toSidecar, rpc, stepThread, dropped>>
      BY <1>2, SidecarLeaves
    <2>2. CASE LoopSends
      <3> DEFINE m == [type |-> "event", event |-> loop.stop]
      <3>1. m \in Messages /\ m.type = "event"
        BY <1>0, <2>2 DEF LoopSends, SidecarInv, Known, Messages
      <3>2. toDaemon' = Append(toDaemon, m)
        BY <2>2 DEF LoopSends
      <3> HIDE DEF m
      <3> QED BY <1>0, <2>1, <3>1, <3>2, RequestBesideEvent
    <2>3. CASE ~ LoopSends
      <3>1. toDaemon' = toDaemon
        BY <1>2, <2>3
        DEF LoopNext, LoopAccepts, LoopRejects, LoopFails, LoopQueuesStop, LoopVmStart, LoopVmDeath
      <3> QED BY <1>0, <2>1, <3>1, RequestSame DEF SidecarView
    <2> QED BY <2>2, <2>3
  <1>3. CASE RpcReads
    <2>1. /\ toSidecar # <<>> /\ toSidecar' = Tail(toSidecar) /\ rpc.pc = "idle"
          /\ UNCHANGED <<toDaemon, alive, stepThread, dropped>>
      BY <1>3 DEF RpcReads, queueVars
    <2> DEFINE r == Head(toSidecar)
    <2>2. r \in ToSet(toSidecar) /\ Len(toSidecar) = 1 /\ Tail(toSidecar) = <<>>
      <3>0. Len(toSidecar) <= 1
        BY DEF OneRequest
      <3>1. Len(toSidecar) \in Nat /\ Len(toSidecar) >= 1
        <4>1. toSidecar \in Seq(Requests) /\ toSidecar # <<>>
          BY <1>0, <2>1
        <4> QED BY <4>1, Tailed
      <3>4. Len(toSidecar) = 1
        <4>1. \A n \in Nat : n <= 1 /\ n >= 1 => n = 1
          OBVIOUS
        <4> QED BY <3>0, <3>1, <4>1, Zenon
      <3>2. Tail(toSidecar) \in Seq(Requests) /\ Len(Tail(toSidecar)) = 0
        BY <1>0, <2>1, <3>4, HeadTailProperties
      <3> QED BY <1>0, <2>1, <3>2, <3>4, Tailed, EmptySeq
    <2>3. /\ rpc'.pc = FirstStep(r.method) /\ rpc'.id = r.id /\ rpc'.method = r.method
          /\ rpc'.stop = r.stop
      BY <1>3 DEF RpcReads, RpcIdle
    <2>4. r.id = cmd.id /\ Fits(r.method, r.stop) /\ cmd.id # 0
      BY <2>1, <2>2 DEF OneRequest
    <2> HIDE DEF r
    <2>5. /\ r.method \in PlainMethods
          /\ r.method = "continue" => Continuing /\ rpc'.pc = "poll"
          /\ r.method = "ackStop" => cmd.pc = "acking" /\ cmd.stop = r.stop /\ rpc'.pc = "ackStop"
          /\ r.method = "suspend" => cmd.pc = "await" /\ rpc'.pc = "suspend"
      BY <2>3, <2>4 DEF Fits, FirstStep, PlainMethods
    <2>6. \A i \in DOMAIN toDaemon : toDaemon[i].type # "response"
      BY <2>1 DEF OneRequest
    <2>7. PlainSession'
      BY <1>0, <2>1, <2>3, <2>5 DEF PlainSession, PlainMethods
    <2>8. ToSet(toSidecar') = {} /\ Len(toSidecar') = 0 /\ toSidecar' = <<>>
      BY <2>1, <2>2, EmptySeq DEF ToSet
    <2> QED BY <1>0, <2>1, <2>3, <2>4, <2>5, <2>6, <2>7, <2>8
            DEF OneRequest, FitsResult, Continuing, PlainMethods
  <1>4. CASE PollQueuedStopOrResume \/ PollStop
    <2>1. /\ rpc.pc \in {"poll", "wait"}
          /\ rpc'.pc \in {"wait", "examine"} /\ rpc'.id = rpc.id /\ rpc'.method = rpc.method
          /\ UNCHANGED <<toSidecar, toDaemon, alive, stepThread, dropped>>
      BY <1>0, <1>4 DEF PollQueuedStopOrResume, PollStop, RpcAt, RpcStates, targetVars
    <2> QED BY <1>0, <2>1, RequestServed
  <1>5. CASE ExamineStop
    <2>1. rpc.pc = "examine" /\ Continuing /\ rpc.method = "continue"
      BY <1>5 DEF ExamineStop, RpcAt, OneRequest
    <2>2. UNCHANGED <<toSidecar, toDaemon, alive, stepThread>>
      BY <1>5 DEF ExamineStop
    <2>3. /\ rpc'.pc \in {"wait", "reply"} /\ rpc'.id = rpc.id /\ rpc'.method = rpc.method
          /\ rpc'.pc = "reply" => rpc'.result = Stopped(rpc.stop)
      BY <1>0, <1>5, <2>1 DEF ExamineStop, Answer, RpcStates
    <2>4. dropped' = dropped
      <3>1. AcceptsStop(rpc.stop)
        BY DEF PlainSession, AcceptsStop
      <3>2. CASE rpc.stop = VmStart
        BY <1>5, <3>2, EventsDistinct DEF ExamineStop, Drops
      <3>3. CASE rpc.stop # VmStart
        BY <1>5, <3>1, <3>3 DEF ExamineStop
      <3> QED BY <3>2, <3>3
    <2>5. FitsResult(Stopped(rpc.stop))
      BY <2>1 DEF FitsResult, Stopped
    <2> QED BY <1>0, <2>1, <2>2, <2>3, <2>4, <2>5, RequestServed
  <1>6. CASE TimesOut \/ AckStop \/ SuspendAll
    <2>1. /\ rpc.pc \in {"wait", "ackStop", "suspend"}
          /\ UNCHANGED <<toSidecar, toDaemon, alive, stepThread, dropped>>
      BY <1>6 DEF TimesOut, AckStop, SuspendAll, RpcAt, queueVars
    <2>2. \E r \in {TimedOut, Ok(<<>>)} : Answer(r)
      BY <1>6 DEF TimesOut, AckStop, SuspendAll
    <2>3. /\ rpc'.pc = "reply" /\ rpc'.id = rpc.id /\ rpc'.method = rpc.method
          /\ rpc'.result \in {TimedOut, Ok(<<>>)}
      BY <1>0, <2>2 DEF Answer, RpcStates, PlainSession, PlainMethods
    <2>4. FitsResult(rpc'.result)
      BY <2>3 DEF FitsResult, TimedOut, Ok
    <2> QED BY <1>0, <2>1, <2>3, <2>4, RequestServed
  <1>7. CASE TargetGone
    <2>1. rpc.pc \in {"poll", "ackStop", "suspend"} /\ UNCHANGED <<stepThread, dropped>>
      BY <1>7
      DEF TargetGone, GoneWhilePolling, GoneWhileStepping, GoneWhileAcking, GoneWhileResuming, PlainSession
    <2>2. UNCHANGED <<toSidecar, toDaemon, alive>>
      BY <1>7 DEF TargetGone
    <2>3. rpc'.pc = "reply" /\ rpc'.id = rpc.id /\ rpc'.method = rpc.method /\ rpc'.result = RpcError
      BY <1>0, <1>7 DEF TargetGone, RpcStates, PlainSession, PlainMethods
    <2>4. FitsResult(RpcError)
      BY DEF FitsResult, RpcError
    <2> QED BY <1>0, <2>1, <2>2, <2>3, <2>4, RequestServed
  <1>8. CASE RpcReplies
    BY <1>0, <1>8, RequestAnswered
  <1> QED BY <1>1, <1>2, <1>3, <1>4, <1>5, <1>6, <1>7, <1>8

\* The reader thread.
LEMMA RequestReader ==
    ASSUME Grounds, PlainSession, OneRequest,
           ReaderQueuesEvent \/ ReaderSinksEvent \/ ReaderDeliversResponse
    PROVE  PlainSession' /\ OneRequest'
  <1>0. cmd \in CmdStates /\ toDaemon \in Seq(Messages)
    BY DEF Grounds, SessionInv, SidecarInv, SidecarTypeOK, SessionTypeOK
  <1>1. CASE ReaderSinksEvent
    BY <1>1, RequestSame
    DEF ReaderSinksEvent, sidecarVars, queueVars, SidecarView
  <1>2. ASSUME ReaderQueuesEvent \/ ReaderDeliversResponse
        PROVE  /\ toDaemon # <<>> /\ toDaemon' = Tail(toDaemon)
               /\ UNCHANGED <<toSidecar, rpc, alive, stepThread, dropped>>
    BY <1>2 DEF ReaderQueuesEvent, ReaderDeliversResponse, queueVars
  <1>3. toDaemon # <<>> =>
           /\ DOMAIN toDaemon = 1 .. Len(toDaemon) /\ Len(toDaemon) \in Nat /\ Len(toDaemon) >= 1
           /\ DOMAIN Tail(toDaemon) = 1 .. (Len(toDaemon) - 1)
           /\ \A i \in 1 .. (Len(toDaemon) - 1) : Tail(toDaemon)[i] = toDaemon[i + 1]
           /\ Head(toDaemon) = toDaemon[1]
           /\ ToSet(toDaemon) = {Head(toDaemon)} \cup ToSet(Tail(toDaemon))
    BY <1>0, Tailed
  <1>4. CASE ReaderQueuesEvent
    <2>1. Head(toDaemon).type = "event" /\ cmd' = cmd
      BY <1>4 DEF ReaderQueuesEvent
    <2>2. PlainSession'
      BY <1>2, <1>4, <2>1 DEF PlainSession
    <2>3. Responses' \subseteq Responses
      BY <1>2, <1>3, <1>4 DEF Responses
    <2>4. \A i \in DOMAIN toDaemon' : i + 1 \in DOMAIN toDaemon /\ toDaemon'[i] = toDaemon[i + 1]
      BY <1>2, <1>3, <1>4
    <2>5. \A i \in DOMAIN toDaemon' : toDaemon'[i].type = "response" =>
            /\ toDaemon'[i].id = cmd.id
            /\ FitsResult(toDaemon[i + 1].result)
            /\ rpc.pc = "idle"
            /\ toSidecar = <<>>
            /\ \A j \in DOMAIN toDaemon' : toDaemon'[j].type = "response" => i = j
      <3> SUFFICES ASSUME NEW i \in DOMAIN toDaemon', toDaemon'[i].type = "response"
                   PROVE  /\ toDaemon'[i].id = cmd.id
                          /\ FitsResult(toDaemon[i + 1].result)
                          /\ rpc.pc = "idle"
                          /\ toSidecar = <<>>
                          /\ \A j \in DOMAIN toDaemon' : toDaemon'[j].type = "response" => i = j
        OBVIOUS
      <3>1. i + 1 \in DOMAIN toDaemon /\ toDaemon[i + 1].type = "response"
        BY <2>4
      <3>2. \A j \in DOMAIN toDaemon' : toDaemon'[j].type = "response" => i + 1 = j + 1
        BY <2>4, <3>1 DEF OneRequest
      <3>3. \A j \in DOMAIN toDaemon' : j \in Int
        BY <1>2, <1>3, <1>4
      <3>4. \A j \in DOMAIN toDaemon' : toDaemon'[j].type = "response" => i = j
        BY <3>2, <3>3
      <3> QED BY <2>4, <3>1, <3>4 DEF OneRequest
    <2>6. UNCHANGED <<toSidecar, rpc>>
      BY <1>2, <1>4
    <2>7. \A r : FitsResult(r)' <=> FitsResult(r)
      BY <2>1 DEF FitsResult, Continuing
    <2>8. \A x, y : Fits(x, y)' <=> Fits(x, y)
      BY <2>1 DEF Fits, Continuing
    <2>9. Continuing' <=> Continuing
      BY <2>1 DEF Continuing
    <2>10. \A i \in DOMAIN toDaemon' : toDaemon'[i].type = "response" => FitsResult(toDaemon'[i].result)
      BY <2>4, <2>5
    <2>11. cmd.id = 0 => Responses' = {}
      BY <2>3 DEF OneRequest
    <2> QED BY <2>1, <2>2, <2>5, <2>6, <2>7, <2>8, <2>9, <2>10, <2>11 DEF OneRequest
  <1>5. CASE ReaderDeliversResponse
    <2> DEFINE h == Head(toDaemon)
    <2>1. 1 \in DOMAIN toDaemon /\ toDaemon[1] = h /\ h.type = "response"
      BY <1>2, <1>3, <1>5 DEF ReaderDeliversResponse
    <2>2. h.id = cmd.id /\ FitsResult(h.result) /\ rpc.pc = "idle" /\ toSidecar = <<>>
          /\ \A j \in DOMAIN toDaemon : toDaemon[j].type = "response" => j = 1
      BY <2>1 DEF OneRequest
    <2>3. cmd' = [cmd EXCEPT !.reply = h.result, !.id = 0]
      BY <1>5, <2>2 DEF ReaderDeliversResponse
    <2>4. h \in Messages /\ h.result \in Results
      BY <1>0, <1>2, <1>5, <2>1, TailSeq DEF Messages
    <2> HIDE DEF h
    <2>5. /\ cmd'.reply = h.result /\ cmd'.id = 0 /\ cmd'.pc = cmd.pc /\ cmd'.name = cmd.name
          /\ cmd'.stop = cmd.stop
      BY <1>0, <2>3 DEF CmdStates
    <2>6. h.result # NoReply
      BY <2>4 DEF Results, NoReply
    <2>7. \A i \in DOMAIN toDaemon' : toDaemon'[i].type # "response"
      <3> SUFFICES ASSUME NEW i \in DOMAIN toDaemon', toDaemon'[i].type = "response" PROVE FALSE
        OBVIOUS
      <3>1. i \in 1 .. (Len(toDaemon) - 1) /\ toDaemon'[i] = toDaemon[i + 1]
        BY <1>2, <1>3, <1>5
      <3>2. i + 1 \in DOMAIN toDaemon /\ i + 1 # 1
        BY <1>2, <1>3, <1>5, <3>1
      <3> QED BY <2>2, <3>1, <3>2
    <2>8. cmd.pc \in {"await", "acking"}
      <3>1. Responses # {}
        BY <2>1 DEF Responses, ToSet
      <3> QED BY <3>1 DEF OneRequest
    <2>9. PlainSession'
      BY <1>2, <1>5, <2>5 DEF PlainSession
    <2>10. Responses' = {}
      BY <2>7 DEF Responses, ToSet
    <2>11. FitsResult(cmd.reply)'
      BY <2>2, <2>5 DEF FitsResult, Continuing
    <2>12. ToSet(toSidecar') = {} /\ Len(toSidecar') = 0 /\ toSidecar' = <<>> /\ rpc' = rpc
      BY <1>2, <1>5, <2>2, EmptySeq DEF ToSet
    <2> QED BY <2>2, <2>5, <2>6, <2>7, <2>8, <2>9, <2>10, <2>11, <2>12 DEF OneRequest
  <1> QED BY <1>1, <1>4, <1>5

\* Where an answered command goes.
LEMMA GetsReplyMoves ==
    ASSUME cmd \in CmdStates, CmdGetsReply
    PROVE  /\ cmd'.pc = AfterReply(cmd.name, cmd.reply.kind)
           /\ cmd'.pc # "idle" => cmd'.stop = cmd.reply.stop
           /\ cmd'.id \in {cmd.id, 0} /\ cmd'.reply = NoReply /\ cmd'.name \in {cmd.name, "continue"}
  <1> DEFINE pc == AfterReply(cmd.name, cmd.reply.kind)
  <1> SUFFICES /\ cmd'.pc = pc
               /\ cmd'.pc # "idle" => cmd'.stop = cmd.reply.stop
               /\ cmd'.id \in {cmd.id, 0} /\ cmd'.reply = NoReply /\ cmd'.name \in {cmd.name, "continue"}
    OBVIOUS
  <1> HIDE DEF pc
  <1>1. \/ pc = "idle" /\ cmd' = CmdIdle
        \/ cmd' = [cmd EXCEPT !.pc = pc, !.stop = cmd.reply.stop, !.ids = cmd.reply.ids,
                              !.reply = NoReply]
    BY Zenon DEF CmdGetsReply, pc
  <1>2. CASE pc = "idle" /\ cmd' = CmdIdle
    BY <1>2 DEF CmdIdle
  <1>3. CASE cmd' = [cmd EXCEPT !.pc = pc, !.stop = cmd.reply.stop, !.ids = cmd.reply.ids,
                                !.reply = NoReply]
    BY <1>3 DEF CmdStates
  <1> QED BY <1>1, <1>2, <1>3

\* The command thread and the others.
LEMMA RequestDaemon ==
    ASSUME Plain, Grounds, PlainSession, OneRequest,
           \/ RegisterSink \/ PollerNext
           \/ \E name \in Commands : CmdIssue(name)
           \/ CmdApplies \/ CmdApplied \/ CmdRequests \/ CmdTakesPending \/ CmdNoPending \/ CmdArms
           \/ CmdSessionDead \/ CmdGetsReply \/ CmdGraceWait \/ CmdReportsTimeout \/ CmdAcked
           \/ CmdTellsStop \/ CmdSuspended
    PROVE  PlainSession' /\ OneRequest'
  <1>0. cmd \in CmdStates /\ SessionInv /\ InboxTypeOK
    BY DEF Grounds, SessionInv, SessionTypeOK, InboxInv
  <1>1. cmd.pc \notin {"await", "acking"} \/ cmd.reply # NoReply => cmd.id = 0
    BY DEF OneRequest
  <1>2. /\ cmd.pc \notin {"await", "acking"} => cmd.reply = NoReply
        /\ cmd.name \in PlainNames
    BY DEF OneRequest, PlainSession
  <1>3. CASE RegisterSink \/ PollerNext \/ CmdApplies
    <2>1. UNCHANGED sidecarVars /\ cmd' = cmd
      BY <1>3 DEF RegisterSink, PollerNext, PollerDrains, PollerApplies, PollerDone, CmdApplies
    <2> QED BY <2>1, RequestSame DEF SidecarView, sidecarVars, queueVars
  <1>4. CASE \E name \in Commands : CmdIssue(name)
    <2>1. UNCHANGED sidecarVars /\ cmd.pc = "idle"
      BY <1>4 DEF CmdIssue, At
    <2>2. cmd'.id = 0 /\ cmd'.reply = NoReply /\ cmd'.pc \in {"apply", "applied"} /\ cmd'.name \in Commands
      BY <1>4 DEF CmdIssue, CmdIdle
    <2>3. cmd'.name \in PlainNames
      BY <2>2 DEF Plain, PlainNames
    <2> QED BY <1>1, <2>1, <2>2, <2>3, RequestFree DEF SidecarView, sidecarVars, queueVars, PlainPcs
  <1>5. CASE CmdApplied \/ CmdNoPending \/ CmdGraceWait
    <2>1. cmd.pc \notin {"await", "acking"} /\ UNCHANGED sidecarVars
      BY <1>5 DEF CmdApplied, CmdNoPending, CmdGraceWait, At
    <2>2. \E pc \in {"applied", "graceApplied", "arm", "timeout", "graceApply"} : Goto(pc)
      BY <1>5 DEF CmdApplied, CmdNoPending, CmdGraceWait
    <2>3. /\ cmd'.pc \in {"applied", "graceApplied", "arm", "timeout", "graceApply"}
          /\ cmd'.id = cmd.id /\ cmd'.reply = cmd.reply /\ cmd'.name = cmd.name
      BY <1>0, <2>2 DEF Goto, CmdStates
    <2> QED BY <1>1, <1>2, <2>1, <2>3, RequestFree DEF SidecarView, sidecarVars, queueVars, PlainPcs
  <1>6. CASE CmdSessionDead \/ CmdReportsTimeout \/ CmdTellsStop \/ CmdSuspended
    <2>1. cmd.pc \notin {"await", "acking"} /\ UNCHANGED sidecarVars /\ cmd' = CmdIdle
      BY <1>6 DEF CmdSessionDead, CmdReportsTimeout, CmdTellsStop, CmdSuspended, At, Finishes
    <2> QED BY <1>1, <2>1, RequestFree DEF SidecarView, sidecarVars, queueVars, PlainPcs, PlainNames, CmdIdle
  <1>7. CASE CmdGetsReply
    <2>1. cmd.pc = "await" /\ cmd.reply # NoReply /\ UNCHANGED sidecarVars
      BY <1>7 DEF CmdGetsReply, At
    <2>3. AfterReply(cmd.name, cmd.reply.kind) \in {"suspended", "grace", "finalize", "idle"}
      BY <1>2 DEF AfterReply, PlainNames
    <2>4. cmd'.id = 0 /\ cmd'.reply = NoReply /\ cmd'.name \in PlainNames
      BY <1>0, <1>1, <1>7, <2>1, GetsReplyMoves DEF PlainSession, PlainNames
    <2>5. cmd'.pc \in PlainPcs \ {"await", "acking"}
      <3>1. cmd'.pc = AfterReply(cmd.name, cmd.reply.kind)
        BY <1>0, <1>7, GetsReplyMoves
      <3> QED BY <2>3, <3>1 DEF PlainPcs
    <2> QED BY <1>1, <2>1, <2>4, <2>5, RequestFree DEF SidecarView, sidecarVars, queueVars
  <1>8. CASE CmdAcked
    <2>1. cmd.pc = "acking" /\ cmd.reply # NoReply /\ UNCHANGED sidecarVars
      BY <1>8 DEF CmdAcked, At
    <2>2. cmd'.id = cmd.id /\ cmd'.reply = NoReply /\ cmd'.pc = "finalize" /\ cmd'.name = cmd.name
      BY <1>0, <1>8 DEF CmdAcked, CmdStates
    <2> QED BY <1>1, <1>2, <2>1, <2>2, RequestFree DEF SidecarView, sidecarVars, queueVars, PlainPcs
  <1>9. CASE CmdRequests \/ CmdArms
    <2>1. cmd.id = 0
      BY <1>1, <1>9 DEF CmdRequests, CmdArms, At
    <2>2. Sends(Method(cmd.name), NoEvent, "await")
      BY <1>9 DEF CmdRequests, CmdArms
    <2>3. /\ Method(cmd.name) \in PlainMethods
          /\ Method(cmd.name) = "continue" => cmd.name \in {"run", "continue"}
          /\ Method(cmd.name) # "ackStop"
      <3>1. CASE CmdArms
        <4>1. cmd.name \in {"run", "continue", "step"} /\ cmd.name # "step"
          BY <1>0, <1>2, <3>1 DEF CmdArms, At, SessionInv, ArmedCommand, PlainNames
        <4> QED BY <4>1 DEF Method, PlainMethods
      <3>2. CASE CmdRequests
        <4>1. cmd.name \in {"suspend", "resume"} /\ cmd.name # "resume"
          BY <1>2, <3>2 DEF CmdRequests, PlainNames
        <4> QED BY <4>1 DEF Method, PlainMethods
      <3> QED BY <1>9, <3>1, <3>2
    <2> QED BY <1>0, <2>1, <2>2, <2>3, RequestSent
  <1>10. CASE CmdTakesPending
    <2>1. cmd.id = 0
      BY <1>1, <1>10 DEF CmdTakesPending, At
    <2>2. Sends("ackStop", Head(pendingStops), "acking") /\ Head(pendingStops) \in StopIds
      BY <1>0, <1>10, TailSeq DEF CmdTakesPending, PopPending, InboxTypeOK
    <2> QED BY <1>0, <2>1, <2>2, RequestSent DEF PlainMethods
  <1> QED BY <1>3, <1>4, <1>5, <1>6, <1>7, <1>8, <1>9, <1>10, Zenon

\* Every step of a plain session serves one request at a time.
LEMMA RequestStep ==
    ASSUME Plain, Grounds, PlainSession, OneRequest, [JdiNext]_jdiVars
    PROVE  PlainSession' /\ OneRequest'
  <1>1. CASE UNCHANGED jdiVars
    BY <1>1, NothingMoves, RequestSame DEF SidecarView
  <1>2. CASE JdiNext
    BY <1>2, PlainSteps, RequestSidecar, RequestReader, RequestDaemon, Zenon
  <1> QED BY <1>1, <1>2

-----------------------------------------------------------------------------
(* The order of the events on the wire.                                    *)

\* What the event loop does with the stop it has in hand.
LEMMA LoopStops ==
    ASSUME SidecarInv, loop.pc \in {"idle", "ended"} => loop.stop = NoEvent, LoopNext
    PROVE  \/ /\ UNCHANGED <<raised, toDaemon>>
              /\ loop'.stop = loop.stop \/ (loop.stop = NoEvent /\ loop'.stop \notin StopIds)
              /\ loop'.pc # "queue"
           \/ /\ loop.stop = NoEvent /\ loop'.pc = "queue"
              /\ loop'.stop = Len(raised) + 1 /\ loop'.stop \in StopIds
              /\ Len(raised') = Len(raised) + 1
              /\ toDaemon' = toDaemon
           \/ /\ loop.stop \in SidecarEvents
              /\ toDaemon' = Append(toDaemon, [type |-> "event", event |-> loop.stop])
              /\ loop'.pc # "queue" /\ loop'.stop = NoEvent
              /\ raised' = raised
  <1>0. SidecarTypeOK /\ loop \in LoopStates /\ raised \in Seq(Hits) /\ vmEvents \in Seq(VmEvents)
    BY DEF SidecarInv, SidecarTypeOK
  <1>1. CASE LoopAccepts
    <2>1. loop.stop = NoEvent /\ loop'.pc = "queue" /\ loop'.stop = Len(raised) + 1 /\ toDaemon' = toDaemon
      BY <1>1 DEF LoopAccepts, LoopReads
    <2>2. Len(raised) < MaxStops /\ Len(raised) \in Nat
      BY <1>0, <1>1, LenProperties DEF LoopAccepts
    <2>3. Len(raised) + 1 \in StopIds
      BY <2>2, MaxStopsAssumption DEF StopIds
    <2>4. Len(raised') = Len(raised) + 1
      <3>1. Head(vmEvents) \in VmEvents /\ Head(vmEvents).kind \in {"hit", "step"}
        BY <1>0, <1>1, TailSeq DEF LoopAccepts, LoopReads
      <3>2. [thread |-> Head(vmEvents).thread, policy |-> Head(vmEvents).policy] \in Hits
        BY <3>1 DEF VmEvents, Hits
      <3>3. raised' = Append(raised, [thread |-> Head(vmEvents).thread, policy |-> Head(vmEvents).policy])
        BY <1>1 DEF LoopAccepts
      <3> QED BY <1>0, <3>2, <3>3, AppendProperties
    <2> QED BY <2>1, <2>3, <2>4
  <1>2. CASE LoopRejects
    BY <1>2 DEF LoopRejects, LoopReads, queueVars
  <1>3. CASE LoopFails
    BY <1>3, EventsDistinct DEF LoopFails, LoopReads, LoopIdle, queueVars
  <1>4. CASE LoopQueuesStop
    <2>1. loop'.pc = "send" /\ loop'.stop = loop.stop
      BY <1>0, <1>4 DEF LoopQueuesStop, LoopStates
    <2> QED BY <1>4, <2>1 DEF LoopQueuesStop
  <1>5. CASE LoopVmStart
    BY <1>5, EventsDistinct DEF LoopVmStart, LoopReads
  <1>6. CASE LoopVmDeath
    BY <1>6, EventsDistinct DEF LoopVmDeath, LoopReads
  <1>7. CASE LoopSends
    <2>1. loop.stop \in SidecarEvents
      BY <1>0, <1>7 DEF LoopSends, SidecarInv, Known
    <2>2. loop'.pc # "queue" /\ loop'.stop = NoEvent
      <3>1. \/ loop' = [pc |-> "ended", stop |-> NoEvent]
            \/ loop' = LoopIdle
        BY <1>7, Zenon DEF LoopSends
      <3> QED BY <3>1 DEF LoopIdle
    <2> QED BY <1>7, <2>1, <2>2 DEF LoopSends, queueVars
  <1> QED BY <1>1, <1>2, <1>3, <1>4, <1>5, <1>6, <1>7 DEF LoopNext

\* The tail of a queue is the queue, one place earlier.
LEMMA Shifted ==
    ASSUME NEW S, NEW q \in Seq(S), q # <<>>
    PROVE  /\ \A i \in DOMAIN Tail(q) : i + 1 \in DOMAIN q /\ 1 < i + 1 /\ Tail(q)[i] = q[i + 1]
           /\ \A i, j \in DOMAIN Tail(q) : i < j => i + 1 < j + 1
           /\ \A i, j \in DOMAIN Tail(q) : i + 1 = j + 1 => i = j
  <1>1. /\ DOMAIN q = 1 .. Len(q) /\ Len(q) \in Nat
        /\ DOMAIN Tail(q) = 1 .. (Len(q) - 1)
        /\ \A i \in 1 .. (Len(q) - 1) : Tail(q)[i] = q[i + 1]
    BY Tailed
  <1> QED BY <1>1

\* Appending keeps the places of a queue and adds a last one.
LEMMA Lengthened ==
    ASSUME NEW S, NEW q \in Seq(S), NEW x \in S
    PROVE  /\ \A i \in DOMAIN Append(q, x) :
                 \/ i \in DOMAIN q /\ Append(q, x)[i] = q[i]
                 \/ i \notin DOMAIN q /\ Append(q, x)[i] = x
           /\ \A i, j \in DOMAIN Append(q, x) : i < j => i \in DOMAIN q /\ Append(q, x)[i] = q[i]
           /\ \A i, j \in DOMAIN Append(q, x) : i \notin DOMAIN q /\ j \notin DOMAIN q => i = j
           /\ DOMAIN q \subseteq DOMAIN Append(q, x)
  <1> DEFINE r == Append(q, x)
             n == Len(q)
  <1>1. /\ DOMAIN q = 1 .. n /\ n \in Nat
        /\ DOMAIN r = 1 .. (n + 1)
        /\ \A i \in 1 .. n : r[i] = q[i]
        /\ r[n + 1] = x
    BY Appended
  <1> HIDE DEF r, n
  <1>2. /\ \A i \in DOMAIN r :
             \/ i \in DOMAIN q /\ r[i] = q[i]
             \/ i \notin DOMAIN q /\ r[i] = x
        /\ \A i, j \in DOMAIN r : i < j => i \in DOMAIN q /\ r[i] = q[i]
        /\ \A i, j \in DOMAIN r : i \notin DOMAIN q /\ j \notin DOMAIN q => i = j
        /\ DOMAIN q \subseteq DOMAIN r
    BY <1>1
  <1> QED BY <1>2, Zenon DEF r

\* Messages leave the wire, or others than events of stops are put on it.
LEMMA WireKept ==
    ASSUME WireOrder, toDaemon \in Seq(Messages), raised' = raised,
           loop'.stop = loop.stop \/ loop'.stop \notin StopIds,
           loop'.pc # "queue" \/ loop' = loop,
           \/ toDaemon' = toDaemon
           \/ toDaemon # <<>> /\ toDaemon' = Tail(toDaemon)
           \/ \E m \in Messages : ~ StopEvent(m) /\ toDaemon' = Append(toDaemon, m)
    PROVE  WireOrder'
  <1>1. CASE toDaemon' = toDaemon
    BY <1>1 DEF WireOrder, StopEvent
  <1>2. CASE toDaemon # <<>> /\ toDaemon' = Tail(toDaemon)
    <2>2. \A i \in DOMAIN toDaemon' : i + 1 \in DOMAIN toDaemon /\ toDaemon'[i] = toDaemon[i + 1]
      BY <1>2, Shifted
    <2>3. \A i, j \in DOMAIN toDaemon' : i < j => i + 1 < j + 1
      BY <1>2, Shifted
    <2> QED BY <2>2, <2>3 DEF WireOrder, StopEvent
  <1>3. ASSUME NEW m \in Messages, ~ StopEvent(m), toDaemon' = Append(toDaemon, m) PROVE WireOrder'
    <2>1. \A i \in DOMAIN toDaemon' : \/ i \in DOMAIN toDaemon /\ toDaemon'[i] = toDaemon[i]
                                      \/ toDaemon'[i] = m
      BY <1>3, Lengthened
    <2>2. \A i \in DOMAIN toDaemon' : StopEvent(toDaemon'[i]) => i \in DOMAIN toDaemon /\ toDaemon'[i] = toDaemon[i]
      BY <1>3, <2>1 DEF StopEvent
    <2> QED BY <2>2 DEF WireOrder, StopEvent
  <1> QED BY <1>1, <1>2, <1>3

\* The stop the loop sends is the latest.
LEMMA WireOrderSends ==
    ASSUME WireOrder, toDaemon \in Seq(Messages), raised' = raised, loop.stop \in SidecarEvents,
           toDaemon' = Append(toDaemon, [type |-> "event", event |-> loop.stop]),
           loop'.pc # "queue", loop'.stop = NoEvent
    PROVE  WireOrder'
  <1> DEFINE m == [type |-> "event", event |-> loop.stop]
  <1>1. m \in Messages /\ m.event = loop.stop
    BY DEF Messages
  <1>2. toDaemon' = Append(toDaemon, m)
    OBVIOUS
  <1> HIDE DEF m
  <1>4. NoEvent \notin StopIds
    BY EventsDistinct
  <1>5. \A i \in DOMAIN toDaemon' : \/ i \in DOMAIN toDaemon /\ toDaemon'[i] = toDaemon[i]
                                    \/ toDaemon'[i] = m
    BY <1>1, <1>2, Lengthened
  <1>6. \A i \in DOMAIN toDaemon' : StopEvent(toDaemon'[i]) => toDaemon'[i].event <= Len(raised)
    <2> SUFFICES ASSUME NEW i \in DOMAIN toDaemon', StopEvent(toDaemon'[i])
                 PROVE  toDaemon'[i].event <= Len(raised)
      OBVIOUS
    <2>1. CASE i \in DOMAIN toDaemon /\ toDaemon'[i] = toDaemon[i]
      BY <2>1 DEF WireOrder
    <2>2. CASE toDaemon'[i] = m
      <3>1. loop.stop \in StopIds /\ loop.stop = Len(raised)
        BY <1>1, <2>2 DEF WireOrder, StopEvent
      <3> QED BY <1>1, <2>2, <3>1 DEF StopIds
    <2> QED BY <1>5, <2>1, <2>2
  <1>7. \A i, j \in DOMAIN toDaemon' :
            StopEvent(toDaemon'[i]) /\ StopEvent(toDaemon'[j]) /\ i < j =>
                toDaemon'[i].event < toDaemon'[j].event
    <2> SUFFICES ASSUME NEW i \in DOMAIN toDaemon', NEW j \in DOMAIN toDaemon',
                        StopEvent(toDaemon'[i]), StopEvent(toDaemon'[j]), i < j
                 PROVE  toDaemon'[i].event < toDaemon'[j].event
      OBVIOUS
    <2>1. i \in DOMAIN toDaemon /\ toDaemon'[i] = toDaemon[i]
      BY <1>1, <1>2, Lengthened
    <2>2. CASE j \in DOMAIN toDaemon /\ toDaemon'[j] = toDaemon[j]
      BY <2>1, <2>2 DEF WireOrder
    <2>3. CASE toDaemon'[j] = m
      BY <1>1, <2>1, <2>3 DEF WireOrder, StopEvent
    <2> QED BY <1>5, <2>2, <2>3
  <1> QED BY <1>4, <1>6, <1>7 DEF WireOrder, StopEvent

\* Every step keeps the order of the events on the wire.
LEMMA WireOrderStep ==
    ASSUME SessionInv, InboxTypeOK, ExitLast, WireOrder, [JdiNext]_jdiVars
    PROVE  WireOrder'
  <1>0. SidecarInv /\ SidecarTypeOK /\ toDaemon \in Seq(Messages) /\ raised \in Seq(Hits)
    BY DEF SessionInv, SidecarInv, SidecarTypeOK
  <1>1. CASE UNCHANGED jdiVars
    <2>1. UNCHANGED <<loop, raised, toDaemon>>
      BY <1>1, NothingMoves
    <2> QED BY <1>0, <2>1, WireKept
  <1>2. CASE SidecarActs /\ TargetNext
    <2>1. UNCHANGED <<loop, raised, toDaemon>>
      BY <1>2, SidecarLeaves
    <2> QED BY <1>0, <2>1, WireKept
  <1>3. CASE SidecarActs /\ RpcNext
    <2>1. UNCHANGED <<loop, raised>>
      BY <1>3, SidecarLeaves
    <2>2. CASE RpcReplies
      <3> DEFINE m == [type |-> "response", id |-> rpc.id, result |-> rpc.result]
      <3>1. m \in Messages /\ ~ StopEvent(m)
        BY <1>0 DEF SidecarTypeOK, RpcStates, Messages, StopEvent
      <3>2. toDaemon' = Append(toDaemon, m)
        BY <2>2 DEF RpcReplies
      <3> HIDE DEF m
      <3> QED BY <1>0, <2>1, <3>1, <3>2, WireKept
    <2>3. CASE toDaemon' = toDaemon
      BY <1>0, <2>1, <2>3, WireKept
    <2> QED BY <1>0, <1>3, <2>2, <2>3, RpcMoves
  <1>4. CASE SidecarActs /\ LoopNext
    <2>1. loop.pc \in {"idle", "ended"} => loop.stop = NoEvent
      BY DEF ExitLast
    <2>2. CASE /\ UNCHANGED <<raised, toDaemon>>
               /\ loop'.stop = loop.stop \/ (loop.stop = NoEvent /\ loop'.stop \notin StopIds)
               /\ loop'.pc # "queue"
      BY <1>0, <2>2, WireKept
    <2>3. CASE /\ loop.stop = NoEvent /\ loop'.pc = "queue"
               /\ loop'.stop = Len(raised) + 1 /\ loop'.stop \in StopIds
               /\ Len(raised') = Len(raised) + 1
               /\ toDaemon' = toDaemon
      <3>1. \A i \in DOMAIN toDaemon : StopEvent(toDaemon[i]) => toDaemon[i].event \in Nat
        BY DEF StopEvent, StopIds
      <3>2. Len(raised) \in Nat
        BY <1>0, LenProperties
      <3> QED BY <2>3, <3>1, <3>2 DEF WireOrder, StopEvent
    <2>4. CASE /\ loop.stop \in SidecarEvents
               /\ toDaemon' = Append(toDaemon, [type |-> "event", event |-> loop.stop])
               /\ loop'.pc # "queue" /\ loop'.stop = NoEvent
               /\ raised' = raised
      BY <1>0, <2>4, WireOrderSends
    <2> QED BY <1>0, <1>4, <2>1, <2>2, <2>3, <2>4, LoopStops
  <1>5. CASE ReaderQueuesEvent \/ ReaderDeliversResponse
    <2>1. UNCHANGED <<loop, raised>> /\ toDaemon # <<>> /\ toDaemon' = Tail(toDaemon)
      BY <1>5 DEF ReaderQueuesEvent, ReaderDeliversResponse, queueVars
    <2> QED BY <1>0, <2>1, WireKept
  <1>6. CASE \/ ReaderSinksEvent \/ ReaderEnds \/ RegisterSink \/ PollerNext \/ ClientNext \/ CmdNext
             \/ CmdRequestTimesOut \/ SidecarCrashes
    <2>1. UNCHANGED <<loop, raised>>
      BY <1>6, DaemonLeaves DEF ReaderNext
    <2>2. toDaemon' = toDaemon
      BY <1>6, ExitNotInvented
    <2> QED BY <1>0, <2>1, <2>2, WireKept
  <1> QED BY <1>1, <1>2, <1>3, <1>4, <1>5, <1>6 DEF JdiNext, ReaderNext, SidecarActs

\* What remains of a queue after RemoveFirst keeps its order.
LEMMA FirstRemovedOrder ==
    ASSUME NEW S, NEW q \in Seq(S), NEW x
    PROVE  \A i, j \in DOMAIN RemoveFirst(q, x) : i < j =>
               \E k, l \in DOMAIN q : /\ k < l
                                      /\ RemoveFirst(q, x)[i] = q[k]
                                      /\ RemoveFirst(q, x)[j] = q[l]
  <1>1. CASE x \notin ToSet(q)
    BY <1>1, FirstRemoved
  <1>2. CASE x \in ToSet(q)
    <2>1. PICK m \in DOMAIN q : q[m] = x /\ RemoveFirst(q, x) = RemoveAt(q, m)
      BY <1>2, FirstRemoved
    <2> DEFINE r == RemoveAt(q, m)
               n == Len(q)
    <2>2. /\ DOMAIN r = 1 .. (n - 1)
          /\ \A k \in 1 .. (n - 1) : r[k] = IF k < m THEN q[k] ELSE q[k + 1]
          /\ n \in Nat /\ DOMAIN q = 1 .. n
      BY RemovedAt
    <2> HIDE DEF r, n
    <2> DEFINE at(k) == IF k < m THEN k ELSE k + 1
    <2>3. \A k \in DOMAIN r : at(k) \in DOMAIN q /\ r[k] = q[at(k)]
      BY <2>2
    <2>4. \A i, j \in DOMAIN r : i < j => at(i) < at(j)
      BY <2>2
    <2> HIDE DEF at
    <2>5. \A i, j \in DOMAIN r : i < j => \E k, l \in DOMAIN q : k < l /\ r[i] = q[k] /\ r[j] = q[l]
      BY <2>3, <2>4
    <2> QED BY <2>1, <2>5 DEF r
  <1> QED BY <1>1, <1>2

\* A stop comes into sight of the wire only as it is raised.
LEMMA ComingMoves ==
    ASSUME SessionInv, InboxTypeOK, ExitLast, [JdiNext]_jdiVars
    PROVE  /\ Len(raised) \in Nat /\ Len(raised') \in Nat /\ Len(raised') >= Len(raised)
           /\ \A s \in StopIds : Coming(s)' => Coming(s) \/ s > Len(raised)
  <1>0. SidecarInv /\ SidecarTypeOK /\ toDaemon \in Seq(Messages) /\ raised \in Seq(Hits) /\ NoEvent \notin StopIds
    BY EventsDistinct DEF SessionInv, SidecarInv, SidecarTypeOK
  <1>1. Len(raised) \in Nat
    BY <1>0, LenProperties
  <1> DEFINE ev(s) == [type |-> "event", event |-> s]
             onWire == \A s \in StopIds : ev(s) \in ToSet(toDaemon') => ev(s) \in ToSet(toDaemon)
  <1>2. ASSUME UNCHANGED <<raised, loop>>, onWire
        PROVE  /\ Len(raised) \in Nat /\ Len(raised') \in Nat /\ Len(raised') >= Len(raised)
               /\ \A s \in StopIds : Coming(s)' => Coming(s) \/ s > Len(raised)
    BY <1>1, <1>2 DEF Coming
  <1>3. CASE SidecarActs /\ LoopNext
    <2>1. loop.pc \in {"idle", "ended"} => loop.stop = NoEvent
      BY DEF ExitLast
    <2>2. CASE /\ UNCHANGED <<raised, toDaemon>>
               /\ loop'.stop = loop.stop \/ (loop.stop = NoEvent /\ loop'.stop \notin StopIds)
      BY <1>1, <2>2 DEF Coming
    <2>3. CASE /\ loop'.stop = Len(raised) + 1 /\ loop'.stop \in StopIds
               /\ Len(raised') = Len(raised) + 1
               /\ toDaemon' = toDaemon
      BY <1>1, <2>3 DEF Coming
    <2>4. CASE /\ loop.stop \in SidecarEvents
               /\ toDaemon' = Append(toDaemon, [type |-> "event", event |-> loop.stop])
               /\ loop'.stop = NoEvent
               /\ raised' = raised
      <3>1. ev(loop.stop) \in Messages
        BY <2>4 DEF Messages
      <3>2. ToSet(toDaemon') = ToSet(toDaemon) \cup {ev(loop.stop)}
        BY <1>0, <2>4, <3>1, Appended
      <3>3. \A s \in StopIds : ev(s) = ev(loop.stop) => s = loop.stop
        OBVIOUS
      <3> QED BY <1>0, <1>1, <2>4, <3>2, <3>3 DEF Coming
    <2> QED BY <1>0, <1>3, <2>1, <2>2, <2>3, <2>4, LoopStops
  <1>4. CASE SidecarActs /\ (TargetNext \/ (RpcNext /\ toDaemon' = toDaemon))
    BY <1>2, <1>4, SidecarLeaves
  <1>5. CASE SidecarActs /\ RpcReplies
    <2> DEFINE m == [type |-> "response", id |-> rpc.id, result |-> rpc.result]
    <2>1. m \in Messages /\ m.type = "response"
      BY <1>0 DEF SidecarTypeOK, RpcStates, Messages
    <2>2. toDaemon' = Append(toDaemon, m) /\ UNCHANGED <<raised, loop>>
      BY <1>5 DEF RpcReplies, queueVars
    <2> HIDE DEF m
    <2>3. ToSet(toDaemon') = ToSet(toDaemon) \cup {m}
      BY <1>0, <2>1, <2>2, Appended
    <2>4. \A s \in StopIds : ev(s).type = "event"
      OBVIOUS
    <2> HIDE DEF ev
    <2>5. \A s \in StopIds : ev(s) # m
      BY <2>1, <2>4
    <2> QED BY <1>2, <2>2, <2>3, <2>5
  <1>6. CASE ReaderQueuesEvent \/ ReaderDeliversResponse
    <2>1. UNCHANGED <<loop, raised>> /\ toDaemon # <<>> /\ toDaemon' = Tail(toDaemon)
      BY <1>6 DEF ReaderQueuesEvent, ReaderDeliversResponse, queueVars
    <2>2. ToSet(toDaemon') \subseteq ToSet(toDaemon)
      BY <1>0, <2>1, Tailed
    <2> QED BY <1>2, <2>1, <2>2
  <1>7. CASE \/ ReaderSinksEvent \/ ReaderEnds \/ RegisterSink \/ PollerNext \/ ClientNext \/ CmdNext
             \/ CmdRequestTimesOut \/ SidecarCrashes
    <2>1. UNCHANGED <<loop, raised>>
      BY <1>7, DaemonLeaves DEF ReaderNext
    <2>2. toDaemon' = toDaemon
      BY <1>7, ExitNotInvented
    <2> QED BY <1>2, <2>1, <2>2
  <1>8. CASE UNCHANGED jdiVars
    BY <1>2, <1>8, NothingMoves
  <1>9. SidecarActs /\ RpcNext => toDaemon' = toDaemon \/ RpcReplies
    BY <1>0, RpcMoves
  <1> HIDE DEF onWire, ev
  <1> QED BY <1>3, <1>4, <1>5, <1>6, <1>7, <1>8, <1>9 DEF JdiNext, ReaderNext, SidecarActs

\* Steps that show the inbox no stop it has not seen.
LEMMA OrderKept ==
    ASSUME InboxOrder,
           Len(raised) \in Nat, Len(raised') \in Nat, Len(raised') >= Len(raised),
           \A s \in StopIds : Coming(s)' => Coming(s) \/ s > Len(raised),
           UNCHANGED <<pendingStops, deliveredIds, sunk>>,
           Copies' \subseteq Copies, Seen' \subseteq Seen,
           \A s \in StopIds : Held(s) => Held(s)',
           pendingStops \in Seq(StopIds)
    PROVE  InboxOrder'
  <1>0. StopIds \subseteq Nat
    BY DEF StopIds
  <1>1. \A i \in DOMAIN pendingStops : pendingStops[i] \in StopIds
    BY LenProperties, ElementOfSeq
  <1>2. \A x \in Seen' \cap StopIds : x <= Len(raised') /\ \A y \in StopIds : Coming(y)' => x < y
    <2> SUFFICES ASSUME NEW x \in Seen' \cap StopIds
                 PROVE  x <= Len(raised') /\ \A y \in StopIds : Coming(y)' => x < y
      OBVIOUS
    <2>1. x <= Len(raised) /\ \A y \in StopIds : Coming(y) => x < y
      BY DEF InboxOrder
    <2>2. x \in Nat /\ x <= Len(raised')
      <3>1. \A a, b, c \in Nat : a <= b /\ c >= b => a <= c
        OBVIOUS
      <3>2. x \in Nat
        BY <1>0
      <3> QED BY <2>1, <3>1, <3>2, Zenon
    <2>3. ASSUME NEW y \in StopIds, Coming(y)' PROVE x < y
      <3>1. CASE Coming(y)
        BY <2>1, <3>1
      <3>2. CASE y > Len(raised)
        <4>1. y \in Nat
          BY <1>0
        <4> QED BY <2>1, <2>2, <3>2, <4>1
      <3> QED BY <2>3, <3>1, <3>2
    <2> QED BY <2>2, <2>3
  <1>3. \A i, j \in DOMAIN pendingStops : i < j => pendingStops[i] < pendingStops[j] \/ Held(pendingStops[j])'
    BY <1>1 DEF InboxOrder
  <1>4. sunk \in StopIds => \A y \in (ToSet(pendingStops) \cup Copies') \cap StopIds : y <= sunk
    BY DEF InboxOrder
  <1>5. \A x \in Copies' \cap StopIds :
          x \in ToSet(deliveredIds) \cup ToSet(pendingStops) \cup {sunk} \/ Held(x)'
    BY DEF InboxOrder
  <1> QED BY <1>2, <1>3, <1>4, <1>5 DEF InboxOrder

-----------------------------------------------------------------------------
(* The order of the inbox.                                                 *)

\* What a stop that is applied does to the queue of pending stops.
LEMMA AppliedQueues ==
    ASSUME InboxTypeOK, NEW e \in SidecarEvents, ApplySidecarEvent(e)
    PROVE  /\ deliveredIds' = deliveredIds
           /\ \/ pendingStops' = pendingStops
              \/ /\ e \in StopIds /\ state \notin Over
                 /\ e \notin ToSet(deliveredIds) \cup ToSet(pendingStops)
                 /\ pendingStops' = Append(pendingStops, e)
           /\ e \in StopIds => \/ state \in Over
                               \/ e \in ToSet(deliveredIds) \cup ToSet(pendingStops')
  <1>1. CASE e = VmExit /\ ApplyVmExit
    BY <1>1, EventsDistinct DEF ApplyVmExit
  <1>2. CASE e = VmStart /\ UNCHANGED inboxVars
    BY <1>2, EventsDistinct DEF inboxVars
  <1>3. CASE e \in StopIds /\ ApplyStop(e)
    <2>1. CASE state \in Over \/ e \in ToSet(deliveredIds) \/ e \in ToSet(pendingStops)
      <3>1. UNCHANGED inboxVars
        BY <1>3, <2>1 DEF ApplyStop
      <3> QED BY <2>1, <3>1 DEF inboxVars
    <2>2. CASE ~ (state \in Over \/ e \in ToSet(deliveredIds) \/ e \in ToSet(pendingStops))
      <3>1. pendingStops' = Append(pendingStops, e) /\ deliveredIds' = deliveredIds
        BY <1>3, <2>2 DEF ApplyStop
      <3>2. e \in ToSet(pendingStops')
        BY <1>3, <3>1, Appended DEF InboxTypeOK
      <3> QED BY <1>3, <2>2, <3>1, <3>2
    <2> QED BY <2>1, <2>2
  <1> QED BY <1>1, <1>2, <1>3 DEF ApplySidecarEvent

\* A stop that comes last, or is in hand, joins the pending ones in order.
LEMMA OrderAppends ==
    ASSUME NEW q \in Seq(StopIds), NEW e \in StopIds, NEW T, NEW q2 \in {q, Append(q, e)},
           \A i, j \in DOMAIN q : i < j => q[i] < q[j] \/ q[j] \in T,
           q2 # q => (\A y \in ToSet(q) : y < e) \/ e \in T
    PROVE  \A i, j \in DOMAIN q2 : i < j => q2[i] < q2[j] \/ q2[j] \in T
  <1>1. CASE q2 = q
    BY <1>1
  <1>2. CASE q2 # q
    <2>1. q2 = Append(q, e)
      BY <1>2
    <2>2. /\ \A i \in DOMAIN q2 : \/ i \in DOMAIN q /\ q2[i] = q[i]
                                  \/ i \notin DOMAIN q /\ q2[i] = e
          /\ \A i, j \in DOMAIN q2 : i < j => i \in DOMAIN q /\ q2[i] = q[i]
      BY <2>1, Lengthened
    <2> SUFFICES ASSUME NEW i \in DOMAIN q2, NEW j \in DOMAIN q2, i < j
                 PROVE  q2[i] < q2[j] \/ q2[j] \in T
      OBVIOUS
    <2>3. i \in DOMAIN q /\ q2[i] = q[i] /\ q[i] \in ToSet(q)
      BY <2>2 DEF ToSet
    <2>4. CASE j \in DOMAIN q /\ q2[j] = q[j]
      BY <2>3, <2>4
    <2>5. CASE q2[j] = e
      BY <1>2, <2>3, <2>5
    <2> QED BY <2>2, <2>4, <2>5
  <1> QED BY <1>1, <1>2

\* A worker applies an event it has drained: the sink has been there before.
LEMMA OrderApplies ==
    ASSUME SessionTypeOK, InboxTypeOK, InboxOrder, NEW w \in Workers, AppliesOne(w),
           UNCHANGED <<loop, raised, toDaemon, events, sunk, cmd>>
    PROVE  InboxOrder'
  <1> DEFINE h == Head(batch[w])
             T == {s \in StopIds : Held(s)}
  <1>0. StopIds \subseteq Nat
    BY DEF StopIds
  <1>1. /\ batch \in [Workers -> Seq(SidecarEvents)] /\ batch[w] \in Seq(SidecarEvents)
        /\ batch[w] # <<>> /\ batch' = [batch EXCEPT ![w] = Tail(@)] /\ ApplySidecarEvent(h)
    BY DEF SessionTypeOK, AppliesOne
  <1>2. h \in SidecarEvents /\ h \in Copies /\ Copies' \subseteq Copies
    <2>1. ToSet(batch[w]) = {h} \cup ToSet(Tail(batch[w])) /\ h \in SidecarEvents
      BY <1>1, Tailed
    <2>2. \A v \in Workers : ToSet(batch'[v]) \subseteq ToSet(batch[v])
      BY <1>1, <2>1
    <2>3. Copies' \subseteq Copies
      BY <2>2 DEF Copies
    <2> QED BY <2>1, <2>3 DEF Copies
  <1> HIDE DEF h
  <1>3. /\ deliveredIds' = deliveredIds
        /\ \/ pendingStops' = pendingStops
           \/ /\ h \in StopIds /\ h \notin ToSet(deliveredIds) \cup ToSet(pendingStops)
              /\ pendingStops' = Append(pendingStops, h)
    BY <1>1, <1>2, AppliedQueues
  <1>4. pendingStops \in Seq(StopIds)
    BY DEF InboxTypeOK
  <1>5. ToSet(pendingStops) \subseteq ToSet(pendingStops') /\ ToSet(pendingStops') \subseteq ToSet(pendingStops) \cup {h}
    <2>1. CASE pendingStops' = pendingStops
      BY <2>1
    <2>2. CASE h \in StopIds /\ pendingStops' = Append(pendingStops, h)
      BY <1>4, <2>2, Appended
    <2> QED BY <1>3, <2>1, <2>2
  <1>6. \A i, j \in DOMAIN pendingStops : i < j => pendingStops[i] < pendingStops[j] \/ pendingStops[j] \in T
    BY <1>4, ElementOfSeq, LenProperties DEF InboxOrder
  <1>7. pendingStops' # pendingStops => (\A y \in ToSet(pendingStops) : y < h) \/ h \in T
    <2> SUFFICES ASSUME pendingStops' # pendingStops, h \notin T
                 PROVE  \A y \in ToSet(pendingStops) : y < h
      OBVIOUS
    <2>1. h \in StopIds /\ h \notin ToSet(deliveredIds) \cup ToSet(pendingStops)
      BY <1>3
    <2>2. h = sunk
      BY <1>2, <2>1 DEF InboxOrder
    <2>3. \A y \in ToSet(pendingStops) : y \in StopIds
      BY <1>4, MemberOfSeq
    <2>4. \A y \in ToSet(pendingStops) : y <= h /\ y # h
      BY <2>1, <2>2, <2>3 DEF InboxOrder
    <2>5. \A a, b \in Nat : a <= b /\ a # b => a < b
      OBVIOUS
    <2>6. h \in Nat /\ \A y \in ToSet(pendingStops) : y \in Nat
      BY <1>0, <2>1, <2>3
    <2> QED BY <2>4, <2>5, <2>6, Zenon
  <1>8. \A i, j \in DOMAIN pendingStops' : i < j => pendingStops'[i] < pendingStops'[j] \/ pendingStops'[j] \in T
    <2>1. CASE pendingStops' = pendingStops
      BY <1>6, <2>1
    <2>2. CASE pendingStops' # pendingStops
      <3>1. h \in StopIds /\ pendingStops' \in {pendingStops, Append(pendingStops, h)}
        BY <1>3, <2>2
      <3> QED BY <1>4, <1>6, <1>7, <3>1, OrderAppends
    <2> QED BY <2>1, <2>2
  <1>9. \A s : Held(s)' <=> Held(s)
    BY DEF Held
  <1>10. \A s : Coming(s)' <=> Coming(s)
    BY DEF Coming
  <1>11. Seen' \subseteq Seen
    BY <1>2, <1>5 DEF Seen
  <1>12. \A x \in Seen' \cap StopIds : x <= Len(raised') /\ \A y \in StopIds : Coming(y)' => x < y
    BY <1>10, <1>11 DEF InboxOrder
  <1>13. sunk \in StopIds => \A y \in (ToSet(pendingStops') \cup Copies') \cap StopIds : y <= sunk
    BY <1>2, <1>5 DEF InboxOrder
  <1>14. \A x \in Copies' \cap StopIds :
            x \in ToSet(deliveredIds) \cup ToSet(pendingStops') \cup {sunk} \/ Held(x)
    BY <1>2, <1>5 DEF InboxOrder
  <1>15. \A i, j \in DOMAIN pendingStops' : i < j => pendingStops'[i] < pendingStops'[j] \/ Held(pendingStops'[j])
    BY <1>8
  <1> QED BY <1>3, <1>9, <1>12, <1>13, <1>14, <1>15 DEF InboxOrder, Held

\* The reader takes the first event off the wire: the other ones come later.
LEMMA OrderQueues ==
    ASSUME SessionInv, InboxTypeOK, WireOrder, InboxOrder, ReaderQueuesEvent
    PROVE  InboxOrder'
  <1> DEFINE e == Head(toDaemon).event
  <1>0. /\ toDaemon \in Seq(Messages) /\ events \in Seq(SidecarEvents) /\ raised \in Seq(Hits)
        /\ NoEvent \notin StopIds /\ StopIds \subseteq Nat
    BY EventsDistinct DEF SessionInv, SidecarInv, SidecarTypeOK, SessionTypeOK, StopIds
  <1>1. /\ toDaemon # <<>> /\ Head(toDaemon).type = "event" /\ toDaemon' = Tail(toDaemon)
        /\ events' = Append(events, e) /\ sunk = NoEvent /\ sunk' = e
        /\ UNCHANGED <<raised, loop, batch, cmd, pendingStops, deliveredIds>>
    BY DEF ReaderQueuesEvent, queueVars, pollVars, Untouched, inboxVars
  <1>2. /\ e \in SidecarEvents
        /\ 1 \in DOMAIN toDaemon /\ toDaemon[1] = Head(toDaemon)
        /\ ToSet(toDaemon') \subseteq ToSet(toDaemon)
        /\ [type |-> "event", event |-> e] \in ToSet(toDaemon)
    <2>1. /\ 1 \in DOMAIN toDaemon /\ toDaemon[1] = Head(toDaemon) /\ Head(toDaemon) \in Messages
          /\ ToSet(toDaemon) = {Head(toDaemon)} \cup ToSet(toDaemon')
      BY <1>0, <1>1, Tailed
    <2>2. Head(toDaemon) = [type |-> "event", event |-> e] /\ e \in SidecarEvents
      BY <1>1, <2>1 DEF Messages
    <2> QED BY <2>1, <2>2
  <1>3. \A i \in DOMAIN toDaemon' : i + 1 \in DOMAIN toDaemon /\ 1 < i + 1 /\ toDaemon'[i] = toDaemon[i + 1]
    BY <1>0, <1>1, Shifted
  <1>4. e \in StopIds => Coming(e) /\ e <= Len(raised) /\ (loop.stop \in StopIds => e < loop.stop)
    <2> SUFFICES ASSUME e \in StopIds
                 PROVE  Coming(e) /\ e <= Len(raised) /\ (loop.stop \in StopIds => e < loop.stop)
      OBVIOUS
    <2>1. StopEvent(toDaemon[1]) /\ toDaemon[1].event = e
      BY <1>1, <1>2 DEF StopEvent
    <2> HIDE DEF e
    <2> QED BY <1>2, <2>1 DEF WireOrder, Coming
  <1>5. e \in StopIds => \A y \in StopIds : Coming(y)' => e < y
    <2> SUFFICES ASSUME e \in StopIds, NEW y \in StopIds, Coming(y)' PROVE e < y
      OBVIOUS
    <2>1. CASE loop.stop = y
      BY <1>4, <2>1
    <2>2. CASE [type |-> "event", event |-> y] \in ToSet(toDaemon')
      <3>1. PICK i \in DOMAIN toDaemon' : toDaemon'[i] = [type |-> "event", event |-> y]
        BY <2>2 DEF ToSet
      <3>2. /\ i + 1 \in DOMAIN toDaemon /\ 1 < i + 1
            /\ toDaemon[i + 1].type = "event" /\ toDaemon[i + 1].event = y
        BY <1>3, <3>1
      <3>3. StopEvent(toDaemon[i + 1]) /\ StopEvent(toDaemon[1]) /\ toDaemon[1].event = e
        BY <1>1, <1>2, <3>2 DEF StopEvent
      <3> HIDE DEF e
      <3> QED BY <1>2, <3>2, <3>3 DEF WireOrder
    <2> QED BY <1>1, <2>1, <2>2 DEF Coming
  <1> HIDE DEF e
  <1>6. Copies' = Copies \cup {e}
    BY <1>0, <1>1, <1>2, Appended DEF Copies
  <1>7. Seen' \subseteq Seen \cup {e}
    BY <1>1, <1>6 DEF Seen
  <1>8. \A y \in StopIds : Coming(y)' => Coming(y)
    BY <1>1, <1>2 DEF Coming
  <1>9. \A s : Held(s)' <=> Held(s)
    BY <1>1 DEF Held
  <1>10. \A x \in Seen' \cap StopIds : x <= Len(raised') /\ \A y \in StopIds : Coming(y)' => x < y
    <2> SUFFICES ASSUME NEW x \in Seen' \cap StopIds
                 PROVE  x <= Len(raised) /\ \A y \in StopIds : Coming(y)' => x < y
      BY <1>1
    <2>1. CASE x = e
      BY <1>4, <1>5, <2>1
    <2>2. CASE x \in Seen
      BY <1>8, <2>2 DEF InboxOrder
    <2> QED BY <1>7, <2>1, <2>2
  <1>11. e \in StopIds => \A y \in (ToSet(pendingStops) \cup Copies') \cap StopIds : y <= e
    <2> SUFFICES ASSUME e \in StopIds, NEW y \in (ToSet(pendingStops) \cup Copies') \cap StopIds PROVE y <= e
      OBVIOUS
    <2>1. CASE y = e
      BY <1>0, <2>1
    <2>2. CASE y # e
      <3>1. y \in Seen
        BY <1>6, <2>2 DEF Seen
      <3>2. y < e
        BY <1>4, <3>1 DEF InboxOrder
      <3>3. \A a, b \in Nat : a < b => a <= b
        OBVIOUS
      <3> QED BY <1>0, <3>2, <3>3
    <2> QED BY <2>1, <2>2
  <1>12. \A x \in Copies' \cap StopIds :
            x \in ToSet(deliveredIds) \cup ToSet(pendingStops) \cup {e} \/ Held(x)
    BY <1>0, <1>1, <1>6 DEF InboxOrder
  <1>13. \A i, j \in DOMAIN pendingStops : i < j => pendingStops[i] < pendingStops[j] \/ Held(pendingStops[j])
    BY DEF InboxOrder
  <1> QED BY <1>1, <1>9, <1>10, <1>11, <1>12, <1>13 DEF InboxOrder, Held

\* The sink applies the event: it comes after every pending one.
LEMMA OrderSinks ==
    ASSUME SessionInv, InboxTypeOK, DeadIsDead, BeforeSink, ExitLast, alive, InboxOrder, ReaderSinksEvent
    PROVE  InboxOrder'
  <1>0. sunk \in SidecarEvents \cup {NoEvent} /\ NoEvent \notin StopIds /\ StopIds \subseteq Nat
        /\ pendingStops \in Seq(StopIds)
    BY EventsDistinct DEF SessionInv, SessionTypeOK, StopIds, InboxTypeOK
  <1>1. /\ sunk # NoEvent /\ sunk' = NoEvent
        /\ UNCHANGED <<raised, loop, toDaemon, batch, events, cmd>>
        /\ \/ sinkOn /\ ApplySidecarEvent(sunk)
           \/ ~ sinkOn /\ UNCHANGED <<pendingStops, deliveredIds>>
    BY DEF ReaderSinksEvent, sidecarVars, queueVars, pollVars, Untouched, inboxVars
  <1>2. sunk \in StopIds => sinkOn /\ state \notin Over
    <2>1. ASSUME sunk \in StopIds PROVE sinkOn
      <3>1. sunk \in Nat /\ sunk # 0 /\ sunk <= Len(raised)
        BY <1>0, <2>1 DEF InboxOrder, Seen, StopIds
      <3>2. raised # <<>>
        <4>1. Len(<<>>) = 0
          BY EmptySeq
        <4>2. ~ (sunk <= 0)
          BY <3>1
        <4> QED BY <3>1, <4>1, <4>2
      <3> QED BY <3>2 DEF BeforeSink
    <2>2. ASSUME sunk \in StopIds PROVE state \notin Over
      BY <2>2 DEF ExitLast, ExitTold, DeadIsDead, Over
    <2> QED BY <2>1, <2>2
  <1>3. /\ deliveredIds' = deliveredIds
        /\ \/ pendingStops' = pendingStops
           \/ /\ sunk \in StopIds /\ sunk \notin ToSet(deliveredIds) \cup ToSet(pendingStops)
              /\ pendingStops' = Append(pendingStops, sunk)
        /\ sunk \in StopIds => sunk \in ToSet(deliveredIds) \cup ToSet(pendingStops')
    <2>1. CASE sinkOn /\ ApplySidecarEvent(sunk)
      BY <1>0, <1>1, <1>2, <2>1, AppliedQueues
    <2>2. CASE ~ sinkOn /\ UNCHANGED <<pendingStops, deliveredIds>>
      BY <1>2, <2>2
    <2> QED BY <1>1, <2>1, <2>2
  <1>4. ToSet(pendingStops) \subseteq ToSet(pendingStops') /\ ToSet(pendingStops') \subseteq ToSet(pendingStops) \cup {sunk}
    <2>1. CASE pendingStops' = pendingStops
      BY <2>1
    <2>2. CASE sunk \in StopIds /\ pendingStops' = Append(pendingStops, sunk)
      BY <1>0, <2>2, Appended
    <2> QED BY <1>3, <2>1, <2>2
  <1> DEFINE T == {s \in StopIds : Held(s)}
  <1>5. \A i, j \in DOMAIN pendingStops : i < j => pendingStops[i] < pendingStops[j] \/ pendingStops[j] \in T
    BY <1>0, ElementOfSeq, LenProperties DEF InboxOrder
  <1>6. \A i, j \in DOMAIN pendingStops' : i < j => pendingStops'[i] < pendingStops'[j] \/ pendingStops'[j] \in T
    <2>1. CASE pendingStops' = pendingStops
      BY <1>5, <2>1
    <2>2. CASE /\ sunk \in StopIds /\ sunk \notin ToSet(pendingStops)
               /\ pendingStops' = Append(pendingStops, sunk)
      <3>1. \A a, b \in Nat : a <= b /\ a # b => a < b
        OBVIOUS
      <3>2. \A y \in ToSet(pendingStops) : y \in StopIds /\ y \in Nat
        BY <1>0, MemberOfSeq
      <3>3. \A y \in ToSet(pendingStops) : y <= sunk /\ y # sunk
        BY <2>2, <3>2 DEF InboxOrder
      <3>4. \A y \in ToSet(pendingStops) : y < sunk
        BY <1>0, <2>2, <3>1, <3>2, <3>3, Zenon
      <3>5. sunk \in StopIds /\ pendingStops' \in {pendingStops, Append(pendingStops, sunk)}
        BY <2>2
      <3> QED BY <1>0, <1>5, <3>4, <3>5, OrderAppends
    <2> QED BY <1>3, <2>1, <2>2
  <1>7. Copies' = Copies
    BY <1>1 DEF Copies
  <1>8. Seen' \subseteq Seen \cup {NoEvent}
    BY <1>1, <1>4, <1>7 DEF Seen
  <1>9. \A s : (Held(s)' <=> Held(s)) /\ (Coming(s)' <=> Coming(s))
    BY <1>1 DEF Held, Coming
  <1>10. \A x \in Seen' \cap StopIds : x <= Len(raised') /\ \A y \in StopIds : Coming(y)' => x < y
    BY <1>0, <1>1, <1>8, <1>9 DEF InboxOrder
  <1>11. \A x \in Copies' \cap StopIds :
            x \in ToSet(deliveredIds) \cup ToSet(pendingStops') \/ Held(x)
    BY <1>3, <1>4, <1>7 DEF InboxOrder
  <1>12. \A i, j \in DOMAIN pendingStops' : i < j => pendingStops'[i] < pendingStops'[j] \/ Held(pendingStops'[j])
    BY <1>6
  <1> QED BY <1>0, <1>1, <1>3, <1>9, <1>10, <1>11, <1>12 DEF InboxOrder, Held

\* The command thread takes the first pending stop in hand.
LEMMA OrderTakes ==
    ASSUME SessionInv, InboxTypeOK, InboxOrder, CmdTakesPending,
           UNCHANGED <<loop, raised, toDaemon>>
    PROVE  InboxOrder'
  <1> DEFINE h == Head(pendingStops)
  <1>0. /\ cmd \in CmdStates /\ pendingStops \in Seq(StopIds) /\ pendingStops # <<>>
        /\ pendingStops' = Tail(pendingStops)
        /\ UNCHANGED <<deliveredIds, events, sunk, batch>>
        /\ cmd.pc \in {"applied", "graceApplied"}
    BY DEF SessionInv, SessionTypeOK, InboxTypeOK, CmdTakesPending, PopPending, transportVars, pollVars, At
  <1>1. cmd'.pc = "acking" /\ cmd'.stop = h
    <2>1. CmdNext /\ ~ CmdApplies /\ ~ CmdApplied
      BY <1>0 DEF CmdNext, CmdApplies, CmdApplied
    <2>2. \/ cmd' = [cmd EXCEPT !.pc = "acking", !.id = requestId + 1, !.reply = NoReply, !.stop = h]
          \/ cmd' = [cmd EXCEPT !.pc = "acking", !.id = 0, !.reply = RpcError, !.stop = h]
      BY Zenon DEF CmdTakesPending, Sends
    <2> HIDE DEF h
    <2> QED BY <1>0, <2>2 DEF CmdStates
  <1>2. ToSet(pendingStops) = {h} \cup ToSet(pendingStops') /\ h \in ToSet(pendingStops)
    BY <1>0, Tailed
  <1> HIDE DEF h
  <1>3. Copies' = Copies
    BY <1>0 DEF Copies
  <1>4. Seen' \subseteq Seen
    BY <1>0, <1>1, <1>2, <1>3 DEF Seen
  <1>5. \A s : Coming(s)' <=> Coming(s)
    BY DEF Coming
  <1>6. \A s : ~ Held(s)
    BY <1>0 DEF Held
  <1>7. \A i, j \in DOMAIN pendingStops' : i < j => pendingStops'[i] < pendingStops'[j]
    <2>1. \A i \in DOMAIN pendingStops' : i + 1 \in DOMAIN pendingStops /\ pendingStops'[i] = pendingStops[i + 1]
      BY <1>0, Shifted
    <2>2. \A i, j \in DOMAIN pendingStops' : i < j => i + 1 < j + 1
      BY <1>0, Shifted
    <2> QED BY <1>6, <2>1, <2>2 DEF InboxOrder
  <1>8. \A x \in Seen' \cap StopIds : x <= Len(raised') /\ \A y \in StopIds : Coming(y)' => x < y
    BY <1>4, <1>5 DEF InboxOrder
  <1>9. sunk \in StopIds => \A y \in (ToSet(pendingStops') \cup Copies') \cap StopIds : y <= sunk
    BY <1>2, <1>3 DEF InboxOrder
  <1>10. \A x \in Copies' \cap StopIds :
            x \in ToSet(deliveredIds) \cup ToSet(pendingStops') \cup {sunk} \/ (cmd'.pc = "acking" /\ cmd'.stop = x)
    BY <1>1, <1>2, <1>3, <1>6 DEF InboxOrder
  <1> QED BY <1>0, <1>7, <1>8, <1>9, <1>10 DEF InboxOrder, Held

\* A stop that is told leaves the queue and is remembered.
LEMMA OrderTells ==
    ASSUME SessionInv, InboxInv, InboxOrder, CmdTellsStop,
           ToSet(deliveredIds) \cup ({cmd.stop} \cap StopIds) \subseteq ToSet(deliveredIds'),
           UNCHANGED <<loop, raised, toDaemon>>
    PROVE  InboxOrder'
  <1>0. /\ pendingStops \in Seq(StopIds) /\ Distinct(pendingStops)
        /\ pendingStops' = RemoveFirst(pendingStops, cmd.stop)
        /\ UNCHANGED <<events, sunk, batch>>
        /\ cmd.pc = "finalize" /\ cmd' = CmdIdle
    BY DEF InboxInv, InboxTypeOK, NoDuplicatePending, CmdTellsStop, FinalizeDeliveredStop, Finishes,
           transportVars, pollVars, At
  <1>1. ToSet(pendingStops') = ToSet(pendingStops) \ {cmd.stop} /\ pendingStops' \in Seq(StopIds)
    BY <1>0, RemoveFirstDistinct
  <1>2. Copies' = Copies
    BY <1>0 DEF Copies
  <1>3. Seen' \subseteq Seen
    BY <1>0, <1>1, <1>2 DEF Seen, CmdIdle
  <1>4. \A s : Coming(s)' <=> Coming(s)
    BY DEF Coming
  <1>5. \A s : Held(s) => s = cmd.stop
    BY DEF Held
  <1>6. \A i, j \in DOMAIN pendingStops' : i < j => pendingStops'[i] < pendingStops'[j]
    <2> SUFFICES ASSUME NEW i \in DOMAIN pendingStops', NEW j \in DOMAIN pendingStops', i < j
                 PROVE  pendingStops'[i] < pendingStops'[j]
      OBVIOUS
    <2>1. PICK k, l \in DOMAIN pendingStops : /\ k < l
                                              /\ pendingStops'[i] = pendingStops[k]
                                              /\ pendingStops'[j] = pendingStops[l]
      BY <1>0, FirstRemovedOrder
    <2>2. pendingStops'[j] # cmd.stop
      BY <1>1 DEF ToSet
    <2> QED BY <1>5, <2>1, <2>2 DEF InboxOrder
  <1>7. \A x \in Seen' \cap StopIds : x <= Len(raised') /\ \A y \in StopIds : Coming(y)' => x < y
    BY <1>3, <1>4 DEF InboxOrder
  <1>8. sunk \in StopIds => \A y \in (ToSet(pendingStops') \cup Copies') \cap StopIds : y <= sunk
    BY <1>1, <1>2 DEF InboxOrder
  <1>9. \A x \in Copies' \cap StopIds : x \in ToSet(deliveredIds') \cup ToSet(pendingStops') \cup {sunk}
    BY <1>1, <1>2, <1>5 DEF InboxOrder
  <1> QED BY <1>0, <1>6, <1>7, <1>8, <1>9 DEF InboxOrder

\* The stop that is told is the next one, and the memory has room for it.
LEMMA TellsNext ==
    ASSUME Plain, SessionTypeOK, StopsTold, CmdTellsStop
    PROVE  /\ deliveredIds' = told'
           /\ ToSet(deliveredIds) \cup ({cmd.stop} \cap StopIds) \subseteq ToSet(deliveredIds')
           /\ \/ cmd.stop = VmExit /\ told' = told
              \/ cmd.stop \in StopIds /\ cmd.stop = Len(told) + 1 /\ told' = Append(told, cmd.stop)
  <1>0. told \in Seq(StopIds) /\ Len(told) \in Nat /\ deliveredIds = told /\ VmExit \notin StopIds
    BY LenProperties, EventsDistinct DEF SessionTypeOK, StopsTold
  <1>1. /\ cmd.pc = "finalize" /\ cmd.stop \in StopIds \cup {VmExit}
        /\ told' = IF cmd.stop = VmExit THEN told ELSE Append(told, cmd.stop)
        /\ deliveredIds' = IF cmd.stop = VmExit THEN deliveredIds ELSE Remember(deliveredIds, cmd.stop)
    BY DEF CmdTellsStop, FinalizeDeliveredStop, StopEvents, At
  <1>2. CASE cmd.stop = VmExit
    BY <1>0, <1>1, <1>2
  <1>3. CASE cmd.stop \in StopIds
    <2>1. cmd.stop = Len(told) + 1
      BY <1>1, <1>3 DEF StopsTold, Held
    <2>2. cmd.stop \notin ToSet(told)
      <3>1. \A i \in DOMAIN told : told[i] = i /\ i \in 1 .. Len(told)
        BY <1>0, LenProperties DEF StopsTold
      <3>2. \A i \in DOMAIN told : told[i] # Len(told) + 1
        BY <1>0, <3>1
      <3> QED BY <2>1, <3>2 DEF ToSet
    <2>3. Len(told) < IdCap
      BY <1>0, <1>3, <2>1, MaxStopsAssumption, IdCapAssumption DEF Plain, StopIds
    <2>4. deliveredIds' = Append(told, cmd.stop) /\ told' = Append(told, cmd.stop)
      BY <1>0, <1>1, <1>3, <2>2, <2>3 DEF Remember
    <2>5. ToSet(Append(told, cmd.stop)) = ToSet(told) \cup {cmd.stop}
      BY <1>0, <1>3, Appended
    <2> QED BY <1>0, <1>3, <2>1, <2>4, <2>5
  <1> QED BY <1>1, <1>2, <1>3

\* Draining the queue moves copies, it makes none.
LEMMA DrainsCopies ==
    ASSUME SessionTypeOK, NEW w \in Workers, Drains(w)
    PROVE  Copies' \subseteq Copies
  <1>1. events' = <<>> /\ \A v \in Workers : batch'[v] = IF v = w THEN events ELSE batch[v]
    BY DEF Drains, SessionTypeOK
  <1>2. ToSet(events') = {}
    BY <1>1, EmptySeq DEF ToSet
  <1> QED BY <1>1, <1>2 DEF Copies

\* Every step of a plain session keeps the order of the inbox.
LEMMA InboxOrderStep ==
    ASSUME Plain, Grounds, PlainInv, [JdiNext]_jdiVars
    PROVE  InboxOrder'
  <1>0. /\ SessionInv /\ InboxInv /\ InboxTypeOK /\ DeadIsDead /\ BeforeSink /\ ExitLast /\ alive
        /\ SessionTypeOK /\ cmd \in CmdStates /\ pendingStops \in Seq(StopIds)
        /\ InboxOrder /\ WireOrder /\ PlainSession /\ OneRequest /\ StopsTold
        /\ "poller" \in Workers /\ "command" \in Workers
    BY DEF Grounds, SessionInv, SessionTypeOK, InboxInv, InboxTypeOK, PlainInv, PlainSession, Workers
  <1>1. /\ Len(raised) \in Nat /\ Len(raised') \in Nat /\ Len(raised') >= Len(raised)
        /\ \A s \in StopIds : Coming(s)' => Coming(s) \/ s > Len(raised)
    BY <1>0, ComingMoves
  <1>2. ASSUME UNCHANGED <<pendingStops, deliveredIds, sunk>>, Copies' \subseteq Copies,
               cmd'.pc = "acking" => cmd.pc = "acking" /\ cmd'.stop = cmd.stop,
               cmd.pc \in {"acking", "finalize"} =>
                  cmd'.pc \in {"acking", "finalize"} /\ cmd'.stop = cmd.stop
        PROVE  InboxOrder'
    <2>1. Seen' \subseteq Seen
      BY <1>2 DEF Seen
    <2>2. \A s \in StopIds : Held(s) => Held(s)'
      BY <1>2 DEF Held
    <2> QED BY <1>0, <1>1, <1>2, <2>1, <2>2, OrderKept
  <1>3. UNCHANGED <<events, batch>> => Copies' \subseteq Copies
    BY DEF Copies
  <1>4. CASE SidecarActs
    <2>1. UNCHANGED <<pendingStops, deliveredIds, sunk, events, batch, cmd>>
      BY <1>4, SidecarLeaves
    <2> QED BY <1>2, <1>3, <2>1
  <1>5. CASE UNCHANGED jdiVars
    <2>1. UNCHANGED <<pendingStops, deliveredIds, sunk, events, batch, cmd>>
      BY <1>5, NothingMoves
    <2> QED BY <1>2, <1>3, <2>1
  <1>6. CASE ReaderQueuesEvent
    BY <1>0, <1>6, OrderQueues
  <1>7. CASE ReaderSinksEvent
    BY <1>0, <1>7, OrderSinks
  <1>8. CASE ReaderDeliversResponse
    <2>1. /\ UNCHANGED <<pendingStops, deliveredIds, sunk, events, batch>>
          /\ cmd' = cmd \/ cmd' = [cmd EXCEPT !.reply = Head(toDaemon).result, !.id = 0]
      BY <1>8 DEF ReaderDeliversResponse, transportVars, pollVars, Untouched, inboxVars
    <2>2. cmd'.pc = cmd.pc /\ cmd'.stop = cmd.stop
      BY <1>0, <2>1 DEF CmdStates
    <2> QED BY <1>2, <1>3, <2>1, <2>2
  <1>9. CASE RegisterSink
    <2>1. UNCHANGED <<pendingStops, deliveredIds, sunk, events, batch, cmd>>
      BY <1>9 DEF RegisterSink, pollVars, Untouched, inboxVars
    <2> QED BY <1>2, <1>3, <2>1
  <1>10. CASE PollerDrains
    <2>1. UNCHANGED <<pendingStops, deliveredIds, sunk, cmd>> /\ Drains("poller")
      BY <1>10 DEF PollerDrains, Untouched, inboxVars
    <2> QED BY <1>0, <1>2, <2>1, DrainsCopies
  <1>11. CASE PollerApplies
    <2>1. AppliesOne("poller") /\ UNCHANGED <<loop, raised, toDaemon, events, sunk, cmd>>
      BY <1>11 DEF PollerApplies, sidecarVars, queueVars, transportVars
    <2> QED BY <1>0, <2>1, OrderApplies
  <1>12. CASE PollerDone
    <2>1. UNCHANGED <<pendingStops, deliveredIds, sunk, events, batch, cmd>>
      BY <1>12 DEF PollerDone, AppliedAll, MarkDead, transportVars, Untouched, inboxVars
    <2> QED BY <1>2, <1>3, <2>1
  <1>13. ASSUME NEW name \in Commands, CmdIssue(name) PROVE InboxOrder'
    <2>1. /\ UNCHANGED <<pendingStops, deliveredIds, sunk>> /\ Drains("command")
          /\ cmd.pc = "idle" /\ cmd'.pc \in {"apply", "applied"}
      BY <1>13 DEF CmdIssue, CmdIdle, At, Untouched, inboxVars
    <2> QED BY <1>0, <1>2, <2>1, DrainsCopies
  <1>14. CASE CmdApplies
    <2>1. AppliesOne("command") /\ UNCHANGED <<loop, raised, toDaemon, events, sunk, cmd>>
      BY <1>14 DEF CmdApplies, sidecarVars, queueVars, transportVars
    <2> QED BY <1>0, <2>1, OrderApplies
  <1>15. CASE CmdGraceWait
    <2>1. /\ UNCHANGED <<pendingStops, deliveredIds, sunk>> /\ Drains("command")
          /\ cmd.pc = "grace"
      BY <1>15 DEF CmdGraceWait, At, Untouched, inboxVars
    <2>2. cmd'.pc \in {"graceApplied", "graceApply"}
      <3>1. \E pc \in {"graceApplied", "graceApply"} : Goto(pc)
        BY <1>15 DEF CmdGraceWait
      <3> QED BY <1>0, <3>1 DEF Goto, CmdStates
    <2> QED BY <1>0, <1>2, <2>1, <2>2, DrainsCopies
  <1>16. CASE CmdTakesPending \/ CmdTellsStop
    <2>1. UNCHANGED <<loop, raised>>
      BY <1>16, DaemonLeaves DEF CmdNext
    <2>2. toDaemon' = toDaemon
      BY <1>0, <1>16, ExitNotInvented DEF CmdNext
    <2>3. CmdTellsStop => ToSet(deliveredIds) \cup ({cmd.stop} \cap StopIds) \subseteq ToSet(deliveredIds')
      BY <1>0, TellsNext
    <2> QED BY <1>0, <1>16, <2>1, <2>2, <2>3, OrderTakes, OrderTells
  <1>17. CASE CmdAcked
    <2>1. UNCHANGED <<pendingStops, deliveredIds, sunk, events, batch>> /\ cmd.pc = "acking"
      BY <1>17 DEF CmdAcked, At, transportVars, pollVars, Untouched, inboxVars
    <2>2. cmd'.pc = "finalize" /\ cmd'.stop = cmd.stop
      BY <1>0, <1>17 DEF CmdAcked, CmdStates
    <2> QED BY <1>2, <1>3, <2>1, <2>2
  <1>18. CASE \/ CmdApplied \/ CmdRequests \/ CmdNoPending \/ CmdArms \/ CmdSessionDead \/ CmdGetsReply
              \/ CmdReportsTimeout \/ CmdSuspended
    <2>1. UNCHANGED <<pendingStops, deliveredIds, sunk, events, batch>>
      BY <1>18
      DEF CmdApplied, CmdRequests, CmdNoPending, CmdArms, CmdSessionDead, CmdGetsReply,
          CmdReportsTimeout, CmdSuspended, AppliedAll, MarkDead, Arm, SetRunning, SetSuspended,
          transportVars, pollVars, Untouched, inboxVars
    <2>2. cmd.pc \notin {"acking", "finalize"}
      BY <1>18
      DEF CmdApplied, CmdRequests, CmdNoPending, CmdArms, CmdSessionDead, CmdGetsReply,
          CmdReportsTimeout, CmdSuspended, At
    <2>3. cmd'.pc # "acking"
      <3>1. AfterReply(cmd.name, cmd.reply.kind) # "acking"
        BY DEF AfterReply
      <3>2. CASE CmdGetsReply
        BY <1>0, <3>1, <3>2, GetsReplyMoves
      <3>3. CASE CmdRequests \/ CmdArms
        <4>1. \E n : \/ cmd' = [cmd EXCEPT !.pc = "await", !.id = n, !.reply = NoReply, !.stop = NoEvent]
                     \/ cmd' = [cmd EXCEPT !.pc = "await", !.id = n, !.reply = RpcError, !.stop = NoEvent]
          <5>1. \/ cmd' = [cmd EXCEPT !.pc = "await", !.id = requestId + 1, !.reply = NoReply, !.stop = NoEvent]
                \/ cmd' = [cmd EXCEPT !.pc = "await", !.id = 0, !.reply = RpcError, !.stop = NoEvent]
            BY <3>3, Zenon DEF CmdRequests, CmdArms, Sends
          <5> QED BY <5>1
        <4> QED BY <1>0, <4>1 DEF CmdStates
      <3>4. CASE CmdApplied \/ CmdNoPending
        <4>1. \E pc \in {"applied", "graceApplied", "arm", "timeout"} : Goto(pc)
          BY <3>4 DEF CmdApplied, CmdNoPending
        <4> QED BY <1>0, <4>1 DEF Goto, CmdStates
      <3>5. CASE CmdSessionDead \/ CmdReportsTimeout \/ CmdSuspended
        BY <3>5 DEF CmdSessionDead, CmdReportsTimeout, CmdSuspended, Finishes, CmdIdle
      <3> QED BY <1>18, <3>2, <3>3, <3>4, <3>5
    <2> QED BY <1>2, <1>3, <2>1, <2>2, <2>3
  <1>19. CASE JdiNext
    <2>1. \/ SidecarActs \/ ReaderQueuesEvent \/ ReaderSinksEvent \/ ReaderDeliversResponse
          \/ RegisterSink \/ PollerNext
          \/ \E name \in Commands : CmdIssue(name)
          \/ CmdApplies \/ CmdApplied \/ CmdRequests \/ CmdTakesPending \/ CmdNoPending \/ CmdArms
          \/ CmdSessionDead \/ CmdGetsReply \/ CmdGraceWait \/ CmdReportsTimeout \/ CmdAcked
          \/ CmdTellsStop \/ CmdSuspended
      BY <1>0, <1>19, PlainSteps, Zenon
    <2> QED BY <1>4, <1>6, <1>7, <1>8, <1>9, <1>10, <1>11, <1>12, <1>13, <1>14, <1>15, <1>16, <1>17, <1>18, <2>1
            DEF PollerNext
  <1> QED BY <1>5, <1>19

-----------------------------------------------------------------------------
(* Stops are told in order.                                                *)

\* Between requests no stop is in hand, but the one about to be told.
LEMMA NothingInHand ==
    ASSUME OneRequest, cmd.id = 0, cmd.reply = NoReply, cmd.pc \notin {"acking", "finalize"}
    PROVE  \A s \in StopIds : ~ InHand(s) /\ ~ Held(s)
  <1>1. rpc.pc = "idle" /\ Responses = {}
    BY DEF OneRequest
  <1>2. cmd.reply.stop \notin StopIds
    BY NoReplyFits, EventsDistinct
  <1> QED BY <1>1, <1>2 DEF InHand, Held

\* While the RPC thread serves a request, what is in hand is there.
LEMMA ServedInHand ==
    ASSUME OneRequest, rpc.pc # "idle"
    PROVE  /\ cmd.id # 0 /\ cmd.reply = NoReply /\ cmd.pc \in {"await", "acking"} /\ toSidecar = <<>>
           /\ Responses = {}
           /\ \A s \in StopIds : InHand(s) <=>
                 \/ rpc.pc = "examine" /\ rpc.stop = s
                 \/ rpc.pc = "reply" /\ rpc.result.stop = s
                 \/ cmd.pc = "acking" /\ cmd.stop = s /\ rpc.pc # "ackStop"
  <1>1. /\ cmd.id # 0 /\ cmd.reply = NoReply /\ cmd.pc \in {"await", "acking"} /\ toSidecar = <<>>
        /\ Responses = {}
    BY DEF OneRequest, Responses, ToSet
  <1>2. cmd.reply.stop \notin StopIds
    BY <1>1, NoReplyFits, EventsDistinct
  <1> QED BY <1>1, <1>2 DEF InHand

\* Steps that move no stop from one place to another.
LEMMA ToldKept ==
    ASSUME StopsTold, UNCHANGED <<told, deliveredIds, raised, stops>>,
           \A s \in StopIds : /\ InLoop(s)' <=> InLoop(s)
                              /\ InHand(s)' <=> InHand(s)
                              /\ Held(s)' => Held(s) \/ InHand(s)
    PROVE  StopsTold'
  <1>1. \A s \in StopIds : InHand(s)' \/ Held(s)' => s = Len(told) + 1 /\ s <= Len(raised)
    BY DEF StopsTold
  <1>2. \A s \in StopIds : InLoop(s)' => Len(told) < s /\ ~ InHand(s)'
    BY DEF StopsTold
  <1>3. \A s \in StopIds : s \in ToSet(stops) <=>
          Len(told) < s /\ s <= Len(raised) /\ ~ InLoop(s)' /\ ~ InHand(s)'
    BY DEF StopsTold
  <1> QED BY <1>1, <1>2, <1>3 DEF StopsTold

\* The next stop leaves the sidecar's queue for good.
LEMMA ToldTaken ==
    ASSUME StopsTold, UNCHANGED <<told, deliveredIds, raised>>,
           NEW x \in StopIds, x \in ToSet(stops), x = Len(told) + 1,
           \A s \in StopIds : s \in ToSet(stops') <=> s \in ToSet(stops) /\ s # x,
           \A i, j \in DOMAIN stops' :
               i < j /\ stops'[i] \in StopIds /\ stops'[j] \in StopIds => stops'[i] < stops'[j],
           \A s \in StopIds : /\ InLoop(s)' <=> InLoop(s)
                              /\ ~ InHand(s)
                              /\ InHand(s)' <=> s = x
                              /\ Held(s)' => Held(s)
    PROVE  StopsTold'
  <1>0. Len(told) < x /\ x <= Len(raised) /\ ~ InLoop(x)
    BY DEF StopsTold
  <1>1. \A s \in StopIds : InHand(s)' \/ Held(s)' => s = Len(told) + 1 /\ s <= Len(raised)
    BY <1>0 DEF StopsTold
  <1>2. \A s \in StopIds : InLoop(s)' => Len(told) < s /\ ~ InHand(s)'
    BY <1>0 DEF StopsTold
  <1>3. \A s \in StopIds : s \in ToSet(stops') <=>
          Len(told) < s /\ s <= Len(raised) /\ ~ InLoop(s)' /\ ~ InHand(s)'
    BY <1>0 DEF StopsTold
  <1> QED BY <1>1, <1>2, <1>3 DEF StopsTold

\* The first stop in the sidecar's queue is the next one to tell.
LEMMA HeadIsNext ==
    ASSUME StopsTold, WireOrder, Len(told) \in Nat, Len(raised) \in Nat, Len(raised) <= MaxStops,
           NEW S, stops \in Seq(S), stops # <<>>, Head(stops) \in StopIds,
           \A s \in StopIds : ~ InHand(s)
    PROVE  Head(stops) = Len(told) + 1
  <1> DEFINE h == Head(stops)
             n == Len(told) + 1
  <1>1. /\ 1 \in DOMAIN stops /\ stops[1] = h /\ h \in ToSet(stops)
        /\ DOMAIN stops = 1 .. Len(stops) /\ Len(stops) \in Nat
    BY Tailed
  <1> HIDE DEF h
  <1>2. Len(told) < h /\ h <= Len(raised) /\ ~ InLoop(h) /\ h \in Nat
    BY <1>1 DEF StopsTold, h, StopIds
  <1>3. n \in StopIds /\ n <= h /\ n <= Len(raised) /\ Len(told) < n
    BY <1>2, MaxStopsAssumption DEF StopIds
  <1> HIDE DEF n
  <1>4. CASE InLoop(n)
    <2>1. n = Len(raised)
      BY <1>3, <1>4 DEF InLoop, WireOrder
    <2>2. h = n
      BY <1>2, <1>3, <2>1 DEF StopIds
    <2> QED BY <2>2 DEF h, n
  <1>5. CASE ~ InLoop(n)
    <2>1. n \in ToSet(stops)
      BY <1>3, <1>5 DEF StopsTold
    <2>2. PICK i \in DOMAIN stops : stops[i] = n
      BY <2>1 DEF ToSet
    <2>3. CASE i = 1
      BY <1>1, <2>2, <2>3 DEF h, n
    <2>4. CASE i # 1
      <3>1. 1 < i
        BY <1>1, <2>4
      <3>2. h < n
        BY <1>1, <1>3, <2>2, <3>1 DEF StopsTold, h
      <3> QED BY <1>2, <1>3, <3>2 DEF StopIds
    <2> QED BY <2>3, <2>4
  <1> QED BY <1>4, <1>5

\* Taking the one copy of a stop out of a queue leaves the others.
LEMMA RemovedOnce ==
    ASSUME NEW S, NEW q \in Seq(S), NEW x \in ToSet(q),
           \A i, j \in DOMAIN q : q[i] = x /\ q[j] = x => i = j
    PROVE  \A y : y \in ToSet(RemoveFirst(q, x)) <=> y \in ToSet(q) /\ y # x
  <1>1. PICK m \in DOMAIN q : q[m] = x /\ RemoveFirst(q, x) = RemoveAt(q, m)
    BY FirstRemoved
  <1> DEFINE r == RemoveAt(q, m)
             n == Len(q)
  <1>2. /\ DOMAIN r = 1 .. (n - 1)
        /\ \A k \in 1 .. (n - 1) : r[k] = IF k < m THEN q[k] ELSE q[k + 1]
        /\ n \in Nat /\ DOMAIN q = 1 .. n
    BY RemovedAt
  <1> HIDE DEF r, n
  <1>3. \A k \in DOMAIN r : \E l \in DOMAIN q : l # m /\ r[k] = q[l]
    <2> SUFFICES ASSUME NEW k \in DOMAIN r PROVE \E l \in DOMAIN q : l # m /\ r[k] = q[l]
      OBVIOUS
    <2>1. CASE k < m
      BY <1>2, <2>1
    <2>2. CASE ~ (k < m)
      <3>1. k + 1 \in DOMAIN q /\ k + 1 # m /\ r[k] = q[k + 1]
        BY <1>2, <2>2
      <3> QED BY <3>1
    <2> QED BY <2>1, <2>2
  <1>4. \A l \in DOMAIN q : l # m => \E k \in DOMAIN r : r[k] = q[l]
    <2> SUFFICES ASSUME NEW l \in DOMAIN q, l # m PROVE \E k \in DOMAIN r : r[k] = q[l]
      OBVIOUS
    <2>1. CASE l < m
      <3>1. l \in DOMAIN r /\ r[l] = q[l]
        BY <1>2, <2>1
      <3> QED BY <3>1
    <2>2. CASE l > m
      <3>1. l - 1 \in DOMAIN r /\ ~ (l - 1 < m) /\ l - 1 + 1 = l
        BY <1>2, <2>2
      <3>2. r[l - 1] = q[l]
        BY <1>2, <3>1
      <3> QED BY <3>1, <3>2
    <2> QED BY <1>2, <2>1, <2>2
  <1>5. \A y : y \in ToSet(r) <=> y \in ToSet(q) /\ y # x
    <2> TAKE y
    <2>1. ASSUME y \in ToSet(r) PROVE y \in ToSet(q) /\ y # x
      BY <1>1, <1>3, <2>1 DEF ToSet
    <2>2. ASSUME y \in ToSet(q), y # x PROVE y \in ToSet(r)
      BY <1>1, <1>4, <2>2 DEF ToSet
    <2> QED BY <2>1, <2>2
  <1> QED BY <1>1, <1>5 DEF r

\* Who has a stop in hand depends on the request and its answer alone.
LEMMA SameHands ==
    ASSUME UNCHANGED <<rpc, cmd, toSidecar>>, Responses' = Responses
    PROVE  \A s : (InHand(s)' <=> InHand(s)) /\ (Held(s)' <=> Held(s))
  BY DEF InHand, Held

\* An event on the wire is no answer.
LEMMA SameResponses ==
    ASSUME toDaemon \in Seq(Messages),
           \/ toDaemon' = toDaemon
           \/ \E m \in Messages : m.type = "event" /\ toDaemon' = Append(toDaemon, m)
           \/ toDaemon # <<>> /\ Head(toDaemon).type = "event" /\ toDaemon' = Tail(toDaemon)
    PROVE  Responses' = Responses
  <1>1. CASE toDaemon' = toDaemon
    BY <1>1 DEF Responses
  <1>2. ASSUME NEW m \in Messages, m.type = "event", toDaemon' = Append(toDaemon, m)
        PROVE  Responses' = Responses
    <2>1. ToSet(toDaemon') = ToSet(toDaemon) \cup {m}
      BY <1>2, Appended
    <2> QED BY <1>2, <2>1 DEF Responses
  <1>3. CASE toDaemon # <<>> /\ Head(toDaemon).type = "event" /\ toDaemon' = Tail(toDaemon)
    <2>1. ToSet(toDaemon) = {Head(toDaemon)} \cup ToSet(toDaemon')
      BY <1>3, Tailed
    <2> QED BY <1>3, <2>1 DEF Responses
  <1> QED BY <1>1, <1>2, <1>3

\* A stop that is queued comes after those that were: it is the latest.
LEMMA ToldAppends ==
    ASSUME StopsTold, UNCHANGED <<told, deliveredIds, raised>>,
           stops \in Seq(SidecarEvents),
           NEW x \in SidecarEvents, stops' = Append(stops, x),
           x \in StopIds => InLoop(x) /\ x = Len(raised),
           Len(raised) \in Nat, Len(told) \in Nat,
           \A s \in StopIds : /\ InLoop(s)' <=> InLoop(s) /\ s # x
                              /\ InHand(s)' <=> InHand(s)
                              /\ Held(s)' <=> Held(s)
    PROVE  StopsTold'
  <1>0. x \in StopIds => Len(told) < x /\ ~ InHand(x) /\ x <= Len(raised)
    BY DEF StopsTold
  <1>1. \A s \in StopIds : InHand(s)' \/ Held(s)' => s = Len(told) + 1 /\ s <= Len(raised)
    BY DEF StopsTold
  <1>2. \A s \in StopIds : InLoop(s)' => Len(told) < s /\ ~ InHand(s)'
    BY DEF StopsTold
  <1>3. ToSet(stops') = ToSet(stops) \cup {x}
    BY Appended
  <1>4. \A s \in StopIds : s \in ToSet(stops') <=>
          Len(told) < s /\ s <= Len(raised) /\ ~ InLoop(s)' /\ ~ InHand(s)'
    BY <1>0, <1>3 DEF StopsTold
  <1>5. \A i, j \in DOMAIN stops' : i < j /\ stops'[i] \in StopIds /\ stops'[j] \in StopIds => stops'[i] < stops'[j]
    <2> SUFFICES ASSUME NEW i \in DOMAIN stops', NEW j \in DOMAIN stops', i < j,
                        stops'[i] \in StopIds, stops'[j] \in StopIds
                 PROVE  stops'[i] < stops'[j]
      OBVIOUS
    <2>1. i \in DOMAIN stops /\ stops'[i] = stops[i] /\ stops[i] \in ToSet(stops)
      BY Lengthened DEF ToSet
    <2>2. CASE j \in DOMAIN stops /\ stops'[j] = stops[j]
      BY <2>1, <2>2 DEF StopsTold
    <2>3. CASE stops'[j] = x
      <3>1. stops[i] <= Len(raised) /\ ~ InLoop(stops[i]) /\ stops[i] \in StopIds
        BY <2>1 DEF StopsTold
      <3>2. stops[i] # x /\ x = Len(raised) /\ stops[i] \in Nat
        BY <2>3, <3>1 DEF StopIds
      <3> QED BY <2>1, <2>3, <3>1, <3>2
    <2> QED BY <2>2, <2>3, Lengthened
  <1> QED BY <1>1, <1>2, <1>4, <1>5 DEF StopsTold

\* The event loop takes no stop in hand.
LEMMA LoopHands ==
    ASSUME SidecarInv, SidecarActs, LoopNext
    PROVE  \A s : (InHand(s)' <=> InHand(s)) /\ (Held(s)' <=> Held(s))
  <1>0. toDaemon \in Seq(Messages) /\ NoEvent \notin StopIds
    BY EventsDistinct DEF SidecarInv, SidecarTypeOK
  <1>1. UNCHANGED <<rpc, cmd, toSidecar>>
    BY SidecarLeaves
  <1>2. Responses' = Responses
    <2>1. CASE LoopSends
      <3> DEFINE m == [type |-> "event", event |-> loop.stop]
      <3>1. m \in Messages /\ m.type = "event"
        BY <1>0, <2>1 DEF LoopSends, SidecarInv, Known, Messages
      <3>2. toDaemon' = Append(toDaemon, m)
        BY <2>1 DEF LoopSends
      <3> HIDE DEF m
      <3> QED BY <1>0, <3>1, <3>2, SameResponses
    <2>2. CASE ~ LoopSends
      <3>1. toDaemon' = toDaemon
        BY <2>2 DEF LoopNext, LoopAccepts, LoopRejects, LoopFails, LoopQueuesStop, LoopVmStart, LoopVmDeath
      <3> QED BY <1>0, <3>1, SameResponses
    <2> QED BY <2>1, <2>2
  <1> QED BY <1>1, <1>2, SameHands

\* The event loop raises, queues and sends stops.
LEMMA ToldLoop ==
    ASSUME Grounds, PlainInv, SidecarActs, LoopNext
    PROVE  StopsTold'
  <1>0. /\ SidecarInv /\ SidecarTypeOK /\ loop \in LoopStates /\ raised \in Seq(Hits)
        /\ toDaemon \in Seq(Messages) /\ vmEvents \in Seq(VmEvents)
        /\ StopsTold /\ WireOrder /\ PlainSession /\ ExitLast /\ TwinKept
        /\ Len(raised) \in Nat /\ told \in Seq(StopIds) /\ Len(told) \in Nat
        /\ stops \in Seq(SidecarEvents)
        /\ NoEvent \notin StopIds /\ VmStart \notin StopIds /\ VmExit \notin StopIds
    BY LenProperties, EventsDistinct
    DEF Grounds, SessionInv, SidecarInv, SidecarTypeOK, SessionTypeOK, PlainInv
  <1>1. UNCHANGED <<rpc, cmd, toSidecar, told, deliveredIds>>
    BY SidecarLeaves
  <1>3. \A s : (InHand(s)' <=> InHand(s)) /\ (Held(s)' <=> Held(s))
    BY <1>0, LoopHands
  <1>4. CASE LoopAccepts
    <2>1. /\ loop.pc = "idle" /\ loop'.pc = "queue" /\ loop'.stop = Len(raised) + 1
          /\ stops' = stops
      BY <1>4 DEF LoopAccepts, LoopReads
    <2>2. Len(raised') = Len(raised) + 1
      <3>1. Head(vmEvents) \in VmEvents /\ Head(vmEvents).kind \in {"hit", "step"}
        BY <1>0, <1>4, TailSeq DEF LoopAccepts, LoopReads
      <3>2. [thread |-> Head(vmEvents).thread, policy |-> Head(vmEvents).policy] \in Hits
        BY <3>1 DEF VmEvents, Hits
      <3>3. raised' = Append(raised, [thread |-> Head(vmEvents).thread, policy |-> Head(vmEvents).policy])
        BY <1>4 DEF LoopAccepts
      <3> QED BY <1>0, <3>2, <3>3, AppendProperties
    <2>3. /\ \A s : ~ InLoop(s)
          /\ \A s : InLoop(s)' <=> s = Len(raised) + 1
      BY <2>1 DEF InLoop
    <2>4. \A s \in StopIds : s \in Nat
      BY DEF StopIds
    <2>5. Len(told) <= Len(raised')
      BY <1>0, <2>2 DEF StopsTold
    <2>6. \A s \in StopIds : InHand(s)' \/ Held(s)' => s = Len(told) + 1 /\ s <= Len(raised')
      BY <1>0, <1>3, <2>2, <2>4 DEF StopsTold
    <2>7. \A s \in StopIds : InLoop(s)' => Len(told) < s /\ ~ InHand(s)'
      BY <1>0, <1>3, <2>3, <2>4 DEF StopsTold
    <2>8. \A s \in StopIds : s \in ToSet(stops) <=>
            Len(told) < s /\ s <= Len(raised') /\ ~ InLoop(s)' /\ ~ InHand(s)'
      <3>1. \A s \in StopIds : s <= Len(raised') /\ s # Len(raised) + 1 <=> s <= Len(raised)
        BY <1>0, <2>2, <2>4
      <3>2. \A s \in StopIds : s \in ToSet(stops) <=> Len(told) < s /\ s <= Len(raised) /\ ~ InHand(s)
        BY <1>0, <2>3 DEF StopsTold
      <3> QED BY <1>3, <2>3, <3>1, <3>2
    <2> QED BY <1>0, <1>1, <2>1, <2>5, <2>6, <2>7, <2>8 DEF StopsTold
  <1>5. CASE LoopQueuesStop
    <2>1. /\ loop.pc = "queue" /\ stops' = Append(stops, loop.stop) /\ raised' = raised
          /\ loop'.pc = "send"
      BY <1>0, <1>5 DEF LoopQueuesStop, LoopStates
    <2>2. loop.stop \in StopIds /\ loop.stop = Len(raised) /\ InLoop(loop.stop)
      BY <1>0, <2>1 DEF WireOrder, InLoop
    <2>4. loop.stop \in SidecarEvents
      BY <2>2 DEF SidecarEvents
    <2>3. \A s : InLoop(s)' <=> InLoop(s) /\ s # loop.stop
      BY <2>1 DEF InLoop
    <2> QED BY <1>0, <1>1, <1>3, <2>1, <2>2, <2>3, <2>4, ToldAppends
  <1>6. CASE LoopVmStart \/ LoopVmDeath
    <2>1. loop.pc = "idle" /\ loop'.pc = "send" /\ raised' = raised
      BY <1>6 DEF LoopVmStart, LoopVmDeath, LoopReads
    <2>2. PICK x \in {VmStart, VmExit} : stops' = Append(stops, x)
      BY <1>6 DEF LoopVmStart, LoopVmDeath
    <2>4. x \in SidecarEvents
      BY DEF SidecarEvents
    <2>3. \A s : InLoop(s)' <=> InLoop(s) /\ s # x
      BY <2>1 DEF InLoop
    <2> QED BY <1>0, <1>1, <1>3, <2>1, <2>2, <2>3, <2>4, ToldAppends
  <1>7. CASE LoopRejects \/ LoopFails \/ LoopSends
    <2>1. loop.pc # "queue" /\ loop'.pc # "queue" /\ UNCHANGED <<stops, raised>>
      BY <1>7 DEF LoopRejects, LoopFails, LoopSends, LoopReads, LoopIdle, queueVars
    <2>2. \A s : InLoop(s)' <=> InLoop(s)
      BY <2>1 DEF InLoop
    <2> QED BY <1>0, <1>1, <1>3, <2>1, <2>2, ToldKept
  <1> QED BY <1>4, <1>5, <1>6, <1>7 DEF LoopNext

\* The RPC thread polls the next stop.
LEMMA ToldPolls ==
    ASSUME Grounds, PlainInv, SidecarActs,
           rpc.pc \in {"poll", "wait"}, stops # <<>>, stops' = Tail(stops),
           rpc' = [rpc EXCEPT !.pc = "examine", !.stop = Head(stops)],
           UNCHANGED <<raised, loop, toSidecar, toDaemon>>
    PROVE  StopsTold'
  <1>0. /\ rpc \in RpcStates /\ stops \in Seq(SidecarEvents) /\ raised \in Seq(Hits)
        /\ StopsTold /\ WireOrder /\ OneRequest /\ TwinKept
        /\ Len(raised) \in Nat /\ told \in Seq(StopIds) /\ Len(told) \in Nat
        /\ Len(raised) <= MaxStops
    BY LenProperties
    DEF Grounds, SessionInv, SidecarInv, SidecarTypeOK, SessionTypeOK, PlainInv, TwinKept
  <1> DEFINE h == Head(stops)
  <1>1. UNCHANGED <<cmd, told, deliveredIds>>
    BY SidecarLeaves
  <1>2. rpc'.pc = "examine" /\ rpc'.stop = h
    BY <1>0 DEF RpcStates
  <1>3. /\ cmd.pc = "await" /\ cmd.reply = NoReply /\ Responses = {}
        /\ \A s \in StopIds : ~ InHand(s)
    BY <1>0, ServedInHand DEF OneRequest, Continuing
  <1>4. /\ Responses' = {}
        /\ \A s : (InLoop(s)' <=> InLoop(s)) /\ (Held(s)' <=> Held(s))
    BY <1>1, <1>3 DEF Responses, InLoop, Held
  <1>5. cmd.reply.stop \notin StopIds
    BY <1>3, NoReplyFits, EventsDistinct
  <1> HIDE DEF h
  <1>6. \A s \in StopIds : InHand(s)' <=> s = h
    BY <1>1, <1>2, <1>3, <1>4, <1>5 DEF InHand
  <1>7. /\ ToSet(stops) = {h} \cup ToSet(stops') /\ h \in ToSet(stops)
        /\ 1 \in DOMAIN stops /\ stops[1] = h
    BY <1>0, Tailed DEF h
  <1>8. \A i \in DOMAIN stops' : i + 1 \in DOMAIN stops /\ 1 < i + 1 /\ stops'[i] = stops[i + 1]
    BY <1>0, Shifted
  <1>9. \A i, j \in DOMAIN stops' :
            i < j /\ stops'[i] \in StopIds /\ stops'[j] \in StopIds => stops'[i] < stops'[j]
    <2>1. \A i, j \in DOMAIN stops' : i < j => i + 1 < j + 1
      BY <1>0, Shifted
    <2> QED BY <1>0, <1>8, <2>1 DEF StopsTold
  <1>10. CASE h \in StopIds
    <2>1. h = Len(told) + 1
      BY <1>0, <1>3, <1>10, HeadIsNext DEF h
    <2>2. \A s \in StopIds : s \in ToSet(stops') <=> s \in ToSet(stops) /\ s # h
      <3>1. h \notin ToSet(stops')
        <4> SUFFICES ASSUME NEW i \in DOMAIN stops', stops'[i] = h PROVE FALSE
          BY DEF ToSet
        <4>1. h < h
          BY <1>0, <1>7, <1>8, <1>10 DEF StopsTold
        <4> QED BY <1>10, <4>1 DEF StopIds
      <3> QED BY <1>7, <3>1
    <2> QED BY <1>0, <1>1, <1>3, <1>4, <1>6, <1>7, <1>9, <1>10, <2>1, <2>2, ToldTaken
  <1>11. CASE h \notin StopIds
    <2>1. \A s \in StopIds : s \in ToSet(stops') <=> s \in ToSet(stops)
      BY <1>7, <1>11
    <2>2. \A s \in StopIds : (InHand(s)' <=> InHand(s))
      BY <1>3, <1>6, <1>11
    <2>3. \A s \in StopIds : InHand(s)' \/ Held(s)' => s = Len(told) + 1 /\ s <= Len(raised)
      BY <1>0, <1>4, <2>2 DEF StopsTold
    <2>4. \A s \in StopIds : InLoop(s)' => Len(told) < s /\ ~ InHand(s)'
      BY <1>0, <1>4, <2>2 DEF StopsTold
    <2>5. \A s \in StopIds : s \in ToSet(stops') <=>
            Len(told) < s /\ s <= Len(raised) /\ ~ InLoop(s)' /\ ~ InHand(s)'
      BY <1>0, <1>4, <2>1, <2>2 DEF StopsTold
    <2> QED BY <1>0, <1>1, <1>9, <2>3, <2>4, <2>5 DEF StopsTold
  <1> QED BY <1>10, <1>11

\* The stop that is being acknowledged waits in the sidecar's queue.
LEMMA AckedQueued ==
    ASSUME SidecarTypeOK, SessionTypeOK, OneRequest, InboxOrder, StopsTold,
           rpc.pc = "ackStop", rpc.stop \in StopIds
    PROVE  rpc.stop \in ToSet(stops) /\ rpc.stop = Len(told) + 1 /\ rpc.stop <= Len(raised)
  <1> DEFINE x == rpc.stop
  <1>0. Len(told) \in Nat /\ x \in StopIds
    BY LenProperties DEF SessionTypeOK
  <1>1. /\ cmd.pc = "acking" /\ cmd.stop = x
        /\ \A s \in StopIds : ~ InHand(s)
    BY ServedInHand DEF OneRequest
  <1> HIDE DEF x
  <1>2. x = Len(told) + 1 /\ x <= Len(raised)
    BY <1>0, <1>1 DEF StopsTold, Held
  <1>3. ~ InLoop(x)
    <2>1. x \in Seen
      BY <1>1 DEF Seen
    <2>2. InLoop(x) => Coming(x)
      BY DEF InLoop, Coming
    <2>3. Coming(x) => x < x
      BY <1>0, <2>1 DEF InboxOrder
    <2> QED BY <1>0, <2>2, <2>3 DEF StopIds
  <1>4. Len(told) < x
    BY <1>0, <1>2
  <1> QED BY <1>0, <1>1, <1>2, <1>3, <1>4 DEF StopsTold, x

\* The RPC thread removes the acknowledged stop, the target there or gone.
LEMMA ToldAcks ==
    ASSUME Grounds, PlainInv, SidecarActs,
           rpc.pc = "ackStop", rpc'.pc = "reply", rpc'.result.stop = NoEvent,
           stops' = IF rpc.stop \in ToSet(stops) THEN RemoveFirst(stops, rpc.stop) ELSE stops,
           UNCHANGED <<raised, loop, toSidecar, toDaemon>>
    PROVE  StopsTold'
  <1>0. /\ rpc \in RpcStates /\ stops \in Seq(SidecarEvents) /\ raised \in Seq(Hits)
        /\ StopsTold /\ InboxOrder /\ OneRequest /\ NoEvent \notin StopIds
        /\ SidecarTypeOK /\ SessionTypeOK
        /\ Len(raised) \in Nat /\ told \in Seq(StopIds) /\ Len(told) \in Nat
    BY LenProperties, EventsDistinct
    DEF Grounds, SessionInv, SidecarInv, SidecarTypeOK, SessionTypeOK, PlainInv
  <1> DEFINE x == rpc.stop
  <1>1. UNCHANGED <<cmd, told, deliveredIds>>
    BY SidecarLeaves
  <1>2. /\ cmd.pc = "acking" /\ cmd.stop = x /\ toSidecar = <<>> /\ cmd.reply = NoReply
        /\ Responses = {}
        /\ \A s \in StopIds : ~ InHand(s)
    BY <1>0, ServedInHand DEF OneRequest
  <1>3. /\ Responses' = {}
        /\ \A s : (InLoop(s)' <=> InLoop(s)) /\ (Held(s)' <=> Held(s))
    BY <1>1, <1>2 DEF Responses, InLoop, Held
  <1>4. cmd.reply.stop \notin StopIds
    BY <1>2, NoReplyFits, EventsDistinct
  <1> HIDE DEF x
  <1>5. \A s \in StopIds : InHand(s)' <=> s = x
    BY <1>0, <1>1, <1>2, <1>3, <1>4 DEF InHand
  <1>6. \A i, j \in DOMAIN stops' :
            i < j /\ stops'[i] \in StopIds /\ stops'[j] \in StopIds => stops'[i] < stops'[j]
    <2>1. CASE stops' = stops
      BY <1>0, <2>1 DEF StopsTold
    <2>2. CASE stops' = RemoveFirst(stops, x)
      <3>1. \A i, j \in DOMAIN stops' : i < j =>
               \E k, l \in DOMAIN stops : k < l /\ stops'[i] = stops[k] /\ stops'[j] = stops[l]
        BY <1>0, <2>2, FirstRemovedOrder
      <3> QED BY <1>0, <3>1 DEF StopsTold
    <2> QED BY <2>1, <2>2 DEF x
  <1>7. CASE x \in StopIds
    <2>1. x = Len(told) + 1 /\ x \in ToSet(stops)
      BY <1>0, <1>7, AckedQueued DEF x
    <2>4. stops' = RemoveFirst(stops, x)
      BY <2>1 DEF x
    <2>5. \A i, j \in DOMAIN stops : stops[i] = x /\ stops[j] = x => i = j
      <3> SUFFICES ASSUME NEW i \in DOMAIN stops, NEW j \in DOMAIN stops, stops[i] = x, stops[j] = x, i # j
                   PROVE  FALSE
        OBVIOUS
      <3>1. i \in Nat /\ j \in Nat
        BY <1>0, LenProperties
      <3>2. i < j \/ j < i
        BY <3>1
      <3>3. x < x
        BY <1>0, <1>7, <3>2 DEF StopsTold
      <3> QED BY <1>7, <3>3 DEF StopIds
    <2>6. \A s \in StopIds : s \in ToSet(stops') <=> s \in ToSet(stops) /\ s # x
      BY <1>0, <2>1, <2>4, <2>5, RemovedOnce
    <2> QED BY <1>0, <1>1, <1>2, <1>3, <1>5, <1>6, <1>7, <2>1, <2>6, ToldTaken
  <1>8. CASE x \notin StopIds
    <2>1. \A s \in StopIds : s \in ToSet(stops') <=> s \in ToSet(stops)
      <3>1. CASE x \notin ToSet(stops)
        BY <3>1 DEF x
      <3>2. CASE x \in ToSet(stops)
        <4>1. stops' = RemoveFirst(stops, x)
          BY <3>2 DEF x
        <4>2. ToSet(stops) \subseteq ToSet(stops') \cup {x} /\ ToSet(stops') \subseteq ToSet(stops)
          BY <1>0, <4>1, FirstRemovedWithin
        <4> QED BY <1>8, <4>2
      <3> QED BY <3>1, <3>2
    <2>2. \A s \in StopIds : (InHand(s)' <=> InHand(s))
      BY <1>2, <1>5, <1>8
    <2>3. \A s \in StopIds : InHand(s)' \/ Held(s)' => s = Len(told) + 1 /\ s <= Len(raised)
      BY <1>0, <1>3, <2>2 DEF StopsTold
    <2>4. \A s \in StopIds : InLoop(s)' => Len(told) < s /\ ~ InHand(s)'
      BY <1>0, <1>3, <2>2 DEF StopsTold
    <2>5. \A s \in StopIds : s \in ToSet(stops') <=>
            Len(told) < s /\ s <= Len(raised) /\ ~ InLoop(s)' /\ ~ InHand(s)'
      BY <1>0, <1>3, <2>1, <2>2 DEF StopsTold
    <2> QED BY <1>0, <1>1, <1>6, <2>3, <2>4, <2>5 DEF StopsTold
  <1> QED BY <1>7, <1>8

\* The RPC thread gets on with its request and takes no stop.
LEMMA ToldServed ==
    ASSUME StopsTold, OneRequest, rpc.pc \notin {"idle", "reply", "ackStop"}, rpc'.pc \in {"wait", "reply"},
           UNCHANGED <<told, deliveredIds, raised, stops, loop, toSidecar, toDaemon, cmd>>,
           \A s \in StopIds : rpc'.pc = "reply" /\ rpc'.result.stop = s <=> rpc.pc = "examine" /\ rpc.stop = s
    PROVE  StopsTold'
  <1>1. /\ cmd.reply = NoReply /\ toSidecar = <<>> /\ Responses = {}
        /\ \A s \in StopIds : InHand(s) <=>
                 \/ rpc.pc = "examine" /\ rpc.stop = s
                 \/ cmd.pc = "acking" /\ cmd.stop = s
    BY ServedInHand
  <1>2. cmd.pc \in {"await", "acking"}
    BY ServedInHand
  <1>3. cmd.reply.stop \notin StopIds
    BY <1>1, NoReplyFits, EventsDistinct
  <1>4. Responses' = {}
    BY <1>1 DEF Responses
  <1>5. \A s \in StopIds : InHand(s)' <=> InHand(s)
    BY <1>1, <1>2, <1>3, <1>4 DEF InHand
  <1>6. \A s : (InLoop(s)' <=> InLoop(s)) /\ (Held(s)' <=> Held(s))
    BY DEF InLoop, Held
  <1> QED BY <1>5, <1>6, ToldKept

\* The RPC thread.
LEMMA ToldRpc ==
    ASSUME Grounds, PlainInv, SidecarActs,
           \/ RpcReads \/ PollQueuedStopOrResume \/ PollStop \/ TimesOut \/ ExamineStop
           \/ AckStop \/ SuspendAll \/ TargetGone \/ RpcReplies
    PROVE  StopsTold'
  <1>0. /\ rpc \in RpcStates /\ stops \in Seq(SidecarEvents) /\ toSidecar \in Seq(Requests)
        /\ toDaemon \in Seq(Messages) /\ SidecarTypeOK
        /\ StopsTold /\ OneRequest /\ PlainSession
        /\ NoEvent \notin StopIds /\ VmStart \notin StopIds /\ VmExit \notin StopIds
    BY EventsDistinct DEF Grounds, SessionInv, SidecarInv, SidecarTypeOK, PlainInv
  <1>1. /\ UNCHANGED <<cmd, told, deliveredIds>>
        /\ \A s : Held(s)' <=> Held(s)
    BY SidecarLeaves DEF Held
  <1>2. loop' = loop => \A s : InLoop(s)' <=> InLoop(s)
    BY DEF InLoop
  <1>3. CASE RpcReads
    <2>1. /\ rpc.pc = "idle" /\ toSidecar # <<>> /\ toSidecar' = Tail(toSidecar)
          /\ UNCHANGED <<raised, stops, loop, toDaemon>>
          /\ rpc'.pc = FirstStep(Head(toSidecar).method)
      BY <1>3 DEF RpcReads, RpcIdle, queueVars
    <2> DEFINE r == Head(toSidecar)
    <2>2. r \in ToSet(toSidecar)
      BY <1>0, <2>1, Tailed
    <2>3. Fits(r.method, r.stop)
      BY <1>0, <2>2 DEF OneRequest
    <2> HIDE DEF r
    <2>4. rpc'.pc \notin {"idle", "examine", "reply"} /\ (cmd.pc = "acking" => rpc'.pc = "ackStop")
      BY <2>1, <2>3 DEF r, Fits, PlainMethods, FirstStep, Continuing
    <2>5. \A s \in StopIds : InHand(s)' <=> InHand(s)
      BY <1>1, <2>1, <2>4 DEF InHand, Responses
    <2> QED BY <1>0, <1>1, <1>2, <2>1, <2>5, ToldKept
  <1>4. CASE (PollQueuedStopOrResume /\ stops # <<>>) \/ PollStop
    <2>1. /\ rpc.pc \in {"poll", "wait"} /\ stops # <<>> /\ stops' = Tail(stops)
          /\ rpc' = [rpc EXCEPT !.pc = "examine", !.stop = Head(stops)]
          /\ UNCHANGED <<raised, loop, toSidecar, toDaemon>>
      BY <1>4 DEF PollQueuedStopOrResume, PollStop, RpcAt
    <2> QED BY <2>1, ToldPolls
  <1>5. CASE PollQueuedStopOrResume /\ stops = <<>>
    <2>1. rpc.pc = "poll" /\ rpc'.pc = "wait" /\ UNCHANGED <<raised, stops, loop, toSidecar, toDaemon>>
      BY <1>0, <1>5 DEF PollQueuedStopOrResume, RpcAt, RpcStates
    <2> QED BY <1>0, <1>1, <2>1, ToldServed
  <1>6. CASE TimesOut \/ SuspendAll
    <2>1. /\ rpc.pc \in {"wait", "suspend"} /\ UNCHANGED <<raised, stops, loop, toSidecar, toDaemon>>
          /\ \E x \in {TimedOut, Ok(<<>>)} : Answer(x)
      BY <1>6 DEF TimesOut, SuspendAll, RpcAt, queueVars
    <2>2. rpc'.pc = "reply" /\ rpc'.result \in {TimedOut, Ok(<<>>)}
      BY <1>0, <2>1 DEF Answer, RpcStates, PlainSession, PlainMethods
    <2>3. rpc'.result.stop \notin StopIds
      BY <1>0, <2>2 DEF TimedOut, Ok
    <2> QED BY <1>0, <1>1, <2>1, <2>2, <2>3, ToldServed
  <1>7. CASE ExamineStop
    <2>1. /\ rpc.pc = "examine" /\ UNCHANGED <<raised, stops, loop, toSidecar, toDaemon>>
          /\ AcceptsStop(rpc.stop)
      BY <1>0, <1>7 DEF ExamineStop, RpcAt, AcceptsStop, PlainSession
    <2>2. \/ rpc.stop = VmStart /\ rpc'.pc = "wait"
          \/ rpc.stop # VmStart /\ rpc'.pc = "reply" /\ rpc'.result = Stopped(rpc.stop)
      BY <1>0, <1>7, <2>1 DEF ExamineStop, Answer, RpcStates, PlainSession, PlainMethods
    <2>3. \A s \in StopIds : rpc'.pc = "reply" /\ rpc'.result.stop = s <=> rpc.pc = "examine" /\ rpc.stop = s
      BY <1>0, <2>1, <2>2 DEF Stopped
    <2> QED BY <1>0, <1>1, <2>1, <2>2, <2>3, ToldServed
  <1>8. CASE AckStop \/ (TargetGone /\ rpc.pc = "ackStop")
    <2>1. /\ rpc.pc = "ackStop" /\ UNCHANGED <<raised, loop, toSidecar, toDaemon>>
          /\ stops' = IF rpc.stop \in ToSet(stops) THEN RemoveFirst(stops, rpc.stop) ELSE stops
      BY <1>8 DEF AckStop, TargetGone, GoneWhilePolling, GoneWhileStepping, GoneWhileAcking, GoneWhileResuming, RpcAt
    <2>2. rpc'.pc = "reply" /\ rpc'.result \in {Ok(<<>>), RpcError}
      BY <1>0, <1>8 DEF AckStop, TargetGone, Answer, RpcStates, PlainSession, PlainMethods
    <2>3. rpc'.result.stop = NoEvent
      BY <2>2 DEF Ok, RpcError
    <2> QED BY <2>1, <2>2, <2>3, ToldAcks
  <1>9. CASE TargetGone /\ rpc.pc # "ackStop"
    <2>1. /\ rpc.pc \in {"poll", "suspend"} /\ UNCHANGED <<raised, stops, loop, toSidecar, toDaemon>>
      BY <1>0, <1>9
      DEF TargetGone, GoneWhilePolling, GoneWhileStepping, GoneWhileAcking, GoneWhileResuming, PlainSession
    <2>2. rpc'.pc = "reply" /\ rpc'.result = RpcError
      BY <1>0, <1>9 DEF TargetGone, RpcStates, PlainSession, PlainMethods
    <2>3. rpc'.result.stop \notin StopIds
      BY <1>0, <2>2 DEF RpcError
    <2> QED BY <1>0, <1>1, <2>1, <2>2, <2>3, ToldServed
  <1>10. CASE RpcReplies
    <2> DEFINE m == [type |-> "response", id |-> rpc.id, result |-> rpc.result]
    <2>1. /\ rpc.pc = "reply" /\ toDaemon' = Append(toDaemon, m) /\ rpc'.pc = "idle"
          /\ UNCHANGED <<raised, stops, loop, toSidecar>>
      BY <1>10 DEF RpcReplies, RpcAt, RpcIdle, queueVars
    <2>2. m \in Messages /\ m.type = "response" /\ m.result = rpc.result
      BY <1>0 DEF SidecarTypeOK, RpcStates, Messages
    <2> HIDE DEF m
    <2>3. ToSet(toDaemon') = ToSet(toDaemon) \cup {m}
      BY <1>0, <2>1, <2>2, Appended
    <2>4. Responses = {} /\ cmd.reply = NoReply
      BY <1>0, <2>1, ServedInHand
    <2>5. Responses' = {m}
      BY <2>2, <2>3, <2>4 DEF Responses
    <2>6. \A s \in StopIds : InHand(s)' <=> InHand(s)
      BY <1>1, <2>1, <2>2, <2>4, <2>5 DEF InHand
    <2> QED BY <1>0, <1>1, <1>2, <2>1, <2>6, ToldKept
  <1> QED BY <1>3, <1>4, <1>5, <1>6, <1>7, <1>8, <1>9, <1>10

\* The reader thread.
LEMMA ToldReader ==
    ASSUME Grounds, PlainInv,
           ReaderQueuesEvent \/ ReaderSinksEvent \/ ReaderDeliversResponse
    PROVE  StopsTold'
  <1>0. /\ toDaemon \in Seq(Messages) /\ cmd \in CmdStates /\ InboxTypeOK
        /\ sunk \in SidecarEvents \cup {NoEvent}
        /\ StopsTold /\ OneRequest /\ NoEvent \notin StopIds
    BY EventsDistinct
    DEF Grounds, SessionInv, SidecarInv, SidecarTypeOK, SessionTypeOK, InboxInv, PlainInv
  <1>1. UNCHANGED <<raised, stops, loop, rpc>> /\ \A s : InLoop(s)' <=> InLoop(s)
    BY DaemonLeaves DEF ReaderNext, InLoop
  <1>2. CASE ReaderQueuesEvent
    <2>1. /\ toDaemon # <<>> /\ Head(toDaemon).type = "event" /\ toDaemon' = Tail(toDaemon)
          /\ UNCHANGED <<told, deliveredIds, cmd, toSidecar>>
      BY <1>2 DEF ReaderQueuesEvent, Untouched, inboxVars
    <2>2. Responses' = Responses
      BY <1>0, <2>1, SameResponses
    <2> QED BY <1>0, <1>1, <2>1, <2>2, SameHands, ToldKept
  <1>3. CASE ReaderSinksEvent
    <2>1. UNCHANGED <<told, cmd, toSidecar, toDaemon>>
      BY <1>3 DEF ReaderSinksEvent, sidecarVars
    <2>2. deliveredIds' = deliveredIds
      <3>1. CASE sinkOn /\ ApplySidecarEvent(sunk) /\ sunk # NoEvent
        BY <1>0, <3>1, AppliedQueues
      <3>2. CASE UNCHANGED inboxVars
        BY <3>2 DEF inboxVars
      <3> QED BY <1>3, <3>1, <3>2 DEF ReaderSinksEvent, Untouched
    <2>3. Responses' = Responses
      BY <1>0, <2>1, SameResponses
    <2> QED BY <1>0, <1>1, <2>1, <2>2, <2>3, SameHands, ToldKept
  <1>4. CASE ReaderDeliversResponse
    <2> DEFINE h == Head(toDaemon)
    <2>1. /\ toDaemon # <<>> /\ h.type = "response" /\ toDaemon' = Tail(toDaemon)
          /\ UNCHANGED <<told, deliveredIds, toSidecar>>
      BY <1>4 DEF ReaderDeliversResponse, Untouched, inboxVars
    <2>2. /\ 1 \in DOMAIN toDaemon /\ toDaemon[1] = h
          /\ ToSet(toDaemon) = {h} \cup ToSet(toDaemon')
      BY <1>0, <2>1, Tailed
    <2>3. /\ h.id = cmd.id /\ rpc.pc = "idle"
          /\ \A j \in DOMAIN toDaemon : toDaemon[j].type = "response" => j = 1
      BY <1>0, <2>1, <2>2 DEF OneRequest
    <2>4. cmd.id # 0
      <3>1. h \in Responses
        BY <2>1, <2>2 DEF Responses
      <3> QED BY <1>0, <3>1 DEF OneRequest
    <2>5. cmd' = [cmd EXCEPT !.reply = h.result, !.id = 0]
      BY <1>4, <2>3 DEF ReaderDeliversResponse
    <2>6. cmd'.reply = h.result /\ cmd'.pc = cmd.pc /\ cmd'.stop = cmd.stop
      BY <1>0, <2>5 DEF CmdStates
    <2>7. Responses = {h}
      BY <2>1, <2>2, <2>3 DEF Responses, ToSet
    <2> HIDE DEF h
    <2>8. Responses' = {}
      <3>1. \A i \in DOMAIN toDaemon' : i + 1 \in DOMAIN toDaemon /\ 1 < i + 1 /\ toDaemon'[i] = toDaemon[i + 1]
        BY <1>0, <2>1, Shifted
      <3>2. \A i \in DOMAIN toDaemon' : toDaemon'[i].type # "response"
        <4> SUFFICES ASSUME NEW i \in DOMAIN toDaemon', toDaemon'[i].type = "response" PROVE FALSE
          OBVIOUS
        <4>1. i + 1 = 1 /\ 1 < i + 1
          BY <2>3, <3>1
        <4> QED BY <4>1
      <3> QED BY <3>2 DEF Responses, ToSet
    <2>9. cmd.reply = NoReply /\ cmd.reply.stop \notin StopIds
      BY <1>0, <2>4, NoReplyFits DEF OneRequest
    <2>10. \A s \in StopIds : InHand(s)' <=> InHand(s)
      BY <1>1, <2>1, <2>3, <2>6, <2>7, <2>8, <2>9 DEF InHand
    <2>11. \A s \in StopIds : Held(s)' <=> Held(s)
      BY <2>6 DEF Held
    <2> QED BY <1>0, <1>1, <2>1, <2>10, <2>11, ToldKept
  <1> QED BY <1>2, <1>3, <1>4

\* A step of the command thread before and after which no stop is in hand.
LEMMA ToldQuiet ==
    ASSUME StopsTold, OneRequest, cmd.pc \notin {"await", "acking", "finalize"},
           UNCHANGED <<told, deliveredIds, raised, stops, loop, rpc, toDaemon>>,
           cmd'.pc \notin {"acking", "finalize"}, cmd'.reply = NoReply
    PROVE  StopsTold'
  <1>1. cmd.id = 0 /\ cmd.reply = NoReply
    BY DEF OneRequest
  <1>2. rpc.pc = "idle" /\ Responses = {}
    BY <1>1 DEF OneRequest
  <1>3. \A s \in StopIds : ~ InHand(s) /\ ~ Held(s)
    BY <1>1, NothingInHand
  <1>4. Responses' = {} /\ cmd'.reply.stop \notin StopIds
    BY <1>2, NoReplyFits, EventsDistinct DEF Responses
  <1>5. \A s \in StopIds : ~ InHand(s)' /\ ~ Held(s)' /\ (InLoop(s)' <=> InLoop(s))
    BY <1>2, <1>4 DEF InHand, Held, InLoop
  <1> QED BY <1>3, <1>5, ToldKept

\* The stop in the answer, or the one acknowledged, is about to be told.
LEMMA ToldAnswered ==
    ASSUME StopsTold, OneRequest, cmd \in CmdStates, CmdGetsReply \/ CmdAcked,
           UNCHANGED <<told, deliveredIds, raised, stops, loop, rpc, toDaemon>>
    PROVE  StopsTold'
  <1>1. /\ cmd.pc \in {"await", "acking"} /\ cmd.reply # NoReply
        /\ CmdGetsReply <=> cmd.pc = "await"
    BY DEF CmdGetsReply, CmdAcked, At
  <1>2. cmd.id = 0
    BY <1>1 DEF OneRequest
  <1>3. rpc.pc = "idle" /\ toSidecar = <<>> /\ Responses = {} /\ FitsResult(cmd.reply)
    BY <1>2 DEF OneRequest
  <1>4. Responses' = {} /\ NoReply.stop \notin StopIds /\ NoEvent \notin StopIds
    BY <1>3, NoReplyFits, EventsDistinct DEF Responses
  <1>5. \A s : InLoop(s)' <=> InLoop(s)
    BY DEF InLoop
  <1>6. CASE CmdGetsReply
    <2>1. \A s \in StopIds : InHand(s) <=> cmd.reply.stop = s
      BY <1>1, <1>3, <1>6 DEF InHand
    <2>2. /\ cmd'.pc = AfterReply(cmd.name, cmd.reply.kind) /\ cmd'.reply = NoReply
          /\ cmd'.pc # "idle" => cmd'.stop = cmd.reply.stop
      BY <1>6, GetsReplyMoves
    <2>3. cmd'.pc # "acking"
      BY <2>2 DEF AfterReply
    <2>4. \A s \in StopIds : cmd.reply.stop = s => cmd'.pc = "finalize"
      BY <1>3, <1>4, <2>2 DEF FitsResult, Continuing, AfterReply
    <2>5. \A s \in StopIds : InHand(s)' <=> cmd'.pc = "finalize" /\ cmd'.stop = s
      BY <1>3, <1>4, <2>2, <2>3 DEF InHand
    <2>6. \A s \in StopIds : (InHand(s)' <=> InHand(s)) /\ (Held(s)' => InHand(s))
      BY <2>1, <2>2, <2>3, <2>4, <2>5 DEF Held
    <2> QED BY <1>5, <2>6, ToldKept
  <1>7. CASE CmdAcked
    <2>1. cmd.pc = "acking"
      BY <1>7 DEF CmdAcked, At
    <2>2. \A s \in StopIds : InHand(s) <=> cmd.stop = s
      BY <1>3, <1>4, <2>1 DEF InHand, FitsResult, Continuing
    <2>3. cmd'.pc = "finalize" /\ cmd'.reply = NoReply /\ cmd'.stop = cmd.stop
      BY <1>7 DEF CmdAcked, CmdStates
    <2>4. \A s \in StopIds : InHand(s)' <=> cmd.stop = s
      BY <1>3, <1>4, <2>3 DEF InHand
    <2>5. \A s \in StopIds : Held(s)' => Held(s)
      BY <2>1, <2>3 DEF Held
    <2> QED BY <1>5, <2>2, <2>4, <2>5, ToldKept
  <1> QED BY <1>6, <1>7

\* The first pending stop is the next one to tell.
LEMMA PendingIsNext ==
    ASSUME Grounds, InboxOrder, StopsTold, alive, pendingStops # <<>>,
           cmd.pc \notin {"acking", "finalize"}
    PROVE  Head(pendingStops) = Len(told) + 1 /\ Head(pendingStops) <= Len(raised)
  <1> DEFINE h == Head(pendingStops)
             n == Len(told) + 1
  <1>0. /\ pendingStops \in Seq(StopIds) /\ told \in Seq(StopIds) /\ raised \in Seq(Hits)
        /\ ToSet(pendingStops) \cap ToSet(deliveredIds) = {} /\ deliveredIds = told
        /\ Len(raised) <= MaxStops
    BY DEF Grounds, SessionInv, SessionTypeOK, SidecarInv, SidecarTypeOK, InboxInv, InboxTypeOK,
           PendingNotDelivered, TwinKept, StopsTold
  <1>1. Len(told) \in Nat /\ DOMAIN told = 1 .. Len(told) /\ Len(raised) \in Nat
    BY <1>0, LenProperties
  <1>2. /\ 1 \in DOMAIN pendingStops /\ pendingStops[1] = h /\ h \in ToSet(pendingStops)
        /\ DOMAIN pendingStops = 1 .. Len(pendingStops) /\ Len(pendingStops) \in Nat
    BY <1>0, Tailed
  <1> HIDE DEF h
  <1>3. h \in StopIds /\ h \in 1 .. MaxStops /\ h <= Len(raised)
    <2>1. h \in StopIds
      BY <1>0, <1>2, MemberOfSeq
    <2> QED BY <1>2, <2>1 DEF InboxOrder, Seen, StopIds
  <1>4. \A i \in 1 .. Len(told) : i \in ToSet(told)
    BY <1>1 DEF StopsTold, ToSet
  <1>5. n <= h
    <2>1. h \notin 1 .. Len(told)
      BY <1>0, <1>2, <1>4
    <2> QED BY <1>1, <1>3, <2>1, MaxStopsAssumption
  <1>6. n \in StopIds /\ n \in 1 .. Len(raised)
    BY <1>0, <1>1, <1>3, <1>5, MaxStopsAssumption DEF StopIds
  <1>7. n \notin ToSet(told)
    <2>1. \A i \in DOMAIN told : told[i] # n
      BY <1>1 DEF StopsTold
    <2> QED BY <2>1 DEF ToSet
  <1>8. InEvents(n) /\ ~ Held(n)
    BY <1>6 DEF Grounds, TwinKept, Held
  <1> HIDE DEF n
  <1>9. n \in ToSet(pendingStops) \/ Coming(n) \/ n = sunk
    BY <1>7, <1>8 DEF InEvents, Held, Coming
  <1>10. h <= n
    <2>1. CASE n \in ToSet(pendingStops)
      <3>1. PICK i \in DOMAIN pendingStops : pendingStops[i] = n
        BY <2>1 DEF ToSet
      <3>2. CASE i = 1
        BY <1>2, <1>3, <3>1, <3>2, MaxStopsAssumption
      <3>3. CASE i # 1
        <4>1. 1 < i
          BY <1>2, <3>3
        <4>2. h < n
          BY <1>2, <1>8, <3>1, <4>1 DEF InboxOrder
        <4> QED BY <1>3, <1>6, <4>2, MaxStopsAssumption DEF StopIds
      <3> QED BY <3>2, <3>3
    <2>2. CASE Coming(n)
      <3>1. h < n
        BY <1>2, <1>3, <1>6, <2>2 DEF InboxOrder, Seen
      <3> QED BY <1>3, <1>6, <3>1, MaxStopsAssumption DEF StopIds
    <2>3. CASE n = sunk
      BY <1>2, <1>3, <1>6, <2>3 DEF InboxOrder
    <2> QED BY <1>9, <2>1, <2>2, <2>3
  <1>11. h = n
    BY <1>3, <1>5, <1>6, <1>10, MaxStopsAssumption DEF StopIds
  <1> QED BY <1>3, <1>11 DEF h, n

\* The command thread takes the first pending stop to acknowledge it.
LEMMA ToldTakesPending ==
    ASSUME Grounds, PlainInv, CmdTakesPending
    PROVE  StopsTold'
  <1> DEFINE h == Head(pendingStops)
  <1>0. /\ StopsTold /\ OneRequest /\ InboxOrder /\ alive /\ PlainSession /\ SessionInv
        /\ cmd.pc \in {"applied", "graceApplied"} /\ pendingStops # <<>> /\ InboxTypeOK
        /\ Sends("ackStop", h, "acking")
    BY DEF Grounds, PlainInv, PlainSession, CmdTakesPending, PopPending, At, InboxInv
  <1>1. cmd.id = 0 /\ cmd.reply = NoReply
    BY <1>0 DEF OneRequest
  <1>2. rpc.pc = "idle" /\ Responses = {} /\ \A s \in StopIds : ~ InHand(s) /\ ~ Held(s)
    BY <1>0, <1>1, NothingInHand DEF OneRequest
  <1>3. h \in StopIds /\ h = Len(told) + 1 /\ h <= Len(raised)
    <2>1. h \in StopIds
      BY <1>0, TailSeq DEF InboxTypeOK
    <2> QED BY <1>0, <2>1, PendingIsNext
  <1> HIDE DEF h
  <1>4. /\ cmd' = [cmd EXCEPT !.pc = "acking", !.id = requestId + 1, !.reply = NoReply, !.stop = h]
        /\ toSidecar' = <<[id |-> requestId + 1, method |-> "ackStop", stop |-> h]>>
    BY <1>0, <1>1, <1>3, RequestSent DEF PlainMethods
  <1>5. cmd'.pc = "acking" /\ cmd'.stop = h /\ cmd'.reply = NoReply /\ toSidecar' # <<>>
    <2>1. cmd \in CmdStates
      BY <1>0 DEF SessionInv, SessionTypeOK
    <2> QED BY <1>4, <2>1 DEF CmdStates
  <1>6. UNCHANGED <<told, deliveredIds, raised, stops, loop, rpc, toDaemon>>
    <2>1. UNCHANGED <<told, deliveredIds>>
      BY DEF CmdTakesPending, PopPending
    <2> QED BY <1>0, <2>1 DEF Sends, queueVars
  <1>7. Responses' = {} /\ cmd'.reply.stop \notin StopIds
    BY <1>2, <1>5, <1>6, NoReplyFits, EventsDistinct DEF Responses
  <1>8. \A s \in StopIds : ~ InHand(s)' /\ (InLoop(s)' <=> InLoop(s)) /\ (Held(s)' <=> s = h)
    BY <1>2, <1>5, <1>6, <1>7 DEF InHand, InLoop, Held
  <1>9. \A s \in StopIds : InHand(s)' \/ Held(s)' => s = Len(told) + 1 /\ s <= Len(raised)
    BY <1>3, <1>8
  <1>10. \A s \in StopIds : InLoop(s)' => Len(told) < s /\ ~ InHand(s)'
    BY <1>0, <1>8 DEF StopsTold
  <1>11. \A s \in StopIds : s \in ToSet(stops) <=>
            Len(told) < s /\ s <= Len(raised) /\ ~ InLoop(s)' /\ ~ InHand(s)'
    BY <1>0, <1>2, <1>8 DEF StopsTold
  <1> QED BY <1>0, <1>6, <1>9, <1>10, <1>11 DEF StopsTold

\* The stop in hand is told to the user.
LEMMA ToldTells ==
    ASSUME Plain, Grounds, PlainInv, CmdTellsStop
    PROVE  StopsTold'
  <1> DEFINE x == cmd.stop
  <1>0. /\ StopsTold /\ OneRequest /\ cmd.pc = "finalize" /\ cmd' = CmdIdle /\ SessionTypeOK
        /\ told \in Seq(StopIds) /\ Len(told) \in Nat /\ raised \in Seq(Hits) /\ Len(raised) \in Nat
        /\ VmExit \notin StopIds
    <2>1. StopsTold /\ OneRequest /\ SessionTypeOK /\ told \in Seq(StopIds) /\ raised \in Seq(Hits)
      BY DEF Grounds, PlainInv, SessionInv, SessionTypeOK, SidecarInv, SidecarTypeOK
    <2>2. cmd.pc = "finalize" /\ cmd' = CmdIdle
      BY DEF CmdTellsStop, At, Finishes
    <2>3. Len(told) \in Nat /\ Len(raised) \in Nat
      BY <2>1, LenProperties
    <2>4. VmExit \notin StopIds
      BY EventsDistinct
    <2> QED BY <2>1, <2>2, <2>3, <2>4
  <1>1. UNCHANGED <<raised, stops, loop, rpc, toDaemon>>
    BY DEF CmdTellsStop, sidecarVars, queueVars
  <1>2. cmd.id = 0 /\ cmd.reply = NoReply
    BY <1>0 DEF OneRequest
  <1>3. rpc.pc = "idle" /\ Responses = {}
    BY <1>0, <1>2 DEF OneRequest
  <1>4. Responses' = {} /\ NoReply.stop \notin StopIds /\ rpc' = rpc
    BY <1>1, <1>3, NoReplyFits, EventsDistinct DEF Responses
  <1>5. cmd'.pc = "idle" /\ cmd'.reply = NoReply
    BY <1>0 DEF CmdIdle
  <1>6. \A s \in StopIds : /\ ~ InHand(s)' /\ ~ Held(s)'
                           /\ InLoop(s)' <=> InLoop(s)
                           /\ InHand(s) <=> x = s
                           /\ Held(s) <=> x = s
    BY <1>0, <1>1, <1>2, <1>3, <1>4, <1>5 DEF InHand, Held, InLoop
  <1>7. /\ deliveredIds' = told'
        /\ \/ x = VmExit /\ told' = told
           \/ x \in StopIds /\ x = Len(told) + 1 /\ told' = Append(told, x)
    BY <1>0, TellsNext
  <1> HIDE DEF x
  <1>8. CASE x = VmExit /\ told' = told
    <2>1. \A s \in StopIds : InHand(s)' <=> InHand(s)
      BY <1>0, <1>6, <1>8
    <2>2. deliveredIds' = deliveredIds
      BY <1>0, <1>7, <1>8 DEF StopsTold
    <2> QED BY <1>0, <1>1, <1>6, <1>8, <2>1, <2>2, ToldKept
  <1>9. CASE x \in StopIds /\ x = Len(told) + 1 /\ told' = Append(told, x)
    <2>1. Len(told') = Len(told) + 1 /\ Len(told') \in Nat
      BY <1>0, <1>9, AppendProperties
    <2>2. \A i \in DOMAIN told' : told'[i] = i
      <3>1. DOMAIN told' = 1 .. (Len(told) + 1) /\ DOMAIN told = 1 .. Len(told)
            /\ told'[Len(told) + 1] = x
            /\ \A i \in 1 .. Len(told) : told'[i] = told[i]
        BY <1>0, <1>9, Appended
      <3> QED BY <1>0, <1>9, <3>1 DEF StopsTold
    <2>3. x <= Len(raised)
      BY <1>0, <1>6, <1>9 DEF StopsTold
    <2>4. \A s \in StopIds : Len(told') < s <=> Len(told) < s /\ s # x
      BY <1>0, <1>9, <2>1 DEF StopIds
    <2>5. \A s \in StopIds : InLoop(s)' => Len(told') < s /\ ~ InHand(s)'
      BY <1>0, <1>6, <2>4 DEF StopsTold
    <2>6. \A s \in StopIds : s \in ToSet(stops) <=>
            Len(told') < s /\ s <= Len(raised) /\ ~ InLoop(s)' /\ ~ InHand(s)'
      BY <1>0, <1>6, <2>4 DEF StopsTold
    <2>7. Len(told') <= Len(raised)
      BY <1>9, <2>1, <2>3
    <2>8. \A i, j \in DOMAIN stops :
             i < j /\ stops[i] \in StopIds /\ stops[j] \in StopIds => stops[i] < stops[j]
      BY <1>0 DEF StopsTold
    <2> QED BY <1>1, <1>6, <1>7, <2>2, <2>5, <2>6, <2>7, <2>8 DEF StopsTold
  <1> QED BY <1>7, <1>8, <1>9

\* Every step of a plain session tells the stops in the order they were raised.
LEMMA StopsToldStep ==
    ASSUME Plain, Grounds, PlainInv, [JdiNext]_jdiVars
    PROVE  StopsTold'
  <1>0. /\ SessionInv /\ InboxTypeOK /\ cmd \in CmdStates /\ SessionTypeOK
        /\ StopsTold /\ OneRequest /\ PlainSession
    BY DEF Grounds, PlainInv, SessionInv, SessionTypeOK, InboxInv
  <1>1. ASSUME UNCHANGED <<told, deliveredIds, raised, stops, loop, rpc, toSidecar, toDaemon, cmd>>
        PROVE  StopsTold'
    <2>1. \A s : /\ InHand(s)' <=> InHand(s)
                 /\ Held(s)' <=> Held(s)
                 /\ InLoop(s)' <=> InLoop(s)
      BY <1>1, SameHands DEF Responses, InLoop
    <2> QED BY <1>0, <1>1, <2>1, ToldKept
  <1>2. CASE SidecarActs /\ TargetNext
    BY <1>1, <1>2, SidecarLeaves
  <1>3. CASE UNCHANGED jdiVars
    BY <1>1, <1>3, NothingMoves
  <1>4. CASE RegisterSink \/ PollerNext \/ CmdApplies
    <2>1. UNCHANGED <<raised, stops, loop, rpc, toSidecar, toDaemon, told, cmd>>
      BY <1>4
      DEF RegisterSink, PollerNext, PollerDrains, PollerApplies, PollerDone, CmdApplies, sidecarVars, queueVars
    <2>2. ASSUME NEW w \in Workers, AppliesOne(w) PROVE deliveredIds' = deliveredIds
      <3>1. Head(batch[w]) \in SidecarEvents /\ ApplySidecarEvent(Head(batch[w]))
        BY <1>0, <2>2, TailSeq DEF SessionTypeOK, AppliesOne
      <3> QED BY <1>0, <3>1, AppliedQueues
    <2>3. deliveredIds' = deliveredIds
      <3>1. CASE PollerApplies \/ CmdApplies
        BY <2>2, <3>1 DEF PollerApplies, CmdApplies, Workers
      <3>2. CASE RegisterSink \/ PollerDrains \/ PollerDone
        BY <3>2 DEF RegisterSink, PollerDrains, PollerDone, AppliedAll, MarkDead, Untouched, inboxVars
      <3> QED BY <1>4, <3>1, <3>2 DEF PollerNext
    <2> QED BY <1>1, <2>1, <2>3
  <1>5. ASSUME cmd.pc \notin {"await", "acking", "finalize"},
               UNCHANGED <<raised, stops, loop, rpc, toDaemon, told, deliveredIds>>,
               cmd'.pc \notin {"acking", "finalize"}, cmd'.reply = NoReply
        PROVE  StopsTold'
    BY <1>0, <1>5, ToldQuiet
  <1>6. CASE \E name \in Commands : CmdIssue(name)
    <2>1. UNCHANGED <<raised, stops, loop, rpc, toDaemon, told, deliveredIds>> /\ cmd.pc = "idle"
      BY <1>6 DEF CmdIssue, At, sidecarVars, queueVars, Untouched, inboxVars
    <2>2. cmd'.pc \in {"apply", "applied"} /\ cmd'.reply = NoReply
      BY <1>6 DEF CmdIssue, CmdIdle
    <2> QED BY <1>5, <2>1, <2>2
  <1>7. CASE \/ CmdApplied \/ CmdNoPending \/ CmdGraceWait \/ CmdSessionDead
             \/ CmdReportsTimeout \/ CmdSuspended \/ CmdRequests \/ CmdArms
    <2>1. cmd.pc \notin {"await", "acking", "finalize"}
      BY <1>7
      DEF CmdApplied, CmdNoPending, CmdGraceWait, CmdSessionDead, CmdReportsTimeout, CmdSuspended,
          CmdRequests, CmdArms, At
    <2>2. UNCHANGED <<told, deliveredIds>>
      BY <1>7
      DEF CmdApplied, CmdNoPending, CmdGraceWait, CmdSessionDead, CmdReportsTimeout, CmdSuspended,
          CmdRequests, CmdArms, AppliedAll, MarkDead, SetRunning, SetSuspended, Arm, Untouched, inboxVars
    <2>3. UNCHANGED <<raised, stops, loop, rpc>>
      BY <1>7, DaemonLeaves DEF CmdNext
    <2>4. toDaemon' = toDaemon
      BY <1>0, <1>7, ExitNotInvented DEF CmdNext
    <2>5. cmd.id = 0 /\ cmd.reply = NoReply
      BY <1>0, <2>1 DEF OneRequest
    <2>6. cmd'.pc \notin {"acking", "finalize"} /\ cmd'.reply = NoReply
      <3>1. CASE CmdApplied \/ CmdNoPending \/ CmdGraceWait
        <4>1. \E pc \in {"applied", "graceApplied", "arm", "timeout", "graceApply"} : Goto(pc)
          BY <3>1 DEF CmdApplied, CmdNoPending, CmdGraceWait
        <4> QED BY <1>0, <2>5, <4>1 DEF Goto, CmdStates
      <3>2. CASE CmdSessionDead \/ CmdReportsTimeout \/ CmdSuspended
        BY <3>2 DEF CmdSessionDead, CmdReportsTimeout, CmdSuspended, Finishes, CmdIdle
      <3>3. CASE CmdRequests \/ CmdArms
        <4>1. alive /\ \E m : Sends(m, NoEvent, "await")
          BY <1>0, <3>3 DEF CmdRequests, CmdArms, PlainSession
        <4>2. cmd' = [cmd EXCEPT !.pc = "await", !.id = requestId + 1, !.reply = NoReply, !.stop = NoEvent]
          BY <4>1, Zenon DEF Sends
        <4> QED BY <1>0, <4>2 DEF CmdStates
      <3> QED BY <1>7, <3>1, <3>2, <3>3
    <2> QED BY <1>5, <2>1, <2>2, <2>3, <2>4, <2>6
  <1>8. CASE CmdGetsReply \/ CmdAcked
    <2>1. UNCHANGED <<raised, stops, loop, rpc, toDaemon, told, deliveredIds>>
      BY <1>8 DEF CmdGetsReply, CmdAcked, sidecarVars, queueVars, Untouched, inboxVars
    <2> QED BY <1>0, <1>8, <2>1, ToldAnswered
  <1>9. CASE CmdTakesPending \/ CmdTellsStop
    BY <1>9, ToldTakesPending, ToldTells
  <1>10. CASE JdiNext
    <2>1. \/ SidecarActs /\ TargetNext
          \/ SidecarActs /\ LoopNext
          \/ SidecarActs /\ (RpcReads \/ PollQueuedStopOrResume \/ PollStop \/ TimesOut \/ ExamineStop
                               \/ AckStop \/ SuspendAll \/ TargetGone \/ RpcReplies)
          \/ ReaderQueuesEvent \/ ReaderSinksEvent \/ ReaderDeliversResponse
          \/ RegisterSink \/ PollerNext
          \/ \E name \in Commands : CmdIssue(name)
          \/ CmdApplies \/ CmdApplied \/ CmdRequests \/ CmdTakesPending \/ CmdNoPending \/ CmdArms
          \/ CmdSessionDead \/ CmdGetsReply \/ CmdGraceWait \/ CmdReportsTimeout \/ CmdAcked
          \/ CmdTellsStop \/ CmdSuspended
      BY <1>0, <1>10, PlainSteps, Zenon
    <2> QED BY <1>2, <1>4, <1>6, <1>7, <1>8, <1>9, <2>1, ToldLoop, ToldRpc, ToldReader
  <1> QED BY <1>3, <1>10

\* The start of a plain session.
LEMMA PlainInvInit == JdiInit => PlainInv
  <1> SUFFICES ASSUME JdiInit PROVE PlainInv
    OBVIOUS
  <1>1. /\ cmd = CmdIdle /\ events = <<>> /\ sunk = NoEvent /\ told = <<>>
        /\ deliveredIds = <<>> /\ pendingStops = <<>> /\ \A w \in Workers : batch[w] = <<>>
    BY DEF JdiInit, InboxInit
  <1>2. /\ raised = <<>> /\ stops = <<>> /\ loop = LoopIdle /\ rpc = RpcIdle /\ stepThread = NoThread
        /\ dropped = {} /\ alive /\ toSidecar = <<>> /\ toDaemon = <<>>
    BY DEF JdiInit, SidecarInit
  <1>3. ToSet(<<>>) = {} /\ Len(<<>>) = 0 /\ DOMAIN <<>> = {}
    BY EmptySeq DEF ToSet
  <1>4. NoEvent \notin StopIds
    BY EventsDistinct
  <1>5. PlainSession
    BY <1>1, <1>2 DEF PlainSession, CmdIdle, RpcIdle, PlainPcs, PlainNames, PlainMethods
  <1>6. OneRequest
    BY <1>1, <1>2, <1>3, NoReplyFits DEF OneRequest, CmdIdle, RpcIdle, Responses
  <1>7. WireOrder
    BY <1>2, <1>3, <1>4 DEF WireOrder, LoopIdle
  <1>8. InboxOrder
    <2>1. Copies = {}
      BY <1>1, <1>3 DEF Copies
    <2>2. Seen \cap StopIds = {}
      BY <1>1, <1>3, <1>4, <2>1 DEF Seen, CmdIdle
    <2> QED BY <1>1, <1>3, <1>4, <2>1, <2>2 DEF InboxOrder
  <1>9. StopsTold
    <2>1. \A s \in StopIds : ~ InHand(s) /\ ~ Held(s) /\ ~ InLoop(s)
      BY <1>1, <1>2, <1>3, <1>4, NoReplyFits DEF InHand, Held, InLoop, CmdIdle, RpcIdle, LoopIdle, Responses
    <2>2. \A s \in StopIds : ~ (0 < s /\ s <= 0)
      BY DEF StopIds
    <2> QED BY <1>1, <1>2, <1>3, <2>1, <2>2 DEF StopsTold
  <1> QED BY <1>5, <1>6, <1>7, <1>8, <1>9 DEF PlainInv

\* In a plain session the invariant holds, and with it everything it rests on.
LEMMA PlainInvHolds == Plain => (JdiSafety => [](Grounds /\ PlainInv))
  <1> SUFFICES ASSUME Plain PROVE JdiSafety => [](Grounds /\ PlainInv)
    OBVIOUS
  <1>0. "resume" \notin Commands
    BY DEF Plain
  <1>1. JdiSafety => []InboxInv
    BY SessionImplementsInbox, InboxInvariant, PTL
  <1> DEFINE I == SessionInv /\ DeadIsDead /\ BeforeSink /\ ExitLast /\ TwinKept /\ PlainInv
  <1>2. JdiInit => I
    BY SessionInvInit, AccountsInit, PlainInvInit
  <1>3. InboxInv /\ I /\ [JdiNext]_jdiVars => I'
    <2> SUFFICES ASSUME InboxInv, I, [JdiNext]_jdiVars PROVE I'
      OBVIOUS
    <2>1. Grounds /\ InboxTypeOK /\ PlainInv
      BY DEF Grounds, InboxInv
    <2>2. SessionInv' /\ DeadIsDead' /\ BeforeSink' /\ ExitLast' /\ TwinKept'
      BY <1>0, <2>1, SessionInvStep, DeadIsDeadStep, BeforeSinkStep, ExitLastStep, TwinKeptStep
    <2>3. PlainSession' /\ OneRequest'
      BY <2>1, RequestStep DEF PlainInv
    <2>4. WireOrder'
      BY <2>1, WireOrderStep DEF PlainInv
    <2>5. InboxOrder' /\ StopsTold'
      BY <2>1, InboxOrderStep, StopsToldStep
    <2> QED BY <2>2, <2>3, <2>4, <2>5 DEF PlainInv
  <1>4. InboxInv /\ I => Grounds /\ PlainInv
    BY DEF Grounds
  <1> HIDE DEF I
  <1> QED BY <1>1, <1>2, <1>3, <1>4, PTL DEF JdiSafety

\* Every stop reaches the daemon twice, as the answer to continue and as an event,
\* and is told by a command in FinalizeDeliveredStop.  In a plain session the
\* stops told are the first ones the target raised, in order, each once.
THEOREM ToldInOrderHolds == Plain => (JdiSafety => []ToldInOrder)
  <1> SUFFICES ASSUME Plain PROVE JdiSafety => []ToldInOrder
    OBVIOUS
  <1>1. PlainInv => ToldInOrder
    BY DEF PlainInv, StopsTold, ToldInOrder
  <1>2. JdiSafety => [](Grounds /\ PlainInv)
    BY PlainInvHolds
  <1> HIDE DEF Grounds, PlainInv
  <1> QED BY <1>1, <1>2, PTL

-----------------------------------------------------------------------------
(* The ledger of stops.                                                    *)

\* What the event loop raises and the command thread tells.
LEMMA RaisesOrTells ==
    ASSUME Grounds, JdiNext
    PROVE  \/ UNCHANGED <<raised, told>>
           \/ LoopAccepts /\ told' = told
           \/ CmdTellsStop /\ raised' = raised
  <1>1. CASE SidecarActs
    <2>1. told' = told
      BY <1>1, SidecarLeaves
    <2>2. CASE TargetNext \/ RpcNext
      BY <1>1, <2>1, <2>2, SidecarLeaves
    <2>3. CASE LoopNext
      BY <2>1, <2>3 DEF LoopNext, LoopRejects, LoopFails, LoopQueuesStop, LoopVmStart, LoopVmDeath,
                        LoopSends, queueVars
    <2> QED BY <1>1, <2>2, <2>3 DEF SidecarActs
  <1>2. ASSUME ~ SidecarActs, ~ CmdTellsStop PROVE UNCHANGED <<raised, told>>
    <2>1. raised' = raised
      BY <1>2, DaemonLeaves DEF JdiNext
    <2>2. CASE ReaderNext \/ RegisterSink \/ PollerNext
      BY <2>1, <2>2
      DEF ReaderNext, ReaderQueuesEvent, ReaderSinksEvent, ReaderDeliversResponse, ReaderEnds, RegisterSink,
          PollerNext, PollerDrains, PollerApplies, PollerDone
    <2>3. CASE ClientNext
      BY <2>1, <2>3, Zenon DEF ClientNext, CmdKill, CmdIssue
    <2>4. CASE CmdNext
      BY <1>2, <2>1, <2>4
      DEF CmdNext, CmdApplies, CmdApplied, CmdRequests, CmdTakesPending, CmdNoPending, CmdArms, CmdSessionDead,
          CmdGetsReply, CmdGraceWait, CmdReportsTimeout, CmdAcked, CmdSuspended, CmdDrainsPending, CmdRemembers,
          CmdResumed, CmdShutsDown, CmdKilled
    <2>5. CASE CmdRequestTimesOut \/ SidecarCrashes
      BY <2>1, <2>5 DEF CmdRequestTimesOut, SidecarCrashes, sessionVars
    <2> QED BY <1>2, <2>2, <2>3, <2>4, <2>5 DEF JdiNext
  <1>3. CmdTellsStop => raised' = raised
    BY DaemonLeaves DEF CmdNext
  <1> QED BY <1>1, <1>2, <1>3

\* Every step of a plain session raises a stop, tells one, or stutters.
LEMMA LedgerStep ==
    ASSUME Plain, Grounds, PlainInv, PlainInv', [JdiNext]_jdiVars
    PROVE  [Ledger!LedgerNext]_Ledger!ledgerVars
  <1> DEFINE out == Raised \ (ToSet(told) \cup dropped)
  <1>0. /\ told \in Seq(StopIds) /\ raised \in Seq(Hits) /\ vmEvents \in Seq(VmEvents) /\ SessionTypeOK
        /\ dropped = {} /\ dropped' = {} /\ StopsTold
    BY DEF Grounds, SessionInv, SessionTypeOK, SidecarInv, SidecarTypeOK, PlainInv, PlainSession
  <1>1. /\ Len(told) \in Nat /\ Len(raised) \in Nat
        /\ DOMAIN told = 1 .. Len(told)
    BY <1>0, LenProperties
  <1>2. \A s \in ToSet(told) : s \in Raised
    BY <1>0, <1>1 DEF StopsTold, ToSet, Raised
  <1> Ledger!StopIds = StopIds /\ \A q : Ledger!ToSet(q) = ToSet(q)
    BY DEF Ledger!StopIds, StopIds, Ledger!ToSet, ToSet
  <1>3. CASE UNCHANGED <<raised, told>>
    BY <1>0, <1>3 DEF Ledger!ledgerVars, Raised
  <1>4. CASE LoopAccepts /\ told' = told
    <2> DEFINE s == Len(raised) + 1
    <2>1. Len(raised') = s /\ Len(raised) < MaxStops
      <3>1. Head(vmEvents) \in VmEvents /\ Head(vmEvents).kind \in {"hit", "step"}
        BY <1>0, <1>4, TailSeq DEF LoopAccepts, LoopReads
      <3>2. [thread |-> Head(vmEvents).thread, policy |-> Head(vmEvents).policy] \in Hits
        BY <3>1 DEF VmEvents, Hits
      <3>3. /\ raised' = Append(raised, [thread |-> Head(vmEvents).thread, policy |-> Head(vmEvents).policy])
            /\ Len(raised) < MaxStops
        BY <1>4 DEF LoopAccepts
      <3> QED BY <1>0, <3>2, <3>3, AppendProperties
    <2>2. s \in StopIds /\ s \notin Raised
      BY <1>1, <2>1, MaxStopsAssumption DEF StopIds, Raised
    <2>3. Raised' = Raised \cup {s}
      BY <1>1, <2>1 DEF Raised
    <2> HIDE DEF s
    <2>4. s \notin out \cup ToSet(told) \cup dropped /\ out' = out \cup {s}
      BY <1>0, <1>2, <1>4, <2>2, <2>3
    <2>5. Ledger!Raise(s)
      BY <1>0, <1>4, <2>4 DEF Ledger!Raise
    <2> QED BY <2>2, <2>5 DEF Ledger!LedgerNext
  <1>5. CASE CmdTellsStop /\ raised' = raised
    <2> DEFINE x == cmd.stop
    <2>1. \/ x = VmExit /\ told' = told
          \/ x \in StopIds /\ x = Len(told) + 1 /\ told' = Append(told, x)
      BY <1>0, <1>5, TellsNext
    <2>2. CASE told' = told
      BY <1>3, <1>5, <2>2
    <2>3. CASE x \in StopIds /\ x = Len(told) + 1 /\ told' = Append(told, x)
      <3>1. cmd.pc = "finalize"
        BY <1>5 DEF CmdTellsStop, At
      <3>2. x <= Len(raised)
        BY <1>0, <2>3, <3>1 DEF StopsTold, Held
      <3>3. x \in out
        <4>1. \A i \in DOMAIN told : told[i] # x
          BY <1>0, <1>1, <2>3 DEF StopsTold
        <4> QED BY <1>0, <1>1, <2>3, <3>2, <4>1 DEF Raised, ToSet
      <3> HIDE DEF x
      <3>4. ToSet(told') = ToSet(told) \cup {x} /\ Raised' = Raised
        BY <1>0, <1>5, <2>3, Appended DEF Raised
      <3>5. out' = out \ {x}
        BY <1>0, <3>4
      <3>6. Ledger!Report(x)
        BY <1>0, <2>3, <3>3, <3>5 DEF Ledger!Report
      <3> QED BY <2>3, <3>6 DEF Ledger!LedgerNext
    <2> QED BY <2>1, <2>2, <2>3
  <1>6. UNCHANGED jdiVars => UNCHANGED <<raised, told>>
    BY NothingMoves
  <1> QED BY <1>3, <1>4, <1>5, <1>6, RaisesOrTells

\* A plain session implements the ledger of stops: sidecar, wire, inbox and
\* command thread together do no more than raise a stop or tell one that was
\* raised and not told, and with each step at most one.
THEOREM SessionImplementsLedger == Plain => (JdiSafety => ImplementsLedger)
  <1> SUFFICES ASSUME Plain PROVE JdiSafety => ImplementsLedger
    OBVIOUS
  <1>1. JdiInit => Ledger!LedgerInit
    <2> SUFFICES ASSUME JdiInit PROVE Ledger!LedgerInit
      OBVIOUS
    <2>1. told = <<>> /\ raised = <<>> /\ dropped = {}
      BY DEF JdiInit, SidecarInit
    <2>2. ToSet(<<>>) = {} /\ Len(<<>>) = 0
      BY EmptySeq DEF ToSet
    <2>3. Raised = {}
      BY <2>1, <2>2 DEF Raised
    <2> QED BY <2>1, <2>2, <2>3 DEF Ledger!LedgerInit
  <1>2. JdiSafety => [](Grounds /\ PlainInv)
    BY PlainInvHolds
  <1>3. Grounds /\ PlainInv /\ PlainInv' /\ [JdiNext]_jdiVars => [Ledger!LedgerNext]_Ledger!ledgerVars
    BY LedgerStep
  <1> HIDE DEF Grounds, PlainInv
  <1> QED BY <1>1, <1>2, <1>3, PTL DEF JdiSafety, ImplementsLedger, Ledger!LedgerSpec

-----------------------------------------------------------------------------
(* The stop told is the one inspected.                                     *)

\* The target stays: nothing on the way tells of its exit.
TargetStays ==
    /\ vmUp
    /\ \A i \in DOMAIN vmEvents : vmEvents[i].kind # "vmDeath"
    /\ ~ LoopDone

\* The start of the VM comes before its stops.
StartFirst ==
    \A i \in DOMAIN vmEvents : vmEvents[i].kind = "vmStart" => i = 1 /\ raised = <<>> /\ loop.pc = "idle"

\* A command that has let the target run has yet to tell a stop.
Asked == Continuing \/ cmd.pc \in {"grace", "graceApply", "graceApplied", "timeout"}

\* Whoever asks has not been told a stop; a stop in hand is the selected one, and
\* so is the one told last, until the target is resumed.
Inspected ==
    /\ Asked => deliveredStop = NoEvent
    /\ \A s \in StopIds : InHand(s) /\ rpc.pc # "examine" => current = s
    /\ deliveredStop # NoEvent =>
          /\ deliveredStop \in StopIds
          /\ deliveredStop = Len(told)
          /\ lastEvent = deliveredStop
          /\ state = "Suspended"
          /\ cmd.pc \in {"acking", "finalize"} \/ current = deliveredStop

\* The steps of the RPC thread in a plain session.
LEMMA PlainRpcNext ==
    ASSUME PlainSession, RpcNext
    PROVE  \/ RpcReads \/ PollQueuedStopOrResume \/ PollStop \/ TimesOut \/ ExamineStop
           \/ AckStop \/ SuspendAll \/ TargetGone \/ RpcReplies
  BY DEF PlainSession, RpcNext, StepBegins, StepDiscardsOther, StepDiscardedOthers, StepFails, StepFinally,
         DiscardCurrent, DiscardNext, VmResume, Terminate, RpcAt

\* What the target reports, as long as it does not exit.
LEMMA TargetReports ==
    ASSUME TargetNext
    PROVE  \E m \in VmEvents : /\ vmEvents' = Append(vmEvents, m)
                               /\ m.kind # "vmStart"
                               /\ ~ TargetMayExit => m.kind # "vmDeath"
  <1>1. ASSUME NEW t \in Threads, NEW policy \in {"thread", "all"}, NEW kind \in {"hit", "step"}
        PROVE  LET m == [kind |-> kind, thread |-> t, policy |-> policy]
               IN m \in VmEvents /\ m.kind \notin {"vmStart", "vmDeath"}
    BY DEF VmEvents
  <1>2. ASSUME NEW t \in Threads, NEW policy \in Policies, TargetHits(t, policy)
        PROVE  \E m \in VmEvents : /\ vmEvents' = Append(vmEvents, m)
                                   /\ m.kind \notin {"vmStart", "vmDeath"}
    BY <1>1, <1>2, SidecarAssumption DEF TargetHits
  <1>3. ASSUME NEW t \in Threads, TargetSteps(t)
        PROVE  \E m \in VmEvents : /\ vmEvents' = Append(vmEvents, m)
                                   /\ m.kind \notin {"vmStart", "vmDeath"}
    BY <1>1, <1>3 DEF TargetSteps
  <1>4. CASE TargetExits
    <2>1. /\ [kind |-> "vmDeath"] \in VmEvents /\ vmEvents' = Append(vmEvents, [kind |-> "vmDeath"])
          /\ TargetMayExit
      BY <1>4 DEF TargetExits, VmEvents
    <2> QED BY <2>1
  <1> QED BY <1>2, <1>3, <1>4 DEF TargetNext, TargetHitsRequest

\* No step ends a target that does not exit, or says that it has.
LEMMA TargetStaysStep ==
    ASSUME ~ TargetMayExit, Plain, Grounds, PlainSession, TargetStays, [JdiNext]_jdiVars
    PROVE  TargetStays'
  <1>0. /\ SidecarTypeOK /\ vmEvents \in Seq(VmEvents) /\ loop \in LoopStates
        /\ loop.pc # "ended" /\ loop.stop # VmExit /\ vmUp
    BY DEF Grounds, SessionInv, SidecarInv, SidecarTypeOK, TargetStays, LoopDone
  <1>1. ASSUME UNCHANGED <<vmUp, vmEvents, loop>> PROVE TargetStays'
    BY <1>1 DEF TargetStays, LoopDone
  <1>2. CASE SidecarActs /\ TargetNext
    <2>1. UNCHANGED <<vmUp, loop>>
      BY <1>2 DEF TargetNext, TargetHitsRequest, TargetHits, TargetSteps, TargetExits
    <2>2. PICK m \in VmEvents : m.kind # "vmDeath" /\ vmEvents' = Append(vmEvents, m)
      BY <1>2, TargetReports
    <2>3. \A i \in DOMAIN vmEvents' : vmEvents'[i] = m \/ (i \in DOMAIN vmEvents /\ vmEvents'[i] = vmEvents[i])
      BY <1>0, <2>2, Lengthened
    <2> QED BY <2>1, <2>2, <2>3 DEF TargetStays, LoopDone
  <1>3. CASE SidecarActs /\ LoopNext
    <2>1. vmUp' = vmUp
      BY <1>3, SidecarLeaves
    <2>2. CASE LoopQueuesStop \/ LoopSends
      <3>1. vmEvents' = vmEvents
        BY <2>2 DEF LoopQueuesStop, LoopSends, targetVars
      <3>2. loop'.pc # "ended" /\ loop'.stop # VmExit
        BY <1>0, <2>2, EventsDistinct DEF LoopQueuesStop, LoopSends, LoopIdle, LoopStates
      <3> QED BY <2>1, <3>1, <3>2 DEF TargetStays, LoopDone
    <2>3. CASE ~ (LoopQueuesStop \/ LoopSends)
      <3>1. vmEvents # <<>> /\ vmEvents' = Tail(vmEvents)
        BY <1>3, <2>3 DEF LoopNext, LoopAccepts, LoopRejects, LoopFails, LoopVmStart, LoopVmDeath, LoopReads
      <3>2. \A i \in DOMAIN vmEvents' : i + 1 \in DOMAIN vmEvents /\ vmEvents'[i] = vmEvents[i + 1]
        BY <1>0, <3>1, Shifted
      <3>3. Head(vmEvents).kind # "vmDeath"
        <4>1. 1 \in DOMAIN vmEvents /\ vmEvents[1] = Head(vmEvents)
          BY <1>0, <3>1, Tailed
        <4> QED BY <4>1 DEF TargetStays
      <3>4. loop'.pc # "ended" /\ loop'.stop # VmExit
        <4>1. CASE LoopAccepts
          <5>1. Len(raised) \in Nat /\ Len(raised) < MaxStops
            BY <1>0, <4>1, LenProperties DEF LoopAccepts, SidecarTypeOK
          <5>2. Len(raised) + 1 \in StopIds
            BY <5>1, MaxStopsAssumption DEF StopIds
          <5> QED BY <4>1, <5>2, EventsDistinct DEF LoopAccepts
        <4>2. CASE LoopRejects \/ LoopVmStart
          <5>1. loop' = loop \/ loop' = [pc |-> "send", stop |-> VmStart]
            BY <4>2 DEF LoopRejects, LoopVmStart
          <5> QED BY <1>0, <5>1, EventsDistinct
        <4> QED BY <1>0, <1>3, <2>3, <3>3, <4>1, <4>2 DEF LoopNext, LoopFails, LoopVmDeath, LoopReads
      <3> QED BY <2>1, <3>2, <3>4 DEF TargetStays, LoopDone
    <2> QED BY <2>2, <2>3
  <1>4. CASE SidecarActs /\ RpcNext
    <2>1. UNCHANGED <<vmUp, vmEvents, raised, loop>>
      BY <1>4, PlainRpcNext, SidecarLeaves
      DEF RpcReads, PollQueuedStopOrResume, PollStop, TimesOut, ExamineStop, AckStop, SuspendAll, TargetGone,
          RpcReplies, targetVars
    <2> QED BY <1>1, <2>1
  <1>5. CASE UNCHANGED jdiVars
    BY <1>1, <1>5, NothingMoves
  <1>6. CASE \/ ReaderNext \/ RegisterSink \/ PollerNext \/ ClientNext \/ CmdNext
             \/ CmdRequestTimesOut \/ SidecarCrashes
    BY <1>1, <1>6, DaemonLeaves
  <1> QED BY <1>2, <1>3, <1>4, <1>5, <1>6 DEF JdiNext, SidecarActs

\* The start of the VM is read before any stop.
LEMMA StartFirstStep ==
    ASSUME Plain, Grounds, PlainSession, StartFirst, [JdiNext]_jdiVars
    PROVE  StartFirst'
  <1>0. /\ SidecarTypeOK /\ vmEvents \in Seq(VmEvents)
    BY DEF Grounds, SessionInv, SidecarInv, SidecarTypeOK
  <1>1. ASSUME UNCHANGED <<vmEvents, raised, loop>> PROVE StartFirst'
    BY <1>1 DEF StartFirst
  <1>2. CASE SidecarActs /\ TargetNext
    <2>1. UNCHANGED <<raised, loop>>
      BY <1>2, SidecarLeaves
    <2>2. PICK m \in VmEvents : m.kind # "vmStart" /\ vmEvents' = Append(vmEvents, m)
      BY <1>2, TargetReports
    <2>3. \A i \in DOMAIN vmEvents' : vmEvents'[i] = m \/ (i \in DOMAIN vmEvents /\ vmEvents'[i] = vmEvents[i])
      BY <1>0, <2>2, Lengthened
    <2> QED BY <2>1, <2>2, <2>3 DEF StartFirst
  <1>3. CASE SidecarActs /\ LoopNext
    <2>1. CASE LoopQueuesStop \/ LoopSends
      <3>1. vmEvents' = vmEvents /\ loop.pc # "idle"
        BY <2>1 DEF LoopQueuesStop, LoopSends, targetVars
      <3> QED BY <3>1 DEF StartFirst
    <2>2. CASE ~ (LoopQueuesStop \/ LoopSends)
      <3>1. vmEvents # <<>> /\ vmEvents' = Tail(vmEvents)
        BY <1>3, <2>2 DEF LoopNext, LoopAccepts, LoopRejects, LoopFails, LoopVmStart, LoopVmDeath, LoopReads
      <3>2. \A i \in DOMAIN vmEvents' :
               i + 1 \in DOMAIN vmEvents /\ 1 < i + 1 /\ vmEvents'[i] = vmEvents[i + 1]
        BY <1>0, <3>1, Shifted
      <3>3. \A i \in DOMAIN vmEvents' : vmEvents'[i].kind # "vmStart"
        <4> SUFFICES ASSUME NEW i \in DOMAIN vmEvents', vmEvents'[i].kind = "vmStart" PROVE FALSE
          OBVIOUS
        <4>1. i + 1 = 1 /\ 1 < i + 1
          BY <3>2 DEF StartFirst
        <4> QED BY <4>1
      <3> QED BY <3>3 DEF StartFirst
    <2> QED BY <2>1, <2>2
  <1>4. CASE SidecarActs /\ RpcNext
    <2>1. UNCHANGED <<vmUp, vmEvents, raised, loop>>
      BY <1>4, PlainRpcNext, SidecarLeaves
      DEF RpcReads, PollQueuedStopOrResume, PollStop, TimesOut, ExamineStop, AckStop, SuspendAll, TargetGone,
          RpcReplies, targetVars
    <2> QED BY <1>1, <2>1
  <1>5. CASE UNCHANGED jdiVars
    BY <1>1, <1>5, NothingMoves
  <1>6. CASE \/ ReaderNext \/ RegisterSink \/ PollerNext \/ ClientNext \/ CmdNext
             \/ CmdRequestTimesOut \/ SidecarCrashes
    BY <1>1, <1>6, DaemonLeaves
  <1> QED BY <1>2, <1>3, <1>4, <1>5, <1>6 DEF JdiNext, SidecarActs

\* While nothing is queued, told or raised, no stop comes in hand.
LEMMA HandKept ==
    ASSUME StopsTold, StopsTold', UNCHANGED <<raised, stops, loop>>,
           Len(told) \in Nat, Len(told') \in Nat, Len(told) <= Len(told')
    PROVE  \A s \in StopIds : InHand(s)' => InHand(s)
  <1> SUFFICES ASSUME NEW s \in StopIds, InHand(s)' PROVE InHand(s)
    OBVIOUS
  <1>1. s = Len(told') + 1 /\ s <= Len(raised)
    BY DEF StopsTold
  <1>2. s \notin ToSet(stops)
    BY DEF StopsTold
  <1>3. ~ InLoop(s)
    BY DEF StopsTold, InLoop
  <1>4. Len(told) < s
    BY <1>1
  <1> QED BY <1>1, <1>2, <1>3, <1>4 DEF StopsTold

\* As long as the target stays its exit is in nobody's hands.
LEMMA NoExitAbout ==
    ASSUME ExitLast, TargetStays
    PROVE  /\ VmExit \notin ToSet(stops) /\ rpc.stop # VmExit
           /\ cmd.stop # VmExit /\ sunk # VmExit /\ VmExit \notin ToSet(events)
           /\ \A w \in Workers : VmExit \notin ToSet(batch[w])
           /\ state # "Exited"
  BY DEF ExitLast, TargetStays, ExitTold

\* A step that selects nothing and tells nothing.
LEMMA InspectedKept ==
    ASSUME SessionTypeOK, StopsTold, StopsTold', Inspected,
           UNCHANGED <<raised, stops, loop, told, current>>,
           rpc'.pc # "examine" => rpc.pc # "examine",
           deliveredStop' \in {deliveredStop, NoEvent},
           deliveredStop' # NoEvent => UNCHANGED <<lastEvent, state>>,
           Asked' => Asked \/ deliveredStop' = NoEvent,
           cmd.pc \in {"acking", "finalize"} => cmd'.pc \in {"acking", "finalize"}
    PROVE  Inspected'
  <1>1. Len(told) \in Nat
    BY LenProperties DEF SessionTypeOK
  <1>2. \A s \in StopIds : InHand(s)' => InHand(s)
    BY <1>1, HandKept
  <1>3. \A s \in StopIds : InHand(s)' /\ rpc'.pc # "examine" => current = s
    BY <1>2 DEF Inspected
  <1>4. Asked' => deliveredStop' = NoEvent
    BY DEF Inspected
  <1>5. deliveredStop' # NoEvent =>
          /\ deliveredStop' \in StopIds
          /\ deliveredStop' = Len(told)
          /\ lastEvent' = deliveredStop'
          /\ state' = "Suspended"
          /\ cmd'.pc \in {"acking", "finalize"} \/ current = deliveredStop'
    BY DEF Inspected
  <1> QED BY <1>3, <1>4, <1>5 DEF Inspected

\* The event loop selects a stop only when none is selected.
LEMMA InspectedLoop ==
    ASSUME Grounds, PlainInv, TargetStays, StartFirst, Inspected, SidecarActs, LoopNext
    PROVE  Inspected'
  <1>0. /\ SidecarInv /\ vmEvents \in Seq(VmEvents) /\ loop \in LoopStates
        /\ StopsTold /\ told \in Seq(StopIds)
        /\ NoEvent \notin StopIds
    BY EventsDistinct
    DEF Grounds, SessionInv, SessionTypeOK, SidecarInv, SidecarTypeOK, PlainInv
  <1>1. UNCHANGED <<cmd, told, rpc, state, lastEvent, deliveredStop>>
    BY SidecarLeaves
  <1>2. \A s : InHand(s)' <=> InHand(s)
    BY <1>0, LoopHands
  <1>3. Asked' <=> Asked
    BY <1>1 DEF Asked, Continuing
  <1>4. CASE current' = current
    BY <1>1, <1>2, <1>3, <1>4 DEF Inspected
  <1>5. CASE LoopQueuesStop /\ current = NoEvent
    BY <1>0, <1>1, <1>2, <1>3, <1>5 DEF Inspected
  <1>6. CASE LoopVmStart
    <2>1. vmEvents # <<>> /\ Head(vmEvents).kind = "vmStart"
      BY <1>6 DEF LoopVmStart, LoopReads
    <2>2. 1 \in DOMAIN vmEvents /\ vmEvents[1] = Head(vmEvents)
      BY <1>0, <2>1, Tailed
    <2>3. Len(raised) = 0
      BY <2>1, <2>2, EmptySeq DEF StartFirst
    <2>4. Len(told) = 0 /\ Len(told) \in Nat
      BY <1>0, <2>3, LenProperties DEF StopsTold
    <2>5. \A s \in StopIds : ~ InHand(s)
      BY <1>0, <2>3 DEF StopsTold, StopIds
    <2>6. deliveredStop = NoEvent
      BY <2>4 DEF Inspected, StopIds
    <2> QED BY <1>1, <1>2, <1>3, <2>5, <2>6 DEF Inspected
  <1> QED BY <1>4, <1>5, <1>6
          DEF LoopNext, LoopAccepts, LoopRejects, LoopFails, LoopQueuesStop, LoopVmDeath, LoopSends, queueVars

\* The RPC thread selects the stop it answers with, or the one acknowledged.
LEMMA InspectedRpc ==
    ASSUME Plain, Grounds, PlainInv, TargetStays, Inspected, SidecarActs, RpcNext, StopsTold'
    PROVE  Inspected'
  <1>0. /\ SessionTypeOK /\ SidecarTypeOK /\ rpc \in RpcStates
        /\ StopsTold /\ OneRequest /\ PlainSession /\ InboxOrder /\ ExitLast
        /\ Len(told) \in Nat /\ NoEvent \notin StopIds /\ VmStart \notin StopIds
    BY LenProperties, EventsDistinct
    DEF Grounds, SessionInv, SessionTypeOK, SidecarInv, SidecarTypeOK, PlainInv
  <1>1. UNCHANGED <<cmd, told, raised, loop, state, lastEvent, deliveredStop>>
    BY SidecarLeaves
  <1>2. Asked' <=> Asked
    BY <1>1 DEF Asked, Continuing
  <1>3. stops' = stops => \A s \in StopIds : InHand(s)' => InHand(s)
    BY <1>0, <1>1, HandKept
  <1>4. rpc.pc \in {"poll", "wait", "examine"} => deliveredStop = NoEvent /\ cmd.pc = "await"
    BY <1>0 DEF OneRequest, Asked, Continuing, Inspected
  <1>5. CASE RpcReads \/ TimesOut \/ SuspendAll \/ RpcReplies
    <2>1. UNCHANGED <<stops, current>> /\ rpc.pc # "examine"
      BY <1>5 DEF RpcReads, TimesOut, SuspendAll, RpcReplies, RpcAt, queueVars
    <2> QED BY <1>0, <1>1, <1>2, <2>1, InspectedKept
  <1>6. CASE PollQueuedStopOrResume \/ PollStop
    <2>1. rpc.pc \in {"poll", "wait"}
      BY <1>6 DEF PollQueuedStopOrResume, PollStop, RpcAt
    <2>2. CASE rpc'.pc = "examine"
      BY <1>1, <1>2, <1>4, <2>1, <2>2 DEF Inspected
    <2>3. CASE rpc'.pc # "examine"
      <3>1. stops' = stops
        BY <1>0, <1>6, <2>3 DEF PollQueuedStopOrResume, PollStop, RpcStates
      <3>2. \A s \in StopIds : ~ InHand(s)
        BY <1>0, <1>4, <2>1, ServedInHand
      <3> QED BY <1>1, <1>2, <1>3, <1>4, <2>1, <3>1, <3>2 DEF Inspected
    <2> QED BY <2>2, <2>3
  <1>7. CASE ExamineStop
    <2>1. rpc.pc = "examine" /\ stops' = stops /\ AcceptsStop(rpc.stop)
      BY <1>0, <1>7 DEF ExamineStop, RpcAt, AcceptsStop, PlainSession
    <2>2. \A s \in StopIds : InHand(s)' => rpc.stop = s
      BY <1>0, <1>3, <1>4, <2>1, ServedInHand
    <2>3. rpc.stop # VmExit
      BY <1>0, NoExitAbout
    <2>4. rpc.stop \in StopIds => current' = rpc.stop
      BY <1>0, <1>7, <2>1, <2>3 DEF ExamineStop, SelectStop
    <2> QED BY <1>1, <1>2, <1>4, <2>1, <2>2, <2>4 DEF Inspected
  <1>8. CASE AckStop
    <2>1. rpc.pc = "ackStop" /\ cmd.pc = "acking" /\ cmd.stop = rpc.stop
      BY <1>0, <1>8 DEF AckStop, RpcAt, OneRequest
    <2>2. \A s \in StopIds : InHand(s)' => s = rpc.stop
      <3>1. cmd.reply = NoReply /\ Responses = {} /\ rpc'.pc = "reply" /\ rpc'.result.stop = NoEvent
        BY <1>0, <1>8, <2>1, ServedInHand DEF AckStop, Answer, RpcStates, Ok, PlainSession, PlainMethods
      <3>2. Responses' = {} /\ cmd'.reply.stop \notin StopIds
        BY <1>1, <1>8, <3>1, NoReplyFits, EventsDistinct DEF AckStop, Responses
      <3> QED BY <1>0, <1>1, <2>1, <3>1, <3>2 DEF InHand
    <2>3. rpc.stop \in StopIds => rpc.stop \in ToSet(stops)
      BY <1>0, <2>1, AckedQueued
    <2>4. rpc.stop # VmExit
      BY <1>0, NoExitAbout
    <2>5. rpc.stop \in StopIds => current' = rpc.stop
      BY <1>8, <2>3, <2>4 DEF AckStop, SelectStop
    <2>6. ~ Asked
      BY <2>1 DEF Asked, Continuing
    <2> QED BY <1>1, <1>2, <2>1, <2>2, <2>5, <2>6 DEF Inspected
  <1>9. CASE TargetGone
    BY <1>9 DEF TargetGone, TargetStays
  <1> QED BY <1>0, <1>5, <1>6, <1>7, <1>8, <1>9, PlainRpcNext

\* An event does not change what is shown of a stop that has been told.
LEMMA AppliedShows ==
    ASSUME NEW e \in SidecarEvents, e # VmExit, ApplySidecarEvent(e), Inspected
    PROVE  deliveredStop' = deliveredStop /\ (deliveredStop # NoEvent => UNCHANGED <<lastEvent, state>>)
  <1>1. CASE e = VmStart /\ UNCHANGED inboxVars
    BY <1>1 DEF inboxVars
  <1>2. CASE e \in StopIds /\ ApplyStop(e)
    BY <1>2, EventsDistinct DEF ApplyStop, inboxVars, Inspected
  <1> QED BY <1>1, <1>2 DEF ApplySidecarEvent

\* The stop that is told is the one the sidecar has selected.
LEMMA InspectedTells ==
    ASSUME Plain, Grounds, PlainInv, TargetStays, Inspected, CmdTellsStop, StopsTold'
    PROVE  Inspected'
  <1> DEFINE x == cmd.stop
  <1>0. /\ SessionTypeOK /\ StopsTold /\ OneRequest /\ ExitLast /\ told \in Seq(StopIds) /\ Len(told) \in Nat
        /\ x # VmExit
    <2>1. /\ SessionTypeOK /\ StopsTold /\ OneRequest /\ ExitLast /\ told \in Seq(StopIds)
      BY DEF Grounds, SessionInv, SessionTypeOK, PlainInv
    <2>2. Len(told) \in Nat
      BY <2>1, LenProperties
    <2> QED BY <2>1, <2>2, NoExitAbout
  <1>1. /\ cmd.pc = "finalize" /\ cmd' = CmdIdle /\ x \in StopIds
        /\ deliveredStop' = x /\ lastEvent' = x /\ state' = "Suspended"
        /\ UNCHANGED <<current, raised, stops, loop, rpc>>
    BY <1>0 DEF CmdTellsStop, FinalizeDeliveredStop, StopEvents, Finishes, At, sidecarVars, queueVars
  <1>2. x = Len(told) + 1 /\ told' = Append(told, x)
    BY <1>0, <1>1, TellsNext
  <1>3. Len(told') = Len(told) + 1
    BY <1>0, <1>1, <1>2, AppendProperties
  <1>4. current = x
    <2>1. InHand(x)
      BY <1>1 DEF InHand
    <2>2. rpc.pc # "examine"
      BY <1>0, <1>1 DEF OneRequest
    <2> QED BY <1>1, <2>1, <2>2 DEF Inspected
  <1>5. \A s \in StopIds : ~ InHand(s)'
    <2>1. \A s \in StopIds : InHand(s)' => InHand(s)
      BY <1>0, <1>1, <1>3, HandKept
    <2>2. \A s \in StopIds : InHand(s)' => s = Len(told) + 1 /\ s = Len(told) + 2
      BY <1>0, <1>3, <2>1 DEF StopsTold
    <2> QED BY <1>0, <2>2
  <1>6. ~ Asked'
    BY <1>1 DEF Asked, Continuing, CmdIdle
  <1> HIDE DEF x
  <1> QED BY <1>1, <1>2, <1>3, <1>4, <1>5, <1>6 DEF Inspected

\* The daemon's threads.
LEMMA InspectedDaemon ==
    ASSUME Plain, Grounds, PlainInv, TargetStays, Inspected, StopsTold',
           \/ ReaderQueuesEvent \/ ReaderSinksEvent \/ ReaderDeliversResponse
           \/ RegisterSink \/ PollerNext
           \/ \E name \in Commands : CmdIssue(name)
           \/ CmdApplies \/ CmdApplied \/ CmdRequests \/ CmdTakesPending \/ CmdNoPending \/ CmdArms
           \/ CmdSessionDead \/ CmdGetsReply \/ CmdGraceWait \/ CmdReportsTimeout \/ CmdAcked
           \/ CmdTellsStop \/ CmdSuspended
    PROVE  Inspected'
  <1>0. /\ SessionTypeOK /\ cmd \in CmdStates /\ StopsTold /\ OneRequest /\ PlainSession /\ ExitLast
        /\ alive /\ DeadIsDead /\ "poller" \in Workers /\ "command" \in Workers
        /\ events \in Seq(SidecarEvents) /\ batch \in [Workers -> Seq(SidecarEvents)]
        /\ sunk \in SidecarEvents \cup {NoEvent}
    BY DEF Grounds, SessionInv, SessionTypeOK, PlainInv, PlainSession, Workers
  <1>1. UNCHANGED <<raised, stops, loop, rpc, current>>
    BY DaemonLeaves DEF ReaderNext, CmdNext, ClientNext
  <1>2. ASSUME told' = told, deliveredStop' \in {deliveredStop, NoEvent},
               deliveredStop' # NoEvent => UNCHANGED <<lastEvent, state>>,
               Asked' => Asked \/ deliveredStop' = NoEvent,
               cmd.pc \in {"acking", "finalize"} => cmd'.pc \in {"acking", "finalize"}
        PROVE  Inspected'
    BY <1>0, <1>1, <1>2, InspectedKept
  <1>3. ASSUME UNCHANGED inboxVars, told' = told,
               \/ cmd'.pc = cmd.pc /\ cmd'.name = cmd.name
               \/ Asked \/ ~ Asked',
               cmd.pc \in {"acking", "finalize"} => cmd'.pc = cmd.pc
        PROVE  Inspected'
    <2>1. deliveredStop' = deliveredStop /\ UNCHANGED <<lastEvent, state>>
      BY <1>3 DEF inboxVars
    <2>2. Asked' => Asked
      BY <1>3 DEF Asked, Continuing
    <2>3. cmd.pc \in {"acking", "finalize"} => cmd'.pc \in {"acking", "finalize"}
      BY <1>3
    <2> QED BY <1>2, <1>3, <2>1, <2>2, <2>3
  <1>4. CASE ReaderQueuesEvent \/ ReaderDeliversResponse \/ RegisterSink \/ PollerDrains
    <2>1. UNCHANGED inboxVars /\ told' = told
      BY <1>4 DEF ReaderQueuesEvent, ReaderDeliversResponse, RegisterSink, PollerDrains, Untouched
    <2>2. cmd' = cmd \/ cmd' = [cmd EXCEPT !.reply = Head(toDaemon).result, !.id = 0]
      BY <1>4 DEF ReaderQueuesEvent, ReaderDeliversResponse, RegisterSink, PollerDrains
    <2>3. cmd'.pc = cmd.pc /\ cmd'.name = cmd.name
      BY <1>0, <2>2 DEF CmdStates
    <2> QED BY <1>3, <2>1, <2>3
  <1>5. ASSUME NEW e \in SidecarEvents, e # VmExit, ApplySidecarEvent(e), told' = told, cmd' = cmd
        PROVE  Inspected'
    <2>1. Asked' => Asked
      BY <1>5 DEF Asked, Continuing
    <2> QED BY <1>2, <1>5, <2>1, AppliedShows
  <1>6. CASE ReaderSinksEvent
    <2>1. told' = told /\ cmd' = cmd
      BY <1>6 DEF ReaderSinksEvent
    <2>2. CASE sinkOn
      <3>1. sunk # NoEvent /\ ApplySidecarEvent(sunk) /\ sunk # VmExit
        BY <1>0, <1>6, <2>2, NoExitAbout DEF ReaderSinksEvent
      <3> QED BY <1>0, <1>5, <2>1, <3>1
    <2>3. CASE ~ sinkOn
      BY <1>3, <1>6, <2>1, <2>3 DEF ReaderSinksEvent, Untouched
    <2> QED BY <2>2, <2>3
  <1>7. CASE PollerApplies \/ CmdApplies
    <2>1. told' = told /\ cmd' = cmd
      BY <1>7 DEF PollerApplies, CmdApplies
    <2>2. PICK w \in Workers : AppliesOne(w)
      BY <1>0, <1>7 DEF PollerApplies, CmdApplies
    <2>3. batch[w] # <<>> /\ ApplySidecarEvent(Head(batch[w])) /\ batch[w] \in Seq(SidecarEvents)
      BY <1>0, <2>2 DEF AppliesOne
    <2>4. Head(batch[w]) \in ToSet(batch[w]) /\ Head(batch[w]) \in SidecarEvents
      BY <2>3, Tailed
    <2>5. Head(batch[w]) # VmExit
      BY <1>0, <2>4, NoExitAbout
    <2> QED BY <1>5, <2>1, <2>3, <2>4, <2>5
  <1>8. CASE PollerDone \/ CmdApplied
    <2>1. UNCHANGED inboxVars /\ told' = told
      BY <1>0, <1>8 DEF PollerDone, CmdApplied, AppliedAll, DeadIsDead, Untouched
    <2>2. CASE PollerDone
      <3>1. cmd' = cmd
        BY <2>2 DEF PollerDone
      <3> QED BY <1>3, <2>1, <3>1
    <2>3. CASE CmdApplied
      <3>1. cmd.pc \in {"apply", "graceApply"} /\ cmd'.pc = (IF At("apply") THEN "applied" ELSE "graceApplied")
        BY <1>0, <2>3 DEF CmdApplied, Goto, CmdStates
      <3>2. Asked \/ ~ Asked'
        BY <3>1 DEF Asked, Continuing, At
      <3> QED BY <1>3, <2>1, <3>1, <3>2
    <2> QED BY <1>8, <2>2, <2>3
  <1>9. CASE \E name \in Commands : CmdIssue(name)
    <2>1. UNCHANGED inboxVars /\ told' = told /\ cmd.pc = "idle" /\ cmd'.pc \in {"apply", "applied"}
      BY <1>9 DEF CmdIssue, Untouched, At, CmdIdle
    <2>2. ~ Asked'
      BY <2>1 DEF Asked, Continuing
    <2> QED BY <1>3, <2>1, <2>2
  <1>10. CASE CmdNoPending \/ CmdGraceWait
    <2>1. UNCHANGED inboxVars /\ told' = told /\ cmd.pc \in {"applied", "graceApplied", "grace"}
      BY <1>10 DEF CmdNoPending, CmdGraceWait, Untouched, At
    <2>2. Asked \/ ~ Asked'
      <3>1. cmd.pc = "applied" => cmd'.pc = "arm"
        BY <1>0, <1>10 DEF CmdNoPending, CmdGraceWait, Goto, At, CmdStates
      <3> QED BY <2>1, <3>1 DEF Asked, Continuing
    <2> QED BY <1>3, <2>1, <2>2
  <1>11. CASE CmdRequests
    <2>1. UNCHANGED inboxVars /\ told' = told /\ cmd.pc = "applied" /\ cmd.name = "suspend"
      BY <1>0, <1>11 DEF CmdRequests, Untouched, At, PlainSession, PlainNames
    <2>2. cmd'.pc = "await" /\ cmd'.name = cmd.name
      <3>1. cmd' = [cmd EXCEPT !.pc = "await", !.id = requestId + 1, !.reply = NoReply, !.stop = NoEvent]
        BY <1>0, <1>11, Zenon DEF CmdRequests, Sends
      <3> QED BY <1>0, <3>1 DEF CmdStates
    <2>3. ~ Asked'
      BY <2>1, <2>2 DEF Asked, Continuing
    <2> QED BY <1>3, <2>1, <2>3
  <1>12. CASE CmdTakesPending
    <2>1. /\ told' = told /\ UNCHANGED <<deliveredStop, lastEvent, state>>
          /\ cmd.pc \in {"applied", "graceApplied"}
      BY <1>12 DEF CmdTakesPending, PopPending, At
    <2>2. cmd'.pc = "acking"
      <3>1. cmd' = [cmd EXCEPT !.pc = "acking", !.id = requestId + 1, !.reply = NoReply, !.stop = Head(pendingStops)]
        BY <1>0, <1>12, Zenon DEF CmdTakesPending, Sends
      <3> QED BY <1>0, <3>1 DEF CmdStates
    <2>3. ~ Asked'
      BY <2>2 DEF Asked, Continuing
    <2> QED BY <1>2, <2>1, <2>2, <2>3
  <1>13. CASE CmdArms
    <2>1. told' = told /\ deliveredStop' = NoEvent /\ cmd.pc = "arm"
      BY <1>13 DEF CmdArms, Arm, At
    <2> QED BY <1>2, <2>1
  <1>14. CASE CmdSessionDead \/ CmdReportsTimeout \/ CmdSuspended
    <2>1. /\ told' = told /\ deliveredStop' = deliveredStop /\ cmd' = CmdIdle
          /\ cmd.pc \in {"arm", "timeout", "suspended"}
      BY <1>14
      DEF CmdSessionDead, CmdReportsTimeout, CmdSuspended, SetRunning, SetSuspended, Untouched, inboxVars,
          Finishes, At
    <2>2. deliveredStop # NoEvent => UNCHANGED <<lastEvent, state>>
      <3>1. CASE CmdSessionDead
        BY <3>1 DEF CmdSessionDead, Untouched, inboxVars
      <3>2. CASE CmdReportsTimeout
        BY <3>2 DEF CmdReportsTimeout, At, Asked, Inspected
      <3>3. CASE CmdSuspended
        BY <3>3 DEF CmdSuspended, SetSuspended, Inspected
      <3> QED BY <1>14, <3>1, <3>2, <3>3
    <2>3. ~ Asked'
      BY <2>1 DEF Asked, Continuing, CmdIdle
    <2> QED BY <1>2, <2>1, <2>2, <2>3
  <1>15. CASE CmdGetsReply
    <2>1. UNCHANGED inboxVars /\ told' = told /\ cmd.pc = "await"
      BY <1>15 DEF CmdGetsReply, Untouched, At
    <2>2. cmd'.pc = AfterReply(cmd.name, cmd.reply.kind)
      BY <1>0, <1>15, GetsReplyMoves
    <2>3. Asked \/ ~ Asked'
      <3>1. cmd.name \in {"run", "continue"} => Asked
        BY <2>1 DEF Asked, Continuing
      <3>2. cmd.name \notin {"run", "continue"} => cmd'.pc \in {"suspended", "idle"}
        BY <1>0, <2>2 DEF AfterReply, PlainSession, PlainNames
      <3> QED BY <3>1, <3>2 DEF Asked, Continuing
    <2> QED BY <1>3, <2>1, <2>3
  <1>16. CASE CmdAcked
    <2>1. UNCHANGED inboxVars /\ told' = told
      BY <1>16 DEF CmdAcked, Untouched
    <2>2. cmd'.pc = "finalize"
      BY <1>0, <1>16 DEF CmdAcked, CmdStates
    <2>3. ~ Asked'
      BY <2>2 DEF Asked, Continuing
    <2>4. deliveredStop' = deliveredStop /\ UNCHANGED <<lastEvent, state>>
      BY <2>1 DEF inboxVars
    <2> QED BY <1>2, <2>1, <2>2, <2>3, <2>4
  <1>17. CASE CmdTellsStop
    BY <1>17, InspectedTells
  <1> QED BY <1>4, <1>6, <1>7, <1>8, <1>9, <1>10, <1>11, <1>12, <1>13, <1>14, <1>15, <1>16, <1>17
          DEF PollerNext

\* In a plain session of a target that does not exit, when no command is under way
\* the stop told last is the one the sidecar has selected: where, locals and print
\* answer about the stop the user was told of, although the selection is made by
\* the sidecar and the telling by the daemon, from whichever copy came first.
THEOREM ToldIsInspectedHolds == Plain /\ ~ TargetMayExit => (JdiSafety => []ToldIsInspected)
  <1> SUFFICES ASSUME Plain, ~ TargetMayExit PROVE JdiSafety => []ToldIsInspected
    OBVIOUS
  <1> DEFINE I == TargetStays /\ StartFirst /\ Inspected
  <1>1. JdiSafety => [](Grounds /\ PlainInv)
    BY PlainInvHolds
  <1>2. JdiInit => I
    <2> SUFFICES ASSUME JdiInit PROVE I
      OBVIOUS
    <2>1. /\ cmd = CmdIdle /\ deliveredStop = NoEvent
      BY DEF JdiInit, InboxInit
    <2>2. /\ raised = <<>> /\ loop = LoopIdle /\ rpc = RpcIdle /\ toSidecar = <<>> /\ toDaemon = <<>> /\ vmUp
          /\ vmEvents = <<>> \/ vmEvents = <<[kind |-> "vmStart"]>>
      BY DEF JdiInit, SidecarInit
    <2>3. DOMAIN <<>> = {} /\ ToSet(<<>>) = {}
      BY EmptySeq DEF ToSet
    <2>4. TargetStays /\ StartFirst
      BY <2>2, <2>3, EventsDistinct DEF TargetStays, StartFirst, LoopIdle, LoopDone
    <2>5. \A s \in StopIds : ~ InHand(s)
      BY <2>1, <2>2, <2>3, NoReplyFits, EventsDistinct DEF InHand, CmdIdle, RpcIdle, Responses
    <2>6. ~ Asked
      BY <2>1 DEF Asked, Continuing, CmdIdle
    <2> QED BY <2>1, <2>4, <2>5, <2>6 DEF Inspected
  <1>3. Grounds /\ PlainInv /\ PlainInv' /\ I /\ [JdiNext]_jdiVars => I'
    <2> SUFFICES ASSUME Grounds, PlainInv, PlainInv', I, [JdiNext]_jdiVars PROVE I'
      OBVIOUS
    <2>1. TargetStays' /\ StartFirst'
      BY TargetStaysStep, StartFirstStep DEF PlainInv
    <2>2. StopsTold' /\ StopsTold /\ SessionTypeOK /\ PlainSession
      BY DEF PlainInv, Grounds, SessionInv
    <2>3. CASE UNCHANGED jdiVars
      <3>1. UNCHANGED <<state, lastEvent, deliveredStop, raised, stops, loop, told, current, rpc, cmd>>
        BY <2>3, NothingMoves
      <3>2. Asked' <=> Asked
        BY <3>1 DEF Asked, Continuing
      <3> QED BY <2>1, <2>2, <3>1, <3>2, InspectedKept
    <2>4. CASE SidecarActs
      <3>1. CASE TargetNext
        <4>1. UNCHANGED <<state, lastEvent, deliveredStop, raised, stops, loop, told, current, rpc, cmd>>
          BY <2>4, <3>1, SidecarLeaves
        <4>2. Asked' <=> Asked
          BY <4>1 DEF Asked, Continuing
        <4> QED BY <2>1, <2>2, <4>1, <4>2, InspectedKept
      <3> QED BY <2>1, <2>2, <2>4, <3>1, InspectedLoop, InspectedRpc DEF SidecarActs
    <2>5. CASE JdiNext /\ ~ SidecarActs
      <3>1. \/ ReaderQueuesEvent \/ ReaderSinksEvent \/ ReaderDeliversResponse
            \/ RegisterSink \/ PollerNext
            \/ \E name \in Commands : CmdIssue(name)
            \/ CmdApplies \/ CmdApplied \/ CmdRequests \/ CmdTakesPending \/ CmdNoPending \/ CmdArms
            \/ CmdSessionDead \/ CmdGetsReply \/ CmdGraceWait \/ CmdReportsTimeout \/ CmdAcked
            \/ CmdTellsStop \/ CmdSuspended
        BY <2>2, <2>5, PlainSteps, Zenon
      <3> QED BY <2>1, <2>2, <3>1, InspectedDaemon
    <2> QED BY <2>3, <2>4, <2>5
  <1>4. I => ToldIsInspected
    BY EventsDistinct DEF Inspected, ToldIsInspected, Quiet, At
  <1> HIDE DEF I, Grounds, PlainInv
  <1> QED BY <1>1, <1>2, <1>3, <1>4, PTL DEF JdiSafety
=============================================================================
