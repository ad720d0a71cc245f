----------------------------- MODULE JobSession -----------------------------
(***************************************************************************)
(* The chat session of a job worker (processJob of src/job-agent.js): the  *)
(* answer to the hire with its retries, the messages of the buyer that     *)
(* come over the socket and over the poll, the idle check that delivers or *)
(* pauses, and the end of the session.                                     *)
(*                                                                         *)
(* The worker is one thread, but the idle check, the poll, the socket, the *)
(* hire retry and the queue of messages all run while another one waits    *)
(* for the platform or the model.  Durations are left out: a timer may run *)
(* out whenever it is armed.                                               *)
(***************************************************************************)
EXTENDS Naturals, Sequences, FiniteSets

CONSTANTS
    Msgs,          \* what the buyer writes
    Pushed,        \* the ones the socket brings; the others only the poll finds
    InlineTries,   \* tries of the hire answer before the session opens
    BackoffTries,  \* and after it
    MaxFaults      \* bound: lost answers and messages, unread statuses, outages

ASSUME SessionAssumption ==
    /\ Pushed \subseteq Msgs
    /\ {InlineTries, BackoffTries, MaxFaults} \subseteq Nat

VARIABLES
    status,    \* the job as the platform has it
    pc,        \* where the worker's main is
    msg,       \* a message: "none"; "posted"; posted before the session and
               \* "late" or "missed" for the poll's window; "queued"; "done"
    queue,     \* messageQueue
    hire,      \* the answer to the hire: tries made, an outage held, answered,
               \* a retry under way, retries left
    paused,    \* _paused
    skip,      \* _skipDelivery
    over,      \* the promise of the session is resolved
    tick,      \* the idle check: "rest", or the call it waits for
    checked,   \* _acceptedQuietChecked, _idlePauseUnsupported
    faults

chat == <<msg, queue>>
close == <<paused, skip, over, checked>>
sessionVars == <<status, pc, msg, queue, hire, paused, skip, over, tick, checked, faults>>

NoMsgs == [m \in Msgs |-> "none"]
NoHire == [tries |-> 0, hold |-> FALSE, answered |-> FALSE, busy |-> FALSE, left |-> 0]
Unchecked == [quiet |-> FALSE, noPause |-> FALSE]

Live == {"accepted", "in_progress"}
POST_DELIVERY_STATUSES == {"delivered", "disputed", "rework", "resolved"}

EndSession == over' = TRUE

Fault == faults < MaxFaults /\ faults' = faults + 1

SessionInit ==
    /\ status \in {"requested"} \cup Live
    /\ pc = "off" /\ msg = NoMsgs /\ queue = <<>> /\ hire = NoHire
    /\ paused = FALSE /\ skip = FALSE /\ over = FALSE /\ tick = "rest"
    /\ checked = Unchecked /\ faults = 0

\* A session that is over, or whose process is gone, leaves nothing that main
\* looks at again.
NoSession ==
    /\ msg' = NoMsgs /\ queue' = <<>> /\ hire' = NoHire
    /\ paused' = FALSE /\ skip' = FALSE /\ over' = FALSE /\ checked' = Unchecked

-----------------------------------------------------------------------------
(* The hire answer. *)

\* The session starts without it when a delivery is stored or the chat, if it
\* can be read, shows work of this seller.
skipsFirstWork(first, delivered, shown) == first = "in_progress" /\ (delivered \/ shown)

\* The socket's handler is set and the poll starts when the inline tries are
\* through.  What was posted before is returned only if its window reaches it.
OpenSession(h) ==
    /\ pc' = "session"
    /\ hire' = h
    /\ msg' \in {[m \in Msgs |-> IF msg[m] # "posted" THEN msg[m]
                                  ELSE IF m \in M THEN "late" ELSE "missed"] : M \in SUBSET Msgs}
    /\ UNCHANGED <<status, queue, close, tick>>

HireIsAnswered ==
    /\ pc = "hire"
    /\ OpenSession([hire EXCEPT !.answered = TRUE])
    /\ UNCHANGED faults

\* A call that throws, an empty reply and an empty description open the session
\* too; none of them is an outage.
HireHasNoAnswer ==
    /\ pc = "hire"
    /\ OpenSession(hire)
    /\ UNCHANGED faults

HireMeetsOutage ==
    /\ pc = "hire"
    /\ Fault
    /\ LET n == hire.tries + 1 IN
       IF n < InlineTries
       THEN hire' = [hire EXCEPT !.tries = n] /\ UNCHANGED <<status, pc, chat, close, tick>>
       ELSE OpenSession([hire EXCEPT !.tries = n, !.hold = TRUE, !.left = BackoffTries])

HireIsSkipped(first, delivered) ==
    /\ pc = "hire" /\ hire.tries = 0
    /\ \E shown \in BOOLEAN : skipsFirstWork(first, delivered, shown)
    /\ OpenSession(hire)
    /\ UNCHANGED faults

\* Sixty seconds apart while the hold lasts.
RetryHire ==
    /\ pc = "session" /\ ~over
    /\ hire.hold /\ ~hire.answered /\ ~hire.busy /\ hire.left > 0 /\ ~paused
    /\ hire' = [hire EXCEPT !.busy = TRUE, !.left = @ - 1]
    /\ UNCHANGED <<status, pc, chat, close, tick, faults>>

RetryEnds ==
    /\ pc = "session" /\ hire.busy
    /\ \/ /\ hire' = [hire EXCEPT !.busy = FALSE, !.hold = FALSE, !.answered = TRUE]
          /\ UNCHANGED faults
       \/ hire' = [hire EXCEPT !.busy = FALSE] /\ Fault
    /\ UNCHANGED <<status, pc, chat, close, tick>>

-----------------------------------------------------------------------------
(* Messages of the buyer. *)

\* processBuyerMessage: a message seen before is dropped; a new one wakes a
\* paused worker and waits for its turn.
Take(m) ==
    /\ msg' = [msg EXCEPT ![m] = "queued"]
    /\ queue' = Append(queue, m)
    /\ paused' = FALSE
    /\ UNCHANGED <<status, pc, hire, skip, over, tick, checked, faults>>

SocketBrings(m) ==
    /\ pc = "session"
    /\ msg[m] = "posted" /\ m \in Pushed
    /\ Take(m)

\* A mutant of PollFinds: the window begins with the session.
PollFindsNew(m) ==
    /\ pc = "session" /\ ~over /\ ~paused
    /\ msg[m] = "posted"
    /\ Take(m)

PollFinds(m) ==
    /\ pc = "session" /\ ~over /\ ~paused
    /\ msg[m] \in {"posted", "late"}
    /\ Take(m)

\* The model's answer to the head of the queue.  An outage posts nothing, an
\* error posts an apology; both leave the hire as it is.  A budget used up
\* ends the session.
Answer ==
    /\ pc = "session" /\ queue # <<>>
    /\ queue' = Tail(queue)
    /\ msg' = [msg EXCEPT ![Head(queue)] = "done"]
    /\ \/ /\ hire' = [hire EXCEPT !.answered = TRUE, !.hold = FALSE]
       \/ UNCHANGED hire
    /\ EndSession \/ UNCHANGED over
    /\ UNCHANGED <<status, pc, paused, skip, tick, checked, faults>>

-----------------------------------------------------------------------------
(* The idle check. *)

holdOpenForModelOutage == hire.hold /\ ~hire.answered
Ticks ==
    /\ pc = "session" /\ ~over /\ tick = "rest"
    /\ ~hire.busy /\ ~holdOpenForModelOutage
    /\ ~checked.noPause /\ ~paused
NotTheClose == <<pc, chat, hire>>

\* Ninety quiet seconds after an answer, once in a session.
quietDeliverReady ==
    /\ Ticks
    /\ ~checked.quiet /\ (hire.answered \/ \E m \in Msgs : msg[m] \in {"queued", "done"})
    /\ checked' = [checked EXCEPT !.quiet = TRUE]
    /\ tick' = "quiet"
    /\ UNCHANGED <<NotTheClose, status, paused, skip, over, faults>>

QuietIsRead ==
    /\ tick = "quiet"
    /\ tick' = "rest"
    /\ IF status \in Live
       THEN checked' = [checked EXCEPT !.noPause = TRUE] /\ EndSession
       ELSE UNCHANGED <<checked, over>>
    /\ UNCHANGED <<NotTheClose, status, paused, skip, faults>>

QuietIsNotRead ==
    /\ tick = "quiet"
    /\ tick' = "rest"
    /\ UNCHANGED <<NotTheClose, status, paused, skip, over, checked, faults>>

IdleTooLong ==
    /\ Ticks
    /\ tick' = "pausing"
    /\ UNCHANGED <<NotTheClose, status, paused, skip, over, checked, faults>>

\* pauseJob.  The request is carried out though its answer may be lost.
PauseAnswered ==
    /\ tick = "pausing"
    /\ IF status = "in_progress"
       THEN /\ status' = "paused"
            /\ tick' = "rest"
            /\ \/ paused' = (pc = "session") /\ UNCHANGED faults
               \/ Fault /\ UNCHANGED paused
       ELSE /\ tick' = IF pc = "session" THEN "refused" ELSE "rest"
            /\ UNCHANGED <<status, paused, faults>>
    /\ UNCHANGED <<NotTheClose, skip, over, checked>>

\* A refusal may mean that the job is paused, is not in progress yet, or is
\* over; a status that cannot be read is taken for the last.
RefusalIsRead ==
    /\ tick = "refused"
    /\ tick' = "rest"
    /\ \/ /\ status = "paused"
          /\ paused' = TRUE
          /\ UNCHANGED <<skip, over, checked, faults>>
       \/ /\ status \in Live
          /\ checked' = [checked EXCEPT !.noPause = TRUE]
          /\ EndSession
          /\ UNCHANGED <<paused, skip, faults>>
       \/ /\ \/ status \notin Live \cup {"paused"} /\ UNCHANGED faults
             \/ Fault
          /\ paused' = TRUE /\ skip' = TRUE
          /\ EndSession
          /\ UNCHANGED checked
    /\ UNCHANGED <<NotTheClose, status>>

-----------------------------------------------------------------------------
(* The ends of a session. *)

\* The buyer, the platform, the dispatcher (end_session_request, ttl_expired)
\* or the budget watchdog ends it.
EndAsked ==
    /\ pc \in {"hire", "session"} /\ ~over
    /\ EndSession
    /\ UNCHANGED <<NotTheClose, status, paused, skip, tick, checked, faults>>

\* main goes on when the session's promise is resolved.  Timers are cleared; a
\* call under way and the queue of messages are not waited for: what they do
\* later main does not see, but a pause asked for may still be granted.
SessionEnds ==
    /\ pc = "session" /\ over
    /\ pc' = IF skip THEN "leave" ELSE "publish"
    /\ NoSession
    /\ tick' = IF tick = "pausing" THEN tick ELSE "rest"
    /\ UNCHANGED <<status, faults>>

\* An exception is delivered as the result.
SessionThrows ==
    /\ pc = "hire"
    /\ pc' = "publish"
    /\ NoSession
    /\ UNCHANGED <<status, tick, faults>>

-----------------------------------------------------------------------------
(* The buyer and the dispatcher during a session. *)

Post(m) ==
    /\ pc \in {"hire", "session"} /\ status \in Live \cup {"paused"}
    /\ msg[m] = "none"
    /\ msg' = [msg EXCEPT ![m] = "posted"]
    /\ UNCHANGED <<status, pc, queue, hire, close, tick, faults>>

\* The buyer resumes a paused job.
Resume ==
    /\ status = "paused"
    /\ status' = "in_progress"
    /\ UNCHANGED <<pc, chat, hire, close, tick, faults>>

\* The dispatcher saw it and sends 'reconnect'.
Reconnect ==
    /\ pc = "session" /\ status # "paused" /\ paused
    /\ paused' = FALSE
    /\ UNCHANGED <<NotTheClose, status, skip, over, tick, checked, faults>>

SessionStep ==
    \/ HireIsAnswered \/ HireHasNoAnswer \/ HireMeetsOutage \/ RetryHire \/ RetryEnds
    \/ \E m \in Msgs : Post(m) \/ SocketBrings(m) \/ PollFinds(m)
    \/ Answer
    \/ quietDeliverReady \/ QuietIsRead \/ QuietIsNotRead
    \/ IdleTooLong \/ PauseAnswered \/ RefusalIsRead
    \/ EndAsked \/ SessionEnds \/ SessionThrows
    \/ Resume \/ Reconnect
=============================================================================
