---------------------------- MODULE LedgerClient ----------------------------
(***************************************************************************)
(* The TypeScript side of `ledger serve` (packages/ledger-client/src): a   *)
(* tape emitter over a child process.  Calls put lines through a write     *)
(* queue with a high watermark into the child's stdin; the child answers   *)
(* on stderr; timers bound every wait.  A write runs as a microtask of its *)
(* own, so a caller, an answer, a drain, a timer or the child's end may    *)
(* fall between any two of them.                                           *)
(***************************************************************************)
EXTENDS Naturals, Sequences, FiniteSets

CONSTANTS
    Ops,            \* the calls made: a subset of emit, control, flush, close
    HighWatermark,  \* CreateTapeEmitterOptions.queueHighWatermark
    PipeCapacity,   \* lines in the pipe at which pipe.write returns false
    MaxCalls        \* bound: calls of the emitter

VARIABLES
    phase,   \* of performHandshake: "handshaking", "open" or "refused"
    calls,   \* per call: its op, its write, its resolver and what the caller sees
    ready,   \* writes whose microtask is queued, first in first out
    pipe,    \* lines handed to the pipe and not yet read
    broken,  \* the pipe has emitted its error
    child,   \* "running", "exit0" or "exit1"
    ledger,  \* the emits the child has appended, in order
    stderr,  \* answers of the child not yet read
    exited,  \* childExit has been observed
    closer,  \* the close that closeResolve and closeReject belong to, or 0
    failed,  \* markFailed has run
    reports  \* calls of the onFailure callbacks

clientVars == <<phase, calls, ready, pipe, broken, child, ledger, stderr, exited,
                closer, failed, reports>>
native == <<child, ledger>>
outcome == <<failed, reports>>

Calls == 1 .. Len(calls)
Waits(op) == op \in {"flush", "control", "close"}

ClientInit ==
    /\ phase = "handshaking" /\ calls = <<>> /\ ready = <<>> /\ pipe = <<>>
    /\ broken = FALSE /\ child = "running" /\ ledger = <<>> /\ stderr = <<>>
    /\ exited = FALSE /\ closer = 0 /\ failed = FALSE /\ reports = 0

-----------------------------------------------------------------------------
(* performHandshake: the first of an ack, a rejection, a closed stream and  *)
(* the timeout settles it and takes the others' listeners away              *)

Handshake(ack) ==
    /\ phase = "handshaking"
    /\ phase' = IF ack THEN "open" ELSE "refused"
    /\ UNCHANGED <<calls, ready, pipe, broken, native, stderr, exited, closer, outcome>>

-----------------------------------------------------------------------------
(* markFailed: the first failure wins, tells the callbacks and rejects every *)
(* pending flush, control and close                                          *)

Pending(i) == calls[i].seen = "pending"

Rejects(cs) ==
    [i \in 1 .. Len(cs) |->
        IF cs[i].op = "control" /\ cs[i].seen = "pending"
        THEN [cs[i] EXCEPT !.seen = "rejected"]
        ELSE IF /\ cs[i].seen = "pending" /\ cs[i].answer = "none"
                /\ cs[i].op = "flush" \/ i = closer
             THEN [cs[i] EXCEPT !.answer = "error"]
        ELSE cs[i]]

\* The session fails, and the calls are left as cs with the pending ones rejected.
markFailed(cs) ==
    /\ calls' = IF failed THEN cs ELSE Rejects(cs)
    /\ failed' = TRUE
    /\ reports' = IF failed THEN reports ELSE reports + 1

-----------------------------------------------------------------------------
(* WriteQueue *)

InFlight == Cardinality({i \in Calls : calls[i].write \in {"waiting", "ready", "draining"}})

ShouldBlock_at_mark == InFlight = HighWatermark
ShouldBlock == InFlight >= HighWatermark

\* write(chunk): a write below the watermark is a microtask at once; one above
\* it waits for the write before it, whatever that one waits for.
Enqueue(op) ==
    LET i == Len(calls) + 1
        blocked == ShouldBlock /\ i > 1 /\ calls[i - 1].write # "done"
                      /\ calls[i - 1].write # "failed"
    IN /\ calls' = Append(calls, [op |-> op, answer |-> "none",
                                  seen |-> IF Waits(op) THEN "pending" ELSE "none",
                                  write |-> IF blocked THEN "waiting" ELSE "ready"])
       /\ ready' = IF blocked THEN ready ELSE Append(ready, i)

\* When writes end, the write that waited for the last of them becomes ready.
Ended(done, how) ==
    [i \in Calls |->
        IF i \in done THEN [calls[i] EXCEPT !.write = how]
        ELSE IF calls[i].write = "waiting" /\ i - 1 \in done
             THEN [calls[i] EXCEPT !.write = "ready"]
        ELSE calls[i]]
Woken(done) == {i \in Calls : calls[i].write = "waiting" /\ i - 1 \in done}

Ascending(S) == SelectSeq([i \in Calls |-> i], LAMBDA i : i \in S)

\* The microtask: the line goes into the pipe, and the write is over unless
\* the pipe says it is full.
RunWrite ==
    /\ ready # <<>>
    /\ LET i == Head(ready)
           full == broken \/ Len(pipe) + 1 >= PipeCapacity
       IN /\ pipe' = IF broken THEN pipe ELSE Append(pipe, i)
          /\ IF full
             THEN /\ calls' = [calls EXCEPT ![i].write = "draining"]
                  /\ ready' = Tail(ready)
             ELSE /\ calls' = Ended({i}, "done")
                  /\ ready' = Tail(ready) \o Ascending(Woken({i}))
    /\ UNCHANGED <<phase, broken, native, stderr, exited, closer, outcome>>

Draining == {i \in Calls : calls[i].write = "draining"}

\* The pipe has emptied: one drain ends every write that waits for it.
Drain ==
    /\ pipe = <<>> /\ ~broken /\ Draining # {}
    /\ calls' = Ended(Draining, "done")
    /\ ready' = ready \o Ascending(Woken(Draining))
    /\ UNCHANGED <<phase, pipe, broken, native, stderr, exited, closer, outcome>>

\* The reader is gone: the waiting writes fail; the controls among them are
\* rejected, the flushes and closes reject their callers, and an emit or a
\* control ends the session.
PipeError ==
    /\ child # "running" /\ ~broken /\ pipe # <<>>
    /\ broken' = TRUE /\ pipe' = <<>>
    /\ LET ended == Ended(Draining, "failed")
           told == [i \in Calls |->
                       IF i \in Draining /\ ended[i].seen = "pending"
                       THEN [ended[i] EXCEPT !.seen = "rejected"] ELSE ended[i]]
       IN IF \E i \in Draining : calls[i].op = "emit"
                                    \/ (calls[i].op = "control" /\ Pending(i))
          THEN markFailed(told)
          ELSE calls' = told /\ UNCHANGED outcome
    /\ ready' = ready \o Ascending(Woken(Draining))
    /\ closer' = IF \E i \in Draining : calls[i].op = "close" THEN 0 ELSE closer
    /\ UNCHANGED <<phase, native, stderr, exited>>

-----------------------------------------------------------------------------
(* The calls *)

emit ==
    /\ phase = "open" /\ "emit" \in Ops /\ Len(calls) < MaxCalls /\ ~failed
    /\ Enqueue("emit")
    /\ UNCHANGED <<phase, pipe, broken, native, stderr, exited, closer, outcome>>

requestActivityControl ==
    /\ phase = "open" /\ "control" \in Ops /\ Len(calls) < MaxCalls /\ ~failed
    /\ Enqueue("control")
    /\ UNCHANGED <<phase, pipe, broken, native, stderr, exited, closer, outcome>>

flush ==
    /\ phase = "open" /\ "flush" \in Ops /\ Len(calls) < MaxCalls /\ ~failed
    /\ Enqueue("flush")
    /\ UNCHANGED <<phase, pipe, broken, native, stderr, exited, closer, outcome>>

close ==
    /\ phase = "open" /\ "close" \in Ops /\ Len(calls) < MaxCalls /\ ~failed
    /\ ~\E i \in Calls : calls[i].op = "control" /\ Pending(i)
    /\ Enqueue("close") /\ closer' = Len(calls) + 1
    /\ UNCHANGED <<phase, pipe, broken, native, stderr, exited, outcome>>

\* A flush or close whose line is written and whose resolver is decided goes
\* on: a close to wait for the child's exit, everything else to its caller.
Resume(i) ==
    /\ calls[i].op \in {"flush", "close"} /\ Pending(i)
    /\ calls[i].write = "done" /\ calls[i].answer # "none"
    /\ calls' = [calls EXCEPT ![i].seen =
                    IF calls[i].answer = "error" THEN "rejected"
                    ELSE IF calls[i].op = "close" THEN "exiting" ELSE "resolved"]
    /\ closer' = IF calls[i].op = "close" /\ calls[i].answer = "error" THEN 0 ELSE closer
    /\ UNCHANGED <<phase, ready, pipe, broken, native, stderr, exited, outcome>>

\* The last step of close: the exit code counts only if nothing failed before.
CloseReturns(i) ==
    /\ calls[i].seen = "exiting" /\ exited
    /\ calls' = [calls EXCEPT ![i].seen =
                    IF child = "exit1" /\ ~failed THEN "rejected" ELSE "resolved"]
    /\ closer' = 0
    /\ UNCHANGED <<phase, ready, pipe, broken, native, stderr, exited, outcome>>

-----------------------------------------------------------------------------
(* The deadlines: one per control, one per flush and one per wait of close *)

Deadline_first_wait_only(i) == Pending(i)
Deadline(i) == Pending(i) \/ calls[i].seen = "exiting"

Expire_quietly(i) ==
    /\ calls' = [calls EXCEPT ![i].seen = "rejected"]
    /\ UNCHANGED outcome
Expire(i) == markFailed([calls EXCEPT ![i].seen = "rejected"])

TimeOut(i) ==
    /\ Deadline(i)
    /\ Expire(i)
    /\ closer' = IF calls[i].op = "close" THEN 0 ELSE closer
    /\ UNCHANGED <<phase, ready, pipe, broken, native, stderr, exited>>

-----------------------------------------------------------------------------
(* onStderrData and childExit *)

Unsolicited(i) == ~Pending(i)

\* One answer: an ack resolves what waits for it, an answer nobody waits for
\* and an error line end the session.
OnAnswer(line) ==
    IF line.type = "error" THEN markFailed(calls)
    ELSE IF line.type = "control"
         THEN IF Unsolicited(line.call) THEN markFailed(calls)
              ELSE /\ calls' = [calls EXCEPT ![line.call].seen = "resolved"]
                   /\ UNCHANGED outcome
    ELSE /\ LET i == IF line.type = "close" THEN closer ELSE line.call
            IN calls' = IF i # 0 /\ Pending(i) /\ calls[i].answer = "none"
                        THEN [calls EXCEPT ![i].answer = "ok"] ELSE calls
         /\ UNCHANGED outcome

OnStderrData ==
    /\ stderr # <<>> /\ stderr' = Tail(stderr)
    /\ OnAnswer(Head(stderr))
    /\ UNCHANGED <<phase, ready, pipe, broken, native, exited, closer>>

ObserveExit ==
    /\ child # "running" /\ ~exited /\ exited' = TRUE
    /\ IF child = "exit1" THEN markFailed(calls) ELSE UNCHANGED <<calls, failed, reports>>
    /\ UNCHANGED <<phase, ready, pipe, broken, native, stderr, closer>>

-----------------------------------------------------------------------------
(* The child: ledger serve reads its lines in order.  accepts is FALSE for a *)
(* line it refuses: it writes an error line and ends.                        *)

ChildReads(accepts) ==
    /\ child = "running" /\ phase = "open" /\ pipe # <<>> /\ pipe' = Tail(pipe)
    /\ LET i == Head(pipe)
           op == calls[i].op
       IN IF ~accepts
          THEN /\ stderr' = Append(stderr, [type |-> "error", call |-> i])
               /\ child' = "exit1" /\ UNCHANGED ledger
          ELSE /\ ledger' = IF op = "emit" THEN Append(ledger, i) ELSE ledger
               /\ stderr' = IF op = "emit" THEN stderr
                            ELSE Append(stderr, [type |-> op, call |-> i])
               /\ child' = IF op = "close" THEN "exit0" ELSE child
    /\ UNCHANGED <<phase, calls, ready, broken, exited, closer, outcome>>

ChildCrashes ==
    /\ child = "running" /\ phase = "open" /\ child' = "exit1"
    /\ UNCHANGED <<phase, calls, ready, pipe, broken, ledger, stderr, exited, closer, outcome>>

ClientNext ==
    \/ \E ack \in BOOLEAN : Handshake(ack)
    \/ emit \/ requestActivityControl \/ flush \/ close
    \/ RunWrite \/ Drain \/ PipeError
    \/ \E i \in Calls : Resume(i) \/ CloseReturns(i) \/ TimeOut(i)
    \/ OnStderrData \/ ObserveExit
    \/ \E accepts \in BOOLEAN : ChildReads(accepts)
    \/ ChildCrashes

ClientSpec == ClientInit /\ [][ClientNext]_clientVars

\* The event loop runs its timers and its microtasks; nothing is assumed of
\* the child, the pipe or the callers.
FairSpec ==
    /\ ClientSpec
    /\ \A i \in 1 .. MaxCalls :
           WF_clientVars(i \in Calls /\ (TimeOut(i) \/ Resume(i) \/ CloseReturns(i)))

-----------------------------------------------------------------------------
Appended(i) == \E k \in 1 .. Len(ledger) : ledger[k] = i

\* A flush that resolves covers everything emitted before it: the "flush
\* everything written so far" contract of flush() (emitter.ts).
FlushCoversEmits ==
    \A f \in Calls : calls[f].op = "flush" /\ calls[f].seen = "resolved" =>
        \A e \in 1 .. f - 1 : calls[e].op = "emit" => Appended(e)

\* A close that resolves has lost no event emitted before it.
CloseCoversEmits ==
    \A c \in Calls : calls[c].op = "close" /\ calls[c].seen = "resolved" =>
        \A e \in 1 .. c - 1 : calls[e].op = "emit" => Appended(e)

\* A caller never loses an authority answer and carries on: a control that is
\* rejected for a timeout, a write error or a protocol error has ended the
\* session, so no later call of it can reach the ledger (requestActivityControl
\* "Fail closed when an authority reply is unavailable"); the callbacks hear of
\* that once, and nobody goes on waiting for an authority answer.
LostAnswerEndsSession ==
    /\ \A i \in Calls : calls[i].op = "control" =>
          /\ calls[i].seen = "rejected" => failed
          /\ failed => calls[i].seen # "pending"
    /\ reports = IF failed THEN 1 ELSE 0

\* Whatever the child and the pipe do or fail to do, every flush, control and
\* close comes back to its caller.
EveryWaitSettles ==
    \A i \in 1 .. MaxCalls :
        (i \in Calls /\ calls[i].seen \in {"pending", "exiting"})
            ~> (i \in Calls /\ calls[i].seen \in {"resolved", "rejected"})
=============================================================================
