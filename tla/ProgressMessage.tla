---------------------------- MODULE ProgressMessage ---------------------------
(***************************************************************************)
(* The life of a run's progress message, on top of the outbox: the loop    *)
(* ProgressEdits.run that edits it while the agent works (runner_bridge.py)*)
(* and the way handle_message ends it: by a last edit, by a new message    *)
(* that replaces it, or, for a run cancelled without output, by deleting   *)
(* it (send_result_message; TelegramClient.send_message, delete_message).  *)
(*                                                                         *)
(* The edit that renders the n-th event is the operation n.  What Telegram *)
(* has done is kept apart from what the caller is told: a request may be   *)
(* carried out and its answer lost.                                        *)
(***************************************************************************)
EXTENDS Outbox

CONSTANTS
  MaxEvents,   \* bound: the agent's events
  FinalEdit,   \* edit_message_text with the final text
  FinalSend,   \* send_message(replace_message_id=...)
  Removal,     \* delete_message of the progress message
  EditKey      \* ("edit", chat_id, message_id) of the progress message

Events == 1..MaxEvents

ASSUME ProgressAssumption ==
  /\ MaxEvents \in Nat
  /\ Op = Events \cup {FinalEdit, FinalSend, Removal}
  /\ EditKey \in Key
  /\ \A o \in Op : (KeyOf[o] = EditKey) = (o \in Events \cup {FinalEdit})
  /\ Events \cap Waited = {} /\ {FinalEdit, FinalSend, Removal} \subseteq Waited
  /\ FinalEdit # FinalSend /\ Removal \notin {FinalEdit, FinalSend}
  /\ Events \cap {FinalEdit, FinalSend, Removal} = {}

VARIABLES
  event_seq, rendered_seq, signal,  \* of ProgressEdits; the stream holds one item
  seq_at_render,
  editor,      \* where ProgressEdits.run is
  phase,       \* where handle_message is
  suppressed,  \* the run was cancelled without output
  \* History, read by no action:
  applied,     \* operations that Telegram has carried out
  postponed    \* operations that Telegram has refused once

editing == <<event_seq, rendered_seq, signal, seq_at_render, editor>>
ending  == <<phase, suppressed>>
telegram == <<applied, postponed>>
allVars == <<vars, editing, ending, telegram>>

ProgressTypeOK ==
  /\ TypeOK
  /\ event_seq \in 0..MaxEvents /\ rendered_seq \in 0..MaxEvents /\ seq_at_render \in 0..MaxEvents
  /\ signal \in {0, 1}
  /\ editor \in {"looking", "receiving", "enqueuing", "cancelled"}
  /\ phase \in {"running", "editing", "dropping", "placing", "sending",
                "clearing", "removing", "awaiting", "over"}
  /\ suppressed \in BOOLEAN
  /\ applied \in SUBSET Op /\ postponed \in SUBSET Op

ProgressInit ==
  /\ Init
  /\ event_seq = 0 /\ rendered_seq = 0 /\ signal = 0 /\ seq_at_render = 0
  /\ editor = "looking"
  /\ phase = "running"
  /\ suppressed = FALSE
  /\ applied = {} /\ postponed = {}

(***************************************************************************)
(* ProgressEdits.                                                          *)
(***************************************************************************)
\* Mutant of OnEvent: the editor is not signalled.
OnEventSilent ==
  /\ phase = "running" /\ event_seq < MaxEvents
  /\ event_seq' = event_seq + 1
  /\ UNCHANGED <<vars, rendered_seq, signal, seq_at_render, editor, ending, telegram>>

\* on_event: a full stream (WouldBlock) already holds the signal.
OnEvent ==
  /\ phase = "running" /\ event_seq < MaxEvents
  /\ event_seq' = event_seq + 1
  /\ signal' = 1
  /\ UNCHANGED <<vars, rendered_seq, seq_at_render, editor, ending, telegram>>

\* The head of run(): nothing new is waited for, an unchanged text is not sent.
EditorWaits ==
  /\ editor = "looking" /\ rendered_seq = event_seq
  /\ editor' = "receiving"
  /\ UNCHANGED <<vars, event_seq, rendered_seq, signal, seq_at_render, ending, telegram>>

EditorWakes ==
  /\ editor = "receiving" /\ signal = 1
  /\ signal' = 0
  /\ editor' = "looking"
  /\ UNCHANGED <<vars, event_seq, rendered_seq, seq_at_render, ending, telegram>>

EditorSkips ==
  /\ editor = "looking" /\ rendered_seq # event_seq
  /\ rendered_seq' = event_seq
  /\ UNCHANGED <<vars, event_seq, signal, seq_at_render, editor, ending, telegram>>

EditorEdits ==
  /\ editor = "looking" /\ rendered_seq # event_seq
  /\ Submit(event_seq)
  /\ seq_at_render' = event_seq
  /\ editor' = "enqueuing"
  /\ UNCHANGED <<event_seq, rendered_seq, signal, ending, telegram>>

EditorDone ==
  /\ editor = "enqueuing" /\ call[seq_at_render] = "returned"
  /\ rendered_seq' = seq_at_render
  /\ editor' = "looking"
  /\ UNCHANGED <<vars, event_seq, signal, seq_at_render, ending, telegram>>

Editor == EditorWaits \/ EditorWakes \/ EditorSkips \/ EditorEdits \/ EditorDone

(***************************************************************************)
(* The end of the run.  edits_scope.cancel() ends the editor, and with it  *)
(* an enqueue that has not got the lock yet.                               *)
(***************************************************************************)
EndByEdit ==
  /\ phase = "running"
  /\ editor' = "cancelled" /\ phase' = "editing"
  /\ Submit(FinalEdit)
  /\ UNCHANGED <<event_seq, rendered_seq, signal, seq_at_render, suppressed, telegram>>

EndBySend ==
  /\ phase = "running"
  /\ editor' = "cancelled" /\ phase' = "dropping"
  /\ UNCHANGED <<vars, event_seq, rendered_seq, signal, seq_at_render, suppressed, telegram>>

EndSuppressed ==
  /\ phase = "running"
  /\ editor' = "cancelled" /\ phase' = "clearing" /\ suppressed' = TRUE
  /\ UNCHANGED <<vars, event_seq, rendered_seq, signal, seq_at_render, telegram>>

\* A last edit that is not answered is followed by a message of its own.
FinalEditReturns ==
  /\ phase = "editing" /\ call[FinalEdit] = "returned"
  /\ phase' = IF result[FinalEdit] = "answer" THEN "over" ELSE "dropping"
  /\ UNCHANGED <<vars, editing, suppressed, telegram>>

\* Mutant of DropForSend: pending edits survive the final message.
DropForSendKeeps ==
  /\ phase = "dropping"
  /\ phase' = "placing"
  /\ UNCHANGED <<vars, editing, suppressed, telegram>>

DropForSend ==
  /\ phase = "dropping"
  /\ DropPending(EditKey)
  /\ phase' = "placing"
  /\ UNCHANGED <<editing, suppressed, telegram>>

SendFinal ==
  /\ phase = "placing"
  /\ Submit(FinalSend)
  /\ phase' = "sending"
  /\ UNCHANGED <<editing, suppressed, telegram>>

FinalSendReturns ==
  /\ phase = "sending" /\ call[FinalSend] = "returned"
  /\ phase' = IF result[FinalSend] = "answer" THEN "clearing" ELSE "over"
  /\ UNCHANGED <<vars, editing, suppressed, telegram>>

DropForRemoval ==
  /\ phase = "clearing"
  /\ DropPending(EditKey)
  /\ phase' = "removing"
  /\ UNCHANGED <<editing, suppressed, telegram>>

Remove ==
  /\ phase = "removing"
  /\ Submit(Removal)
  /\ phase' = "awaiting"
  /\ UNCHANGED <<editing, suppressed, telegram>>

RemovalReturns ==
  /\ phase = "awaiting" /\ call[Removal] = "returned"
  /\ phase' = "over"
  /\ UNCHANGED <<vars, editing, suppressed, telegram>>

Run == \/ FinalEditReturns \/ DropForSend \/ SendFinal \/ FinalSendReturns
       \/ DropForRemoval \/ Remove \/ RemovalReturns

(***************************************************************************)
(* The outbox, with what Telegram does on each request.                    *)
(***************************************************************************)
ExecutedAt(r) ==
  /\ Executed(r)
  /\ \/ applied' = applied \cup {picked}
     \/ r = "none" /\ UNCHANGED applied
  /\ UNCHANGED <<editing, ending, postponed>>

RefusedAt(d) ==
  /\ Refused(d)
  /\ postponed' = postponed \cup {picked}
  /\ UNCHANGED <<editing, ending, applied>>

\* The editor's enqueue is cancelled with it; the other calls go on.
CallerAt(o) ==
  /\ Caller(o) /\ (o \in Events => phase = "running")
  /\ UNCHANGED <<editing, ending, telegram>>

Elsewhere == UNCHANGED <<editing, ending, telegram>>

WorkerAt == \/ (\E r \in {"answer", "none"} : ExecutedAt(r))
            \/ (\E d \in RetryDelay : RefusedAt(d))
            \/ (Look \/ Wake \/ PickNothing \/ HookRaises \/ PutBack \/ Fail
                \/ \E o \in Op : Pick(o)) /\ Elsewhere

ProgressNext ==
  \/ OnEvent \/ Editor \/ EndByEdit \/ EndBySend \/ EndSuppressed \/ Run
  \/ \E o \in Op : CallerAt(o)
  \/ WorkerAt
  \/ (Close \/ CloseReturns \/ Tick) /\ Elsewhere

ProgressSpec == ProgressInit /\ [][ProgressNext]_allVars

\* Tasks are scheduled, requests end and time passes; the agent need not end.
ProgressFairSpec ==
  /\ ProgressSpec
  /\ WF_allVars(Editor) /\ WF_allVars(Run) /\ WF_allVars(WorkerAt)
  /\ WF_allVars(Tick /\ Elsewhere)
  /\ \A o \in Op : WF_allVars(CallerAt(o))

(***************************************************************************)
(* Properties.                                                             *)
(***************************************************************************)
\* Once the final text is on Telegram no progress edit is begun: never after a final
\* edit, and after a final message only one that Telegram had postponed before
\* drop_pending could see it (client.py 193-207, outbox.py 149-158).
NoLateProgress ==
  [][\A e \in Events : picked' = e /\ picked # e
       => /\ FinalEdit \notin applied
          /\ FinalSend \in applied => e \in postponed]_allVars

\* An event is rendered although the stream that signals it holds one item: the
\* editor catches up unless the run ends or the outbox dies under its enqueue
\* (runner_bridge.py 201-248).
ProgressCatchesUp ==
  rendered_seq < event_seq ~> (rendered_seq = event_seq \/ phase # "running")

\* The end of a run does not wait forever on the outbox (runner_bridge.py 563-664);
\* the exception is the operation in the hands of a worker that died.
RunEnds == phase # "running" ~> (phase = "over" \/ (worker = "stopped" /\ picked # None))
===============================================================================
