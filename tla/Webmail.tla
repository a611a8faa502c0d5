-------------------------------- MODULE Webmail --------------------------------
(***************************************************************************)
(* The page of the webmail client (src/apps/webmail/app.js): the inbox, the *)
(* message that is read and the queue of mails that are sent.                *)
(*                                                                         *)
(* Every request is a fetch; the page goes on while it awaits one, and the   *)
(* answers come in any order.  A handler runs to its next await in one       *)
(* action.  render() draws the state as it is; between two renders the rows  *)
(* that the user can click are those of the last one.                        *)
(*                                                                         *)
(* The backend behind WEBMAIL_API_BASE is external: a mailbox that changes   *)
(* by itself and a mail service that takes a mail or refuses it.  The        *)
(* content of messages, the filter, the credentials form, the drafts and the *)
(* panels that open and close are left out.                                  *)
(***************************************************************************)
EXTENDS FiniteSets

CONSTANTS
    Message,   \* the messages that can be in the mailbox
    None,      \* no message
    Load,      \* the runs of loadAll that overlap at most
    Job        \* the jobs the send queue holds at most

ASSUME NoneAssumption == None \notin Message

VARIABLES
    mailbox,        \* external: the messages the backend lists
    accepted,       \* external: the jobs whose mail the backend has taken
    messages,       \* state.messages
    rows,           \* the messages of the last render
    selectedId,     \* state.selectedId
    shown,          \* the message state.selectedMessage has its content from
    reads,          \* the messages a read is under way for
    loads,          \* the runs of loadAll
    jobs,           \* state.queue, with the await each sendMessage is at
    lateRead,       \* ghost: the last answer to a read was for another message
    excused         \* ghost: the jobs whose answer or list was lost on the way

vars == <<mailbox, accepted, messages, rows, selectedId, shown, reads, loads,
          jobs, lateRead, excused>>

backend == <<mailbox, accepted>>
detail == <<selectedId, shown, reads, lateRead>>
inbox == <<messages, rows>>

\* A loadAll: the list request, what it is answered with, and the status and
\* config requests taken together.
LoadRecord ==
    [list : {"sent", "answered", "ok", "failed"}, snap : SUBSET Message,
     others : {"sent", "ok", "failed"}]

NoLoad == [list |-> "none", snap |-> {}, others |-> "none"]

\* A job: what the queue shows of it, and where its sendMessage is: at the send
\* request, at the list request that follows, or through.  A job that the user
\* cleared while it waits for the list has gone from the queue.
JobRecord ==
    [status : {"running", "succeeded", "failed", "cleared"},
     at : {"sent", "taken", "refused", "listing", "listed", "through"},
     snap : SUBSET Message]

NoJob == [status |-> "none", at |-> "none", snap |-> {}]

-----------------------------------------------------------------------------
(* The backend *)

MailboxChanges ==
    /\ \E m \in Message :
          mailbox' = IF m \in mailbox THEN mailbox \ {m} ELSE mailbox \cup {m}
    /\ UNCHANGED <<accepted, inbox, detail, loads, jobs, excused>>

\* A list request is answered with the mailbox as it is now.
HandleList(k) ==
    /\ loads[k].list = "sent"
    /\ loads' = [loads EXCEPT ![k].list = "answered", ![k].snap = mailbox]
    /\ UNCHANGED <<backend, inbox, detail, jobs, excused>>

HandleJobList(j) ==
    /\ jobs[j].at = "listing"
    /\ jobs' = [jobs EXCEPT ![j].at = "listed", ![j].snap = mailbox]
    /\ UNCHANGED <<backend, inbox, detail, loads, excused>>

HandleSend(j) ==
    /\ jobs[j].at = "sent"
    /\ \/ /\ accepted' = accepted \cup {j}
          /\ jobs' = [jobs EXCEPT ![j].at = "taken"]
       \/ /\ jobs' = [jobs EXCEPT ![j].at = "refused"]
          /\ UNCHANGED accepted
    /\ UNCHANGED <<mailbox, inbox, detail, loads, excused>>

-----------------------------------------------------------------------------
(* loadAll: at the start, from the timer, after a refresh *)

LoadAll(k) ==
    /\ loads[k] = NoLoad
    /\ loads' = [loads EXCEPT ![k] = [list |-> "sent", snap |-> {}, others |-> "sent"]]
    /\ UNCHANGED <<backend, inbox, detail, jobs, excused>>

\* Only the selection is dropped with its message, not what is shown of it.
ShowList_KeepsDetail(snap) ==
    /\ messages' = snap
    /\ selectedId' = IF selectedId \in snap THEN selectedId ELSE None
    /\ UNCHANGED <<shown, reads, lateRead>>

\* loadMessages after its await: the list is replaced, and a selection whose
\* message is gone is dropped with what is shown of it.
ShowList(snap) ==
    /\ messages' = snap
    /\ IF selectedId # None /\ selectedId \notin snap
       THEN selectedId' = None /\ shown' = None
       ELSE UNCHANGED <<selectedId, shown>>
    /\ UNCHANGED <<reads, lateRead>>

\* Promise.all has rejected already, or resolves or rejects with this part:
\* it is through at the first failure, or when both parts are well.
Rejected(load) == "failed" \in {load.list, load.others}

Resolved(load) == load.list = "ok" /\ load.others = "ok"

Through(load) == load.list \in {"ok", "failed"} /\ load.others \in {"ok", "failed"}

\* Only a load that went well is rendered.
PartIn_NoRenderOnFailure(k, load, msgs) ==
    /\ loads' = [loads EXCEPT ![k] = IF Through(load) THEN NoLoad ELSE load]
    /\ rows' = IF Resolved(load) THEN msgs ELSE rows

\* Part of a load has come in, leaving `load' and the list `msgs': the page is
\* rendered when this settles the Promise.all, and only then.
PartIn(k, load, msgs) ==
    /\ loads' = [loads EXCEPT ![k] = IF Through(load) THEN NoLoad ELSE load]
    /\ rows' = IF ~Rejected(loads[k]) /\ (Rejected(load) \/ Resolved(load))
               THEN msgs ELSE rows

ListArrives(k) ==
    /\ loads[k].list = "answered"
    /\ ShowList(loads[k].snap)
    /\ PartIn(k, [loads[k] EXCEPT !.list = "ok", !.snap = {}], messages')
    /\ UNCHANGED <<backend, jobs, excused>>

ListFails(k) ==
    /\ loads[k].list \in {"sent", "answered"}
    /\ PartIn(k, [loads[k] EXCEPT !.list = "failed", !.snap = {}], messages)
    /\ UNCHANGED <<backend, messages, detail, jobs, excused>>

\* loadConfig never fails; loadStatus may.
OthersEnd(k) ==
    /\ loads[k].others = "sent"
    /\ \E outcome \in {"ok", "failed"} :
          PartIn(k, [loads[k] EXCEPT !.others = outcome], messages)
    /\ UNCHANGED <<backend, messages, detail, jobs, excused>>

-----------------------------------------------------------------------------
(* readMessage *)

\* The click of a row: the row may be of a message that is gone by now.
ReadMessage(m) ==
    /\ m \in rows
    /\ selectedId' = m
    /\ shown' = IF m \in messages THEN m ELSE None
    /\ rows' = messages
    /\ reads' = reads \cup {m}
    /\ lateRead' = FALSE
    /\ UNCHANGED <<backend, messages, loads, jobs, excused>>

\* The answer is laid over whatever is selected by now, or over nothing.
ReadArrives(m) ==
    /\ m \in reads
    /\ shown' = m
    /\ lateRead' = (m # selectedId)
    /\ reads' = reads \ {m}
    /\ rows' = messages
    /\ UNCHANGED <<backend, messages, selectedId, loads, jobs, excused>>

ReadFails(m) ==
    /\ m \in reads
    /\ reads' = reads \ {m}
    /\ rows' = messages
    /\ UNCHANGED <<backend, messages, selectedId, shown, lateRead, loads, jobs, excused>>

-----------------------------------------------------------------------------
(* sendMessage and the queue *)

SendMessage(j) ==
    /\ jobs[j] = NoJob
    /\ jobs' = [jobs EXCEPT ![j] = [status |-> "running", at |-> "sent", snap |-> {}]]
    /\ rows' = messages
    /\ UNCHANGED <<backend, messages, detail, loads, excused>>

\* An answer that says ok: false is taken for a success.
SendSucceeds_WhateverItSays(j) ==
    /\ jobs[j].at \in {"taken", "refused"}
    /\ jobs' = [jobs EXCEPT ![j].status = "succeeded", ![j].at = "listing"]
    /\ UNCHANGED <<backend, inbox, detail, loads, excused>>

\* The job is marked and the list is asked for again, still in the same try.
SendSucceeds(j) ==
    /\ jobs[j].at = "taken"
    /\ jobs' = [jobs EXCEPT ![j].status = "succeeded", ![j].at = "listing"]
    /\ UNCHANGED <<backend, inbox, detail, loads, excused>>

\* The job leaves the model when it has left the queue and nothing awaits it.
EndJob(j, status) ==
    IF jobs[j].status = "cleared"
    THEN jobs' = [jobs EXCEPT ![j] = NoJob] /\ accepted' = accepted \ {j}
    ELSE /\ jobs' = [jobs EXCEPT ![j] = [status |-> status, at |-> "through", snap |-> {}]]
         /\ UNCHANGED accepted

\* The catch: the mail was refused, the connection was lost before or after the
\* backend took it, or the list after it could not be had.
SendFails(j) ==
    /\ jobs[j].at \in {"sent", "taken", "refused", "listing", "listed"}
    /\ EndJob(j, "failed")
    /\ excused' = IF jobs[j].at \in {"taken", "listing", "listed"} /\ jobs[j].status # "cleared"
                  THEN excused \cup {j} ELSE excused
    /\ rows' = messages
    /\ UNCHANGED <<mailbox, messages, detail, loads>>

JobListArrives(j) ==
    /\ jobs[j].at = "listed"
    /\ ShowList(jobs[j].snap)
    /\ EndJob(j, "succeeded")
    /\ rows' = messages'
    /\ UNCHANGED <<mailbox, loads, excused>>

\* Jobs that still run stay.
ClearQueue ==
    LET gone == {j \in Job : jobs[j].at = "through"}
    IN  /\ jobs' = [j \in Job |->
                      IF j \in gone THEN NoJob
                      ELSE IF jobs[j].status = "succeeded"
                      THEN [jobs[j] EXCEPT !.status = "cleared"]
                      ELSE jobs[j]]
        /\ accepted' = accepted \ gone
        /\ excused' = excused \ gone
        /\ rows' = messages
        /\ UNCHANGED <<mailbox, messages, detail, loads>>

\* The panels, the search field and the buttons that only render.
Redraw ==
    /\ rows' = messages
    /\ UNCHANGED <<backend, messages, detail, loads, jobs, excused>>

-----------------------------------------------------------------------------
Init ==
    /\ mailbox \in SUBSET Message
    /\ accepted = {}
    /\ messages = {}
    /\ rows = {}
    /\ selectedId = None
    /\ shown = None
    /\ reads = {}
    /\ loads = [k \in Load |-> NoLoad]
    /\ jobs = [j \in Job |-> NoJob]
    /\ lateRead = FALSE
    /\ excused = {}

Loading(k) == HandleList(k) \/ ListArrives(k) \/ ListFails(k) \/ OthersEnd(k)

Reading(m) == ReadArrives(m) \/ ReadFails(m)

Sending(j) ==
    \/ HandleSend(j)
    \/ SendSucceeds(j)
    \/ SendFails(j)
    \/ HandleJobList(j)
    \/ JobListArrives(j)

Next ==
    \/ MailboxChanges
    \/ \E k \in Load : LoadAll(k) \/ Loading(k)
    \/ \E m \in Message : ReadMessage(m) \/ Reading(m)
    \/ \E j \in Job : SendMessage(j) \/ Sending(j)
    \/ ClearQueue
    \/ Redraw

Spec == Init /\ [][Next]_vars

\* Fetches end, and the timer of a visible page loads again.  A list that keeps
\* being asked for is had again and again: the network does not fail for ever.
Fairness ==
    /\ \A k \in Load :
          /\ WF_vars(LoadAll(k))
          /\ WF_vars(Loading(k))
          /\ WF_vars(OthersEnd(k))
          /\ SF_vars(HandleList(k))
          /\ SF_vars(ListArrives(k))
    /\ \A m \in Message : WF_vars(Reading(m))
    /\ \A j \in Job : WF_vars(Sending(j))

FairSpec == Spec /\ Fairness

-----------------------------------------------------------------------------
(* What must hold *)

\* The page, its requests and its queue are well formed.
TypeOK ==
    /\ mailbox \subseteq Message /\ messages \subseteq Message /\ rows \subseteq Message
    /\ accepted \subseteq Job /\ excused \subseteq Job
    /\ {selectedId, shown} \subseteq Message \cup {None}
    /\ reads \subseteq Message
    /\ loads \in [Load -> LoadRecord \cup {NoLoad}]
    /\ jobs \in [Job -> JobRecord \cup {NoJob}]
    /\ lateRead \in BOOLEAN

\* What is shown as the selected message is the selected one, also when the
\* list drops it, unless the last answer to a read came after the user had gone
\* on to another message or the list had dropped it (readMessage, app.js:555).
DetailIsOfSelection == shown # None /\ shown # selectedId => lateRead

\* A job that is shown as sent was taken by the backend; one that is shown as
\* failed was not, unless the answer, or the list after it, was lost
\* (sendMessage, app.js:603).
JobIsHonest ==
    \A j \in Job :
        /\ jobs[j].status = "succeeded" => j \in accepted
        /\ jobs[j].status = "failed" /\ j \in accepted => j \in excused

\* Once the mailbox is at rest, the rows come to be its messages and stay so,
\* whatever overlaps, fails or is answered out of order, and a selection of a
\* message that is gone is dropped.
PageCatchesUp ==
    \A M \in SUBSET Message :
        <>[](mailbox = M) => <>[](rows = M /\ selectedId \in M \cup {None})
=============================================================================
