------------------------------ MODULE LeavePages ------------------------------
(***************************************************************************)
(* The pages of the web client on top of the leave workflow: ApprovalsPage *)
(* with its queue, LeaveDetailPage with its buttons and RequestLeavePage   *)
(* with its form, as one signed-in viewer sees them, one page at a time.   *)
(* Pages keep the rows an earlier answer gave them; the server's rows go on*)
(* changing (Elsewhere: other users, other tabs), and the answers to the   *)
(* viewer's calls arrive in any order, or not at all.                      *)
(* The server is LeaveCommits, the workflow as it serves calls that may    *)
(* overlap on one request: a call of the viewer is checked in one step and *)
(* committed in a later one.                                               *)
(***************************************************************************)
EXTENDS LeaveCommits

CONSTANTS
  Viewer,      \* the employee signed in
  Sends        \* calls of the viewer that can be in flight at once

ASSUME PagesAssumption == Viewer \in Employees

VARIABLES
  queue,     \* [Requests -> QueueRow], ApprovalsPage's rows
  listed,    \* the answer of getQueue on its way: a set of ids, or None
  detail,    \* LeaveDetailPage, see Detail
  form,      \* RequestLeavePage, see Form
  send,      \* [Sends -> Send], calls of the pages in flight
  overtaken  \* history: the requests of which a commit was decided on a
             \* status they no longer had

pages == <<queue, listed, detail, form, send>>
rows  == <<request, past, overtaken>>

QueueRow == [kind : {"absent", "pending", "decided"},
             status : Statuses \cup {None}]

Absent      == [kind |-> "absent", status |-> None]
Waiting     == [kind |-> "pending", status |-> "SUBMITTED"]
Decided(st) == [kind |-> "decided", status |-> st]
NoQueue     == [r \in Requests |-> Absent]

(* from says whose call it is: left is that of a form that has been left.  *)
(* seen is the status the server has checked, until it commits; answer is  *)
(* the row it has returned; a create has an id once it is served.  A call  *)
(* may fail at any time: a guard refuses, the balance does not suffice, a  *)
(* query or the connection fails, or the answer to what was done is lost.  *)
(* A page sees the same error in each case.                                *)
Send == [from : {"off", "queue", "detail", "form", "left"},
         action : Operations \cup {"create", "open", "none"},
         id : Requests \cup {None}, seen : Statuses \cup {None},
         answer : View \cup {None}]

(* The id in the address, the row last set and whose it is, and whether an *)
(* error was set; as history, whether a press of this visit was pending at *)
(* the same time as another call whose answer is shown.                    *)
Detail == [id : Requests \cup {None}, shown : Requests \cup {None},
           row : View \cup {None}, failed : BOOLEAN, overlapped : BOOLEAN]

(* made and lost are history: how many drafts this visit of the form has   *)
(* made, and of how many the answer never came.                            *)
Form == [open : BOOLEAN, submitting : BOOLEAN, made : Nat, lost : Nat]

Unsent == [from |-> "off", action |-> "none", id |-> None, seen |-> None,
           answer |-> None]
Fresh(x) == [id |-> x, shown |-> None, row |-> None, failed |-> FALSE,
             overlapped |-> FALSE]
Closed == Fresh(None)
Blank  == [open |-> TRUE, submitting |-> FALSE, made |-> 0, lost |-> 0]
NoForm == [Blank EXCEPT !.open = FALSE]

Calling(from, action, r) ==
  [Unsent EXCEPT !.from = from, !.action = action, !.id = r]

Creating   == Calling("form", "create", None)
Loading(r) == Calling("detail", "open", r)

Pressed(call) == call.from = "detail" /\ call.action # "open"

-----------------------------------------------------------------------------
(* The visibility rule of list and getById.                                *)

Sees(actor, row) == Owner(row) = actor \/ Oversees(actor, row)

CanApproveLeave(role) == role \in {"MANAGER", "ADMIN"}

(* Mutant: the role is asked before the ownership.                         *)
AvailableByRole(status, role, isOwner) ==
  CASE CanApproveLeave(role) /\ status = "SUBMITTED" -> {"approve", "reject"}
    [] isOwner /\ status = "DRAFT" -> {"submit", "cancel"}
    [] isOwner /\ status = "SUBMITTED" -> {"cancel"}
    [] OTHER -> {}

(* getAvailableLeaveActions                                                *)
Available(status, role, isOwner) ==
  CASE isOwner /\ status = "DRAFT" -> {"submit", "cancel"}
    [] isOwner /\ status = "SUBMITTED" -> {"cancel"}
    [] ~isOwner /\ CanApproveLeave(role) /\ status = "SUBMITTED" ->
         {"approve", "reject"}
    [] OTHER -> {}

(* What list returns to the viewer.                                        *)
Listing == {r \in StoredIn(request) : Sees(Viewer, request[r])}

(* The buttons of the detail page.                                         *)
Offered ==
  IF detail.row = None THEN {}
  ELSE Available(detail.row.status, Role[Viewer], Owner(detail.row) = Viewer)

PagesInit ==
  /\ CommitsInit
  /\ queue = NoQueue
  /\ listed = None
  /\ detail = Closed
  /\ form = NoForm
  /\ send = [k \in Sends |-> Unsent]
  /\ overtaken = {}

-----------------------------------------------------------------------------
(* Going from page to page.                                                *)

(* A page of another route is mounted: what the old one kept is gone, and  *)
(* an answer to one of its calls finds nobody.  The server may still serve *)
(* such a call, as it may those of other tabs (Elsewhere).  But what       *)
(* handleSubmit of a left form is waiting for will still navigate.         *)
Departed(call) ==
  CASE call.from = "form" -> [call EXCEPT !.from = "left"]
    [] call.from = "left" -> call
    [] OTHER -> Unsent

Mount(newDetail, newForm) ==
  /\ queue' = NoQueue
  /\ detail' = newDetail
  /\ form' = newForm

(* Mutant: the effect does not cancel the load it has started.             *)
CleanupForgotten(call) == call

(* The cleanup of the effect of the detail page: the answer of a load that *)
(* is pending is ignored.  handleAction has no such thing.                 *)
Cleanup(call) == IF Pressed(call) THEN call
                 ELSE IF call.from = "detail" THEN Unsent
                 ELSE call

(* The address becomes that of request r, whose load is call k.  From      *)
(* another detail page (the browser's history, or a form that was left)    *)
(* the route has no key: the page stays mounted and keeps its row, its     *)
(* error and the calls of its buttons, and its effect starts anew.         *)
ShowDetail(k, r) ==
  \/ /\ detail.id = None
     /\ Mount(Fresh(r), NoForm)
     /\ listed' = None
     /\ send' = [[j \in Sends |-> Departed(send[j])] EXCEPT ![k] = Loading(r)]
  \/ /\ detail.id \notin {None, r}
     /\ detail' = [detail EXCEPT !.id = r, !.overlapped =
                     detail.overlapped \/ \E j \in Sends : Pressed(send[j])]
     /\ send' = [[j \in Sends |-> Cleanup(send[j])] EXCEPT ![k] = Loading(r)]
     /\ UNCHANGED <<queue, listed, form>>

OpenDetail(k, r) ==
  /\ r \in StoredIn(request)
  /\ send[k].from # "form" /\ send[k].from # "left" /\ ~Pressed(send[k])
  /\ ShowDetail(k, r)
  /\ UNCHANGED rows

OpenForm ==
  /\ Mount(Closed, Blank)
  /\ listed' = None
  /\ send' = [j \in Sends |-> Departed(send[j])]
  /\ UNCHANGED rows

MayOpenQueue == CanApproveLeave(Role[Viewer])

(* getQueue keeps the SUBMITTED requests of the list that are not the      *)
(* viewer's own.                                                           *)
OpenQueue ==
  /\ MayOpenQueue
  /\ Mount(Closed, NoForm)
  /\ listed' = {r \in Listing : /\ request[r].status = "SUBMITTED"
                               /\ Owner(request[r]) # Viewer}
  /\ send' = [j \in Sends |-> Departed(send[j])]
  /\ UNCHANGED rows

-----------------------------------------------------------------------------
(* ApprovalsPage                                                           *)

ShowQueue ==
  /\ listed # None
  /\ queue' = [r \in Requests |-> IF r \in listed THEN Waiting ELSE Absent]
  /\ listed' = None
  /\ UNCHANGED <<rows, detail, form, send>>

(* Mutant: the row shows the decision before the server has answered.      *)
DecideAtOnce(k, r, action) ==
  /\ queue[r].kind = "pending"
  /\ action \in {"approve", "reject"}
  /\ send[k] = Unsent
  /\ send' = [send EXCEPT ![k] = Calling("queue", action, r)]
  /\ queue' = [queue EXCEPT ![r] = Decided(Outcome[action])]
  /\ UNCHANGED <<rows, listed, detail, form>>

(* The buttons of a row stay enabled while a call for it is in flight.     *)
Decide(k, r, action) ==
  /\ queue[r].kind = "pending"
  /\ action \in {"approve", "reject"}
  /\ send[k] = Unsent
  /\ send' = [send EXCEPT ![k] = Calling("queue", action, r)]
  /\ UNCHANGED <<rows, queue, listed, detail, form>>

(* A row that has been decided meanwhile keeps what it shows.              *)
ShownAfter(call) ==
  IF queue[call.id].kind = "pending" THEN Decided(call.answer.status)
                                     ELSE queue[call.id]

(* The decided row is replaced by the one the server returned.             *)
EndDecide(k) ==
  LET call == send[k] IN
  /\ call.from = "queue" /\ call.answer # None
  /\ queue' = [queue EXCEPT ![call.id] = ShownAfter(call)]
  /\ send' = [send EXCEPT ![k] = Unsent]
  /\ UNCHANGED <<rows, listed, detail, form>>

(* The error replaces the table, until the page is opened again.           *)
FailDecide(k) ==
  /\ send[k].from = "queue"
  /\ queue' = NoQueue
  /\ send' = [send EXCEPT ![k] = Unsent]
  /\ UNCHANGED <<rows, listed, detail, form>>

-----------------------------------------------------------------------------
(* LeaveDetailPage                                                         *)

(* A button acts on the row the page shows, whatever the address is.       *)
Press(k, action) ==
  /\ action \in Offered
  /\ send[k] = Unsent
  /\ send' = [send EXCEPT ![k] = Calling("detail", action, detail.shown)]
  /\ detail' = [detail EXCEPT !.overlapped =
                  detail.overlapped \/ \E j \in Sends : send[j].from = "detail"]
  /\ UNCHANGED <<rows, queue, listed, form>>

(* Mutant: the call is not awaited.                                        *)
EndDetailUnawaited(k) ==
  LET call == send[k] IN
  /\ call.from = "detail"
  /\ detail' = [detail EXCEPT !.shown = call.id, !.row = call.answer]
  /\ send' = [send EXCEPT ![k] = Unsent]
  /\ UNCHANGED <<rows, queue, listed, form>>

(* The answer of the load or of a button is the row to show, which after   *)
(* an error nobody sees.                                                   *)
EndDetail(k) ==
  LET call == send[k] IN
  /\ call.from = "detail" /\ call.answer # None
  /\ detail' = IF detail.failed
               THEN detail
               ELSE [detail EXCEPT !.shown = call.id, !.row = call.answer]
  /\ send' = [send EXCEPT ![k] = Unsent]
  /\ UNCHANGED <<rows, queue, listed, form>>

(* The error takes the place of every row until the page is unmounted.     *)
FailDetail(k) ==
  /\ send[k].from = "detail"
  /\ detail' = [detail EXCEPT !.shown = None, !.row = None, !.failed = TRUE]
  /\ send' = [send EXCEPT ![k] = Unsent]
  /\ UNCHANGED <<rows, queue, listed, form>>

-----------------------------------------------------------------------------
(* RequestLeavePage                                                        *)

(* Mutant: the button stays enabled while a submission is pending.         *)
SubmitAgain(k) ==
  /\ form.open
  /\ send[k] = Unsent
  /\ form' = [form EXCEPT !.submitting = TRUE]
  /\ send' = [send EXCEPT ![k] = Creating]
  /\ UNCHANGED <<rows, queue, listed, detail>>

(* A form that is filled in; the button is disabled while submitting.      *)
SubmitForm(k) ==
  /\ form.open /\ ~form.submitting
  /\ send[k] = Unsent
  /\ form' = [form EXCEPT !.submitting = TRUE]
  /\ send' = [send EXCEPT ![k] = Creating]
  /\ UNCHANGED <<rows, queue, listed, detail>>

(* The page of the created request, from wherever the viewer is by then.   *)
EndCreate(k) ==
  LET call == send[k] IN
  /\ call.from \in {"form", "left"} /\ call.answer # None
  /\ \/ ShowDetail(k, call.id)
     \/ /\ detail.id = call.id
        /\ send' = [send EXCEPT ![k] = Unsent]
        /\ UNCHANGED <<queue, listed, detail, form>>
  /\ UNCHANGED rows

(* The error above the form; of a form that was left nobody sees it.       *)
FailCreate(k) ==
  LET call == send[k] IN
  /\ \/ /\ call.from = "form"
        /\ form' = [form EXCEPT !.submitting = FALSE, !.lost =
                      IF call.answer = None THEN form.lost ELSE form.lost + 1]
     \/ call.from = "left" /\ UNCHANGED form
  /\ send' = [send EXCEPT ![k] = Unsent]
  /\ UNCHANGED <<rows, queue, listed, detail>>

-----------------------------------------------------------------------------
(* The server.                                                             *)

Overtakes(r, status) ==
  overtaken' = IF status = request[r].status THEN overtaken
                                             ELSE overtaken \cup {r}

(* The read and the guards of submit, approve, reject and cancel.          *)
Check(k) ==
  LET call == send[k] IN
  /\ call.action \in Operations /\ call.seen = None /\ call.answer = None
  /\ Permits(call.action, Viewer, request[call.id])
  /\ send' = [send EXCEPT ![k].seen = request[call.id].status]
  /\ UNCHANGED <<rows, queue, listed, detail, form>>

(* Their transaction, which returns the updated row.                       *)
Serve(k) ==
  LET call == send[k]
      r == call.id
  IN
  /\ call.seen # None
  /\ CommitInPlace(r, call.action, Viewer, call.seen)
  /\ Overtakes(r, call.seen)
  /\ send' = [send EXCEPT ![k].seen = None, ![k].answer = request'[r]]
  /\ UNCHANGED <<queue, listed, detail, form>>

ServeOpen(k) ==
  LET call == send[k] IN
  /\ call.action = "open" /\ call.answer = None
  /\ Sees(Viewer, request[call.id])
  /\ send' = [send EXCEPT ![k].answer = request[call.id]]
  /\ UNCHANGED <<rows, queue, listed, detail, form>>

ServeCreate(k, r, a) ==
  LET call == send[k] IN
  /\ call.action = "create" /\ call.answer = None
  /\ OwnerOf[a] = Viewer
  /\ CommitDraft(r, a)
  /\ form' = IF call.from = "form" THEN [form EXCEPT !.made = form.made + 1]
                                   ELSE form
  /\ send' = [send EXCEPT ![k].id = r, ![k].answer = request'[r]]
  /\ UNCHANGED <<queue, listed, detail, overtaken>>

(* Others act on the rows; drafts come from the request form.              *)
Elsewhere ==
  /\ \E r \in Requests :
       \/ /\ \/ \E a \in Accounts : CommitDraft(r, a)
             \/ \E s \in Requests, actor \in Employees :
                  CommitReversal(r, s, actor)
          /\ UNCHANGED overtaken
       \/ \E status \in past[r], operation \in Operations,
             actor \in Employees :
            /\ CommitInPlace(r, operation, actor, status)
            /\ Overtakes(r, status)
  /\ UNCHANGED pages

PagesNext ==
  \/ OpenQueue \/ ShowQueue \/ OpenForm
  \/ \E k \in Sends, r \in Requests : OpenDetail(k, r)
  \/ \E k \in Sends, r \in Requests, action \in Operations :
       Decide(k, r, action)
  \/ \E k \in Sends, action \in Operations : Press(k, action)
  \/ \E k \in Sends :
       \/ SubmitForm(k) \/ Check(k) \/ Serve(k) \/ ServeOpen(k)
       \/ \E r \in Requests, a \in Accounts : ServeCreate(k, r, a)
       \/ EndDecide(k) \/ EndDetail(k) \/ EndCreate(k)
       \/ FailDecide(k) \/ FailDetail(k) \/ FailCreate(k)
  \/ Elsewhere

PagesSpec == PagesInit /\ [][PagesNext]_<<rows, pages>>

-----------------------------------------------------------------------------

PagesTypeOK ==
  /\ request \in [Requests -> View \cup {None}]
  /\ past \in [Requests -> SUBSET Statuses]
  /\ queue \in [Requests -> QueueRow]
  /\ listed = None \/ listed \subseteq Requests
  /\ detail \in Detail /\ (detail.shown = None <=> detail.row = None)
  /\ form \in Form
  /\ send \in [Sends -> Send]
  /\ overtaken \subseteq Requests

(* A decided row of the approvals queue says what was decided: a decision  *)
(* that was committed, and that the server still has unless a call which   *)
(* read the request before has written over it.  Two presses on one row, a *)
(* press another approver or the owner came before, a lost answer: none    *)
(* leaves a decision on the page that was not taken.                       *)
DecisionsShownTaken ==
  \A r \in Requests : queue[r].kind = "decided" =>
    /\ queue[r].status \in past[r] \cap {"APPROVED", "REJECTED"}
    /\ r \notin overtaken => queue[r].status = request[r].status

(* The order of the statuses.                                              *)
Rank(status) ==
  CASE status = "DRAFT" -> 0 [] status = "SUBMITTED" -> 1 [] OTHER -> 2

Onward(old, new) ==
  \/ Rank(old.status) < Rank(new.status)
  \/ old.status = new.status

(* What comes to be shown on the detail page is a row of the request in    *)
(* the address, and of the same request no older one than it replaces,     *)
(* whichever pages the viewer has come through and however late the loads  *)
(* of those are answered.  Excepted are the visits in which a press was    *)
(* pending beside another call, whose answer nothing holds back, and what  *)
(* the server itself has taken back.                                       *)
DetailGoesForward ==
  [][/\ ~detail'.overlapped /\ detail'.row # None
     /\ <<detail'.shown, detail'.row>> # <<detail.shown, detail.row>>
     => /\ detail'.shown = detail'.id
        /\ detail.shown = detail'.shown /\ detail.shown \notin overtaken
             => Onward(detail.row, detail'.row)]_pages

(* "Forbidden actions are never rendered": while the row the detail page   *)
(* shows is the server's, the server accepts each button of it, and what   *)
(* waits in the queue of an approver is theirs to decide unless it is no   *)
(* longer waiting.  The client's rule knows no managers, so both rest on   *)
(* who is sent which rows.                                                 *)
OfferedIsPermitted ==
  /\ detail.row # None /\ detail.row = request[detail.shown] =>
       \A action \in Offered : Permits(action, Viewer, request[detail.shown])
  /\ \A r \in Requests :
       queue[r].kind = "pending" /\ request[r].status = "SUBMITTED" =>
         MayDecide(Viewer, request[r])

(* One visit of the request form leaves one draft, and one more for each   *)
(* submission whose answer was lost: no second create is sent while one is *)
(* pending, and none after one that the page knows has succeeded.          *)
OneDraftPerVisit == form.made <= 1 + form.lost

=============================================================================
