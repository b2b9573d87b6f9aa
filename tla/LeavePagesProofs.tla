--------------------------- MODULE LeavePagesProofs ---------------------------
(***************************************************************************)
(* Proofs about LeavePages, for every viewer, any number of requests and   *)
(* of calls in flight: what the pages of the web client show and offer is  *)
(* what the server has decided and would accept, although they keep old    *)
(* rows, calls overlap on one request, and answers are late or lost.       *)
(***************************************************************************)
EXTENDS LeavePages, TLAPS

Decisions == {"APPROVED", "REJECTED"}

(* Row row is one request r has had, and unless the request was written    *)
(* over, the server's row comes later in the order of the statuses.        *)
Had(row, r) ==
  /\ r \in StoredIn(request)
  /\ row.account = request[r].account
  /\ row.status \in past[r]
  /\ r \notin overtaken => Onward(row, request[r])

RowsFit ==
  /\ request \in [Requests -> View \cup {None}]
  /\ past \in [Requests -> SUBSET Statuses]
  /\ overtaken \subseteq Requests
  /\ \A r \in StoredIn(request) : request[r].status \in past[r]

(* The types of what the pages keep.                                       *)
PagesTyped ==
  /\ queue \in [Requests -> QueueRow]
  /\ listed = None \/ listed \subseteq Requests
  /\ detail \in Detail /\ (detail.shown = None <=> detail.row = None)
  /\ form \in Form

(* A call in flight is about a stored request, and its answer is a row the *)
(* request has had.                                                        *)
SendFits(call) ==
  /\ call.from = "off" => call = Unsent
  /\ call.from \in {"queue", "detail"} => call.id \in StoredIn(request)
  /\ call.from = "queue" => call.action \in {"approve", "reject"}
  /\ call.from = "detail" => call.action \in Operations \cup {"open"}
  /\ call.from \in {"form", "left"} => call.action = "create"
  /\ call.seen # None => call.action \in Operations
  /\ call.answer # None =>
       /\ Had(call.answer, call.id)
       /\ call.from = "queue" => call.answer.status \in Decisions
       /\ call.from = "detail" => Sees(Viewer, call.answer)

(* What the queue has of a request was sent to somebody who may decide it. *)
QueueFits ==
  /\ listed # None =>
       \A r \in listed : r \in StoredIn(request) /\ MayDecide(Viewer, request[r])
  /\ \A r \in Requests :
       /\ queue[r].kind # "absent" =>
            r \in StoredIn(request) /\ MayDecide(Viewer, request[r])
       /\ queue[r].kind = "decided" =>
            /\ queue[r].status \in Decisions \cap past[r]
            /\ r \notin overtaken => queue[r].status = request[r].status

(* Without overlapping calls the detail page waits for one answer at most, *)
(* which is about the request of its address.                              *)
OneAnswer ==
  ~detail.overlapped =>
    /\ \A j, k \in Sends :
         send[j].from = "detail" /\ send[k].from = "detail" => j = k
    /\ \A k \in Sends : send[k].from = "detail" => send[k].id = detail.id

(* It shows that request unless the load is still pending ...              *)
ShownIsAddressed ==
  /\ ~detail.overlapped /\ detail.row # None
  /\ \A k \in Sends : send[k].from = "detail" => send[k].action # "open"
  => detail.shown = detail.id

(* ... and the answer it waits for is later than the row it shows.         *)
AnswerIsLater ==
  ~detail.overlapped /\ detail.row # None =>
    \A k \in Sends :
      /\ send[k].from = "detail" /\ send[k].answer # None
      /\ send[k].id = detail.shown /\ detail.shown \notin overtaken
      => Onward(detail.row, send[k].answer)

DetailFits ==
  /\ detail.row # None =>
       Had(detail.row, detail.shown) /\ Sees(Viewer, detail.row)
  /\ detail.failed => detail.row = None
  /\ OneAnswer /\ ShownIsAddressed /\ AnswerIsLater

Told(call) == call.from = "form" /\ call.answer # None

(* The form waits for one call at most, and has made one draft more than   *)
(* those it has lost exactly while an answer that tells of it is coming.   *)
FormFits ==
  /\ form.open => detail.id = None
  /\ \A k \in Sends : send[k].from = "form" => form.open /\ form.submitting
  /\ \A j, k \in Sends : send[j].from = "form" /\ send[k].from = "form" => j = k
  /\ form.made = form.lost + (IF \E k \in Sends : Told(send[k]) THEN 1 ELSE 0)

SendsFit ==
  /\ send \in [Sends -> Send]
  /\ \A k \in Sends : SendFits(send[k])

Shown == RowsFit /\ PagesTyped /\ SendsFit /\ QueueFits /\ DetailFits /\ FormFits

(* What a step of the server, or none, does to the rows.                   *)
Moved ==
  /\ overtaken \subseteq overtaken'
  /\ \A r \in StoredIn(request) :
       /\ r \in StoredIn(request')
       /\ request'[r].account = request[r].account
       /\ past[r] \subseteq past'[r]
       /\ r \notin overtaken' => Onward(request[r], request'[r])

-----------------------------------------------------------------------------
(* The order of the statuses, and whose requests are whose.                *)

LEMMA RankRange == \A status : Rank(status) \in {0, 1, 2}
BY DEF Rank

LEMMA OnwardTransitive ==
  ASSUME NEW a, NEW b, NEW c, Onward(a, b), Onward(b, c)
  PROVE  Onward(a, c)
BY RankRange DEF Onward

(* A decision is the end: only an equal status follows it.                 *)
LEMMA DecisionsFinal ==
  ASSUME NEW a, NEW b, Onward(a, b), a.status \in Decisions
  PROVE  b.status = a.status
<1>1. Rank(a.status) = 2
  BY DEF Rank, Decisions
<1>2. QED
  BY <1>1, RankRange DEF Onward

(* Who may see or decide a request depends on whose it is alone.           *)
LEMMA SameOwner ==
  ASSUME NEW row, NEW old, row.account = old.account
  PROVE  /\ Owner(row) = Owner(old)
         /\ \A actor : Sees(actor, row) <=> Sees(actor, old)
         /\ \A actor : MayDecide(actor, row) <=> MayDecide(actor, old)
BY DEF Owner, Sees, MayDecide, Oversees

(* What the viewer may do to a row, the viewer may see.                    *)
LEMMA PermittedSeen ==
  ASSUME NEW operation, NEW row, Permits(operation, Viewer, row)
  PROVE  Sees(Viewer, row)
BY DEF Permits, Sees, MayDecide, MayCancel

-----------------------------------------------------------------------------
(* The steps of the server.                                                *)

LEMMA Still ==
  ASSUME RowsFit, UNCHANGED rows
  PROVE  RowsFit' /\ Moved /\ request' = request
<1>1. request' = request /\ past' = past /\ overtaken' = overtaken
  BY DEF rows
<1>2. QED
  BY <1>1 DEF RowsFit, Moved, StoredIn, Onward

LEMMA InsertMoves ==
  ASSUME RowsFit, NEW r \in Requests, NEW status \in Statuses, NEW a \in Accounts,
         Insert(r, status, a), UNCHANGED overtaken
  PROVE  /\ RowsFit' /\ Moved /\ r \in StoredIn(request')
         /\ request'[r] = [status |-> status, account |-> a]
<1>1. PICK row : row = [status |-> status, account |-> a]
  OBVIOUS
<1>2. row \in View /\ row # None /\ row.status = status
  BY <1>1, RecordsAssumption DEF View
<1>3. /\ request[r] = None /\ request' = [request EXCEPT ![r] = row]
      /\ past' = [past EXCEPT ![r] = {status}]
  BY <1>1 DEF Insert
<1>4. /\ request'[r] = row /\ past'[r] = {status}
      /\ \A x \in Requests \ {r} : request'[x] = request[x] /\ past'[x] = past[x]
  BY <1>3 DEF RowsFit
<1>5. r \in StoredIn(request') /\ r \notin StoredIn(request)
  BY <1>2, <1>3, <1>4 DEF StoredIn
<1>6. RowsFit'
  BY <1>2, <1>3, <1>4 DEF RowsFit, StoredIn
<1>7. Moved
  BY <1>4, <1>5 DEF Moved, StoredIn, Onward
<1>8. QED
  BY <1>1, <1>4, <1>5, <1>6, <1>7

(* A commit on what the call has read: unless that is no longer the case,  *)
(* the request moves on.                                                   *)
LEMMA CommitMoves ==
  ASSUME RowsFit, NEW r \in Requests, NEW operation \in Operations,
         NEW actor, NEW status,
         CommitInPlace(r, operation, actor, status), Overtakes(r, status)
  PROVE  /\ RowsFit' /\ Moved /\ r \in StoredIn(request')
         /\ request'[r] \in View /\ request'[r] # None
         /\ request'[r].status = Outcome[operation]
         /\ request'[r].account = Seen(r, status).account
<1>1. /\ request[r] # None /\ request[r] \in View /\ r \in StoredIn(request)
      /\ status \in past[r] /\ status \in Statuses
  BY DEF CommitInPlace, RowsFit, StoredIn
<1>2. PICK row : row = Seen(r, Outcome[operation])
  OBVIOUS
<1>3. Outcome[operation] \in Statuses
  BY DEF Outcome, Operations, Statuses
<1>4. /\ row \in View /\ row # None /\ row.status = Outcome[operation]
      /\ row.account = request[r].account
      /\ Seen(r, status).account = request[r].account
      /\ Seen(r, status).status = status
  BY <1>1, <1>2, <1>3, RecordsAssumption DEF Seen, View
<1>5. /\ request' = [request EXCEPT ![r] = row]
      /\ past' = [past EXCEPT ![r] = past[r] \cup {Outcome[operation]}]
  BY <1>2 DEF CommitInPlace
<1>6. /\ request'[r] = row /\ past'[r] = past[r] \cup {Outcome[operation]}
      /\ \A x \in Requests \ {r} : request'[x] = request[x] /\ past'[x] = past[x]
  BY <1>5 DEF RowsFit
<1>7. overtaken \subseteq overtaken' /\ overtaken' \subseteq Requests
  BY DEF Overtakes, RowsFit
<1>8. r \in StoredIn(request')
  BY <1>4, <1>6 DEF StoredIn
<1>9. RowsFit'
  <2>1. past' \in [Requests -> SUBSET Statuses]
    BY <1>3, <1>5 DEF RowsFit
  <2>2. request' \in [Requests -> View \cup {None}]
    BY <1>4, <1>5 DEF RowsFit
  <2>3. \A x \in StoredIn(request') : request'[x].status \in past'[x]
    BY <1>4, <1>6 DEF RowsFit, StoredIn
  <2>4. QED
    BY <1>7, <2>1, <2>2, <2>3 DEF RowsFit
<1>10. status = request[r].status => Onward(request[r], row)
  <2>1. Permits(operation, actor, Seen(r, status)) /\ status # "APPROVED"
    BY DEF CommitInPlace
  <2>2. CASE operation = "submit"
    <3>1. status = "DRAFT" /\ row.status = "SUBMITTED"
      BY <1>4, <2>1, <2>2 DEF Permits, Outcome
    <3>2. QED
      BY <3>1 DEF Onward, Rank
  <2>3. CASE operation # "submit"
    <3>1. /\ status \in {"DRAFT", "SUBMITTED"}
          /\ row.status \in {"APPROVED", "REJECTED", "CANCELLED"}
      BY <1>4, <2>1, <2>3 DEF Permits, MayCancel, Outcome, Operations
    <3>2. QED
      BY <3>1 DEF Onward, Rank
  <2>4. QED
    BY <2>2, <2>3
<1>11. r \notin overtaken' => Onward(request[r], request'[r])
  BY <1>6, <1>10 DEF Overtakes
<1>12. Moved
  <2>1. ASSUME NEW x \in StoredIn(request), x # r
        PROVE  /\ x \in StoredIn(request') /\ request'[x] = request[x]
               /\ past'[x] = past[x]
    BY <1>6, <2>1 DEF StoredIn
  <2>2. QED
    BY <1>4, <1>6, <1>7, <1>8, <1>11, <2>1 DEF Moved, Onward
<1>13. QED
  BY <1>4, <1>6, <1>8, <1>9, <1>12

(* A row a request has had stays one.                                      *)
LEMMA HadOn ==
  ASSUME Moved, NEW row, NEW r, Had(row, r)
  PROVE  Had(row, r)'
BY OnwardTransitive DEF Had, Moved

LEMMA SendFitsOn ==
  ASSUME Moved, NEW c, SendFits(c)
  PROVE  SendFits(c)'
<1>1. \A row, r : Had(row, r) => Had(row, r)'
  BY HadOn
<1>2. \A r \in StoredIn(request) : r \in StoredIn(request')
  BY DEF Moved
<1>3. QED
  BY <1>1, <1>2 DEF SendFits

LEMMA QueueOn ==
  ASSUME Moved, QueueFits, UNCHANGED <<queue, listed>>
  PROVE  QueueFits'
<1>1. ASSUME NEW r \in StoredIn(request)
      PROVE  /\ r \in StoredIn(request')
             /\ MayDecide(Viewer, request[r]) => MayDecide(Viewer, request'[r])
             /\ past[r] \subseteq past'[r]
             /\ r \notin overtaken' /\ request[r].status \in Decisions =>
                  request'[r].status = request[r].status
  BY SameOwner, DecisionsFinal DEF Moved
<1>2. overtaken \subseteq overtaken'
  BY DEF Moved
<1>3. QED
  BY <1>1, <1>2 DEF QueueFits

-----------------------------------------------------------------------------
(* One call changes.                                                       *)

LEMMA ShownFacts ==
  ASSUME Shown
  PROVE  /\ RowsFit /\ PagesTyped /\ SendsFit /\ QueueFits /\ DetailFits /\ FormFits
         /\ send \in [Sends -> Send]
         /\ \A k \in Sends : send[k] \in Send /\ SendFits(send[k])
         /\ \A r \in StoredIn(request) :
              r \in Requests /\ request[r] \in View /\ r # None
<1>1. None \notin Requests
  BY RecordsAssumption
<1>2. QED
  BY <1>1 DEF Shown, RowsFit, SendsFit, StoredIn

LEMMA UnsentCall ==
  /\ Unsent \in Send /\ Unsent.answer = None /\ Unsent.from = "off"
  /\ SendFits(Unsent)
BY DEF Unsent, Send, SendFits

(* The row of the detail page stays one its request has had.               *)
LEMMA DetailOn ==
  ASSUME Moved, DetailFits, detail.row # None
  PROVE  Had(detail.row, detail.shown)' \/ detail' # detail
<1>1. PICK row, r : row = detail.row /\ r = detail.shown
  OBVIOUS
<1>2. Had(row, r)'
  BY <1>1, HadOn DEF DetailFits
<1>3. QED
  BY <1>1, <1>2 DEF Had

(* Unless a call of it begins or ends, or is answered by an older row, the *)
(* detail page stays consistent.                                           *)
LEMMA DetailSends ==
  ASSUME Moved, DetailFits, detail' = detail,
         \A j \in Sends : send'[j].from = "detail" <=> send[j].from = "detail",
         \A j \in Sends : send[j].from = "detail" =>
           send'[j].id = send[j].id /\ send'[j].action = send[j].action,
         \A j \in Sends : send[j].from = "detail" =>
           send'[j].answer \in {None, send[j].answer, request'[send[j].id]}
  PROVE  DetailFits'
<1>1. overtaken \subseteq overtaken'
  BY DEF Moved
<1>2. detail.row # None => Had(detail.row, detail.shown)'
  BY DetailOn
<1>3. OneAnswer' /\ ShownIsAddressed'
  BY DEF DetailFits, OneAnswer, ShownIsAddressed
<1>4. AnswerIsLater'
  <2>1. SUFFICES ASSUME ~detail.overlapped, detail.row # None, NEW j \in Sends,
                        send'[j].from = "detail", send'[j].answer # None,
                        send'[j].id = detail.shown, detail.shown \notin overtaken'
                 PROVE  Onward(detail.row, send'[j].answer)
    BY DEF AnswerIsLater
  <2>2. CASE send'[j].answer = send[j].answer
    BY <1>1, <2>1, <2>2 DEF DetailFits, AnswerIsLater
  <2>3. CASE send'[j].answer = request'[send[j].id]
    BY <1>2, <2>1, <2>3 DEF Had
  <2>4. QED
    BY <2>1, <2>2, <2>3
<1>5. QED
  BY <1>2, <1>3, <1>4 DEF DetailFits, Sees

(* Nor does the form change but by its own calls.                          *)
LEMMA FormSends ==
  ASSUME FormFits, form' = form, detail'.id = detail.id,
         \A j \in Sends : send'[j].from = "form" <=> send[j].from = "form",
         \A j \in Sends : send[j].from = "form" => send'[j].answer = send[j].answer
  PROVE  FormFits'
<1>1. \A j \in Sends : Told(send'[j]) <=> Told(send[j])
  BY DEF Told
<1>2. QED
  BY <1>1 DEF FormFits

(* A step that puts c in place of call k, and what is left to show.        *)
LEMMA OneSend ==
  ASSUME Shown, RowsFit', Moved, NEW k \in Sends, NEW c \in Send,
         send' = [send EXCEPT ![k] = c], SendFits(c)',
         PagesTyped', QueueFits', DetailFits', FormFits'
  PROVE  Shown'
<1>1. send \in [Sends -> Send] /\ \A j \in Sends : SendFits(send[j])
  BY ShownFacts
<1>2. /\ send' \in [Sends -> Send] /\ send'[k] = c
      /\ \A j \in Sends \ {k} : send'[j] = send[j]
  BY <1>1
<1>3. ASSUME NEW j \in Sends PROVE SendFits(send[j])'
  <2>1. PICK d : d = send'[j]
    OBVIOUS
  <2>2. SendFits(d)'
    BY <1>1, <1>2, <2>1, SendFitsOn
  <2>3. QED
    BY <2>1, <2>2 DEF SendFits
<1>4. QED
  BY <1>2, <1>3 DEF Shown, SendsFit

-----------------------------------------------------------------------------
(* Going from page to page.                                                *)

LEMMA FreshForms ==
  /\ Blank \in Form /\ NoForm \in Form
  /\ Blank.made = 0 /\ Blank.lost = 0 /\ NoForm.made = 0 /\ NoForm.lost = 0
  /\ NoForm.open = FALSE
BY DEF Blank, NoForm, Form

LEMMA FreshDetail ==
  ASSUME NEW x \in Requests \cup {None}
  PROVE  LET d == Fresh(x) IN
         /\ d \in Detail /\ d.id = x /\ d.shown = None /\ d.row = None
         /\ d.overlapped = FALSE /\ d.failed = FALSE
BY DEF Fresh, Detail

LEMMA DepartedFits ==
  ASSUME NEW c \in Send, SendFits(c)
  PROVE  /\ Departed(c) \in Send /\ SendFits(Departed(c))
         /\ Departed(c).from \in {"off", "left"}
<1>1. CASE c.from = "form"
  <2>1. PICK d : d = [c EXCEPT !.from = "left"]
    OBVIOUS
  <2>2. /\ d \in Send /\ d.from = "left" /\ d.action = c.action /\ d.id = c.id
        /\ d.seen = c.seen /\ d.answer = c.answer /\ Departed(c) = d
    BY <1>1, <2>1 DEF Send, Departed
  <2>3. SendFits(d)
    BY <1>1, <2>2 DEF SendFits
  <2>4. QED
    BY <2>2, <2>3
<1>2. CASE c.from = "left"
  BY <1>2 DEF Departed
<1>3. CASE c.from \notin {"form", "left"}
  BY <1>3, UnsentCall DEF Departed
<1>4. QED
  BY <1>1, <1>2, <1>3

LEMMA CleanupFits ==
  ASSUME NEW c \in Send, SendFits(c)
  PROVE  /\ Cleanup(c) \in Send /\ SendFits(Cleanup(c))
         /\ Cleanup(c).from = "detail" => Pressed(c)
         /\ Cleanup(c).from = "form" => c.from = "form"
BY UnsentCall DEF Cleanup, Pressed

LEMMA LoadFits ==
  ASSUME NEW r \in StoredIn(request), r \in Requests
  PROVE  /\ Loading(r) \in Send /\ SendFits(Loading(r))
         /\ Loading(r).from = "detail" /\ Loading(r).action = "open"
         /\ Loading(r).id = r /\ Loading(r).answer = None
BY DEF Loading, Calling, Unsent, Send, SendFits

(* Another page: what is in flight is not for it, but for its own load.    *)
LEMMA MountShown ==
  ASSUME Shown, UNCHANGED rows,
         NEW x \in Requests \cup {None}, NEW newForm \in {Blank, NoForm},
         Mount(Fresh(x), newForm),
         x # None => newForm = NoForm,
         send' \in [Sends -> Send],
         \A j \in Sends : SendFits(send'[j]) /\ send'[j].from # "form",
         \A j, k \in Sends :
           send'[j].from = "detail" /\ send'[k].from = "detail" => j = k,
         \A j \in Sends : send'[j].from = "detail" => send'[j].id = x,
         \/ listed' = None
         \/ \A r \in listed' :
              r \in StoredIn(request) /\ MayDecide(Viewer, request[r])
  PROVE  Shown'
<1>1. RowsFit' /\ Moved /\ request' = request
  BY ShownFacts, Still
<1>2. /\ queue' = [r \in Requests |-> Absent]
      /\ detail' = Fresh(x) /\ form' = newForm
  BY DEF Mount, NoQueue
<1>3. /\ detail' \in Detail /\ detail'.id = x /\ detail'.shown = None
      /\ detail'.row = None /\ detail'.failed = FALSE
  BY <1>2, FreshDetail
<1>4. SendsFit'
  <2>1. ASSUME NEW j \in Sends PROVE SendFits(send[j])'
    <3>1. PICK c : c = send'[j] /\ SendFits(c)
      OBVIOUS
    <3>2. SendFits(c)'
      BY <1>1, <3>1, SendFitsOn
    <3>3. QED
      BY <3>1, <3>2 DEF SendFits
  <2>2. QED
    BY <2>1 DEF SendsFit
<1>5. QueueFits'
  BY <1>1, <1>2 DEF QueueFits, Absent, MayDecide
<1>6. PagesTyped'
  <2>1. queue' \in [Requests -> QueueRow]
    BY <1>2 DEF Absent, QueueRow
  <2>2. listed' = None \/ listed' \subseteq Requests
    BY DEF StoredIn
  <2>3. form' \in Form
    BY <1>2, FreshForms
  <2>4. QED
    BY <1>3, <2>1, <2>2, <2>3 DEF PagesTyped
<1>7. DetailFits'
  BY <1>3 DEF DetailFits, OneAnswer, ShownIsAddressed, AnswerIsLater
<1>8. FormFits'
  <2>1. form'.open => detail'.id = None
    BY <1>2, <1>3, FreshForms
  <2>2. form'.made = 0 /\ form'.lost = 0
    BY <1>2, FreshForms
  <2>3. ~\E k \in Sends : Told(send'[k])
    BY DEF Told
  <2>4. QED
    BY <2>1, <2>2, <2>3 DEF FormFits
<1>9. QED
  BY <1>1, <1>4, <1>5, <1>6, <1>7, <1>8 DEF Shown

LEMMA LeaveShown ==
  ASSUME Shown, OpenForm \/ OpenQueue
  PROVE  Shown' /\ detail'.row = None
<1>1. PICK newForm \in {Blank, NoForm} :
        /\ Mount(Closed, newForm) /\ UNCHANGED rows
        /\ send' = [j \in Sends |-> Departed(send[j])]
        /\ \/ listed' = None
           \/ listed' = {r \in Listing : /\ request[r].status = "SUBMITTED"
                                         /\ Owner(request[r]) # Viewer}
  BY DEF OpenForm, OpenQueue
<1>3. /\ send' \in [Sends -> Send]
      /\ \A j \in Sends : SendFits(send'[j]) /\ send'[j].from \in {"off", "left"}
  BY <1>1, ShownFacts, DepartedFits
<1>4. \/ listed' = None
      \/ \A r \in listed' :
           r \in StoredIn(request) /\ MayDecide(Viewer, request[r])
  BY <1>1 DEF Listing, Sees, MayDecide
<1>5. Mount(Fresh(None), newForm)
  BY <1>1 DEF Closed
<1>6. Shown'
  BY <1>1, <1>3, <1>4, <1>5, MountShown
<1>7. QED
  BY <1>5, <1>6, FreshDetail DEF Mount

(* From one request to the next the page keeps its row and its presses.    *)
LEMMA ShowDetailShown ==
  ASSUME Shown, UNCHANGED rows, NEW k \in Sends, NEW r \in StoredIn(request),
         ShowDetail(k, r)
  PROVE  /\ Shown'
         /\ \/ detail'.row = None
            \/ detail'.shown = detail.shown /\ detail'.row = detail.row
<1>1. /\ RowsFit /\ PagesTyped /\ QueueFits /\ DetailFits /\ FormFits
      /\ send \in [Sends -> Send] /\ r \in Requests /\ r # None
      /\ \A j \in Sends : send[j] \in Send /\ SendFits(send[j])
  BY ShownFacts
<1>2. /\ Loading(r) \in Send /\ SendFits(Loading(r))
      /\ Loading(r).from = "detail" /\ Loading(r).action = "open"
      /\ Loading(r).id = r /\ Loading(r).answer = None
  BY <1>1, LoadFits
<1>3. CASE /\ detail.id = None
           /\ Mount(Fresh(r), NoForm)
           /\ listed' = None
           /\ send' = [[j \in Sends |-> Departed(send[j])]
                         EXCEPT ![k] = Loading(r)]
  <2>1. \A j \in Sends : /\ Departed(send[j]) \in Send
                         /\ SendFits(Departed(send[j]))
                         /\ Departed(send[j]).from \in {"off", "left"}
    BY <1>1, DepartedFits
  <2>2. /\ send' \in [Sends -> Send] /\ send'[k] = Loading(r)
        /\ \A j \in Sends \ {k} : send'[j] = Departed(send[j])
    BY <1>2, <1>3, <2>1
  <2>3. /\ \A j \in Sends : SendFits(send'[j]) /\ send'[j].from # "form"
        /\ \A i, j \in Sends :
             send'[i].from = "detail" /\ send'[j].from = "detail" => i = j
        /\ \A j \in Sends : send'[j].from = "detail" => send'[j].id = r
    BY <1>2, <2>1, <2>2
  <2>4. Shown'
    BY <1>1, <1>3, <2>2, <2>3, MountShown
  <2>5. detail'.row = None
    BY <1>1, <1>3, FreshDetail DEF Mount
  <2>6. QED
    BY <2>4, <2>5
<1>4. CASE /\ detail.id \notin {None, r}
           /\ detail' = [detail EXCEPT !.id = r, !.overlapped =
                  detail.overlapped \/ \E j \in Sends : Pressed(send[j])]
           /\ send' = [[j \in Sends |-> Cleanup(send[j])] EXCEPT ![k] = Loading(r)]
           /\ UNCHANGED <<queue, listed, form>>
  <2>1. \A j \in Sends : /\ Cleanup(send[j]) \in Send
                         /\ SendFits(Cleanup(send[j]))
                         /\ Cleanup(send[j]).from = "detail" => Pressed(send[j])
                         /\ Cleanup(send[j]).from = "form" => send[j].from = "form"
    BY <1>1, CleanupFits
  <2>2. /\ send' \in [Sends -> Send] /\ send'[k] = Loading(r)
        /\ \A j \in Sends \ {k} : send'[j] = Cleanup(send[j])
    BY <1>2, <1>4, <2>1
  <2>3. RowsFit' /\ Moved
    BY <1>1, Still
  <2>4. SendsFit'
    <3>1. ASSUME NEW j \in Sends PROVE SendFits(send[j])'
      <4>1. PICK c : c = send'[j] /\ SendFits(c)
        BY <1>2, <2>1, <2>2
      <4>2. SendFits(c)'
        BY <2>3, <4>1, SendFitsOn
      <4>3. QED
        BY <4>1, <4>2 DEF SendFits
    <3>2. QED
      BY <2>2, <3>1 DEF SendsFit
  <2>5. QueueFits'
    BY <1>1, <1>4, <2>3, QueueOn
  <2>6. /\ detail' \in Detail /\ detail'.id = r
        /\ detail'.shown = detail.shown /\ detail'.row = detail.row
        /\ detail'.failed = detail.failed
        /\ ~detail'.overlapped =>
             ~detail.overlapped /\ \A j \in Sends : ~Pressed(send[j])
    <3>1. PICK b \in BOOLEAN :
            /\ b = (detail.overlapped \/ \E j \in Sends : Pressed(send[j]))
            /\ detail' = [detail EXCEPT !.id = r, !.overlapped = b]
      BY <1>1, <1>4 DEF PagesTyped, Detail
    <3>2. detail \in Detail
      BY <1>1 DEF PagesTyped
    <3>3. QED
      BY <1>1, <3>1, <3>2 DEF Detail
  <2>7. PagesTyped'
    BY <1>1, <1>4, <2>6 DEF PagesTyped
  <2>8. detail.row # None => Had(detail.row, detail.shown)' /\ Sees(Viewer, detail.row)
    <3>1. PICK row, s : row = detail.row /\ s = detail.shown
      OBVIOUS
    <3>2. detail.row # None => Had(row, s)'
      BY <1>1, <2>3, <3>1, HadOn DEF DetailFits
    <3>3. QED
      BY <1>1, <2>6, <3>1, <3>2 DEF Had, DetailFits
  <2>9. ~detail'.overlapped => \A j \in Sends : send'[j].from = "detail" => j = k
    BY <2>1, <2>2, <2>6
  <2>10. OneAnswer'
    BY <1>2, <2>2, <2>6, <2>9 DEF OneAnswer
  <2>11. ShownIsAddressed' /\ AnswerIsLater'
    BY <1>2, <2>2, <2>9 DEF ShownIsAddressed, AnswerIsLater
  <2>12. DetailFits'
    BY <1>1, <2>6, <2>8, <2>10, <2>11 DEF DetailFits, Had, Sees
  <2>13. FormFits'
    <3>1. \A j \in Sends : send[j].from # "form"
      BY <1>1, <1>4 DEF FormFits
    <3>2. \A j \in Sends : send'[j].from # "form"
      BY <1>2, <2>1, <2>2, <3>1
    <3>3. QED
      BY <1>1, <1>4, <3>1, <3>2 DEF FormFits, Told
  <2>14. QED
    BY <2>3, <2>4, <2>5, <2>6, <2>7, <2>12, <2>13 DEF Shown
<1>5. QED
  BY <1>3, <1>4 DEF ShowDetail

-----------------------------------------------------------------------------
(* The steps of the approvals queue.                                       *)

(* Only the rows change, or the list arrives.                              *)
LEMMA SendsStill ==
  ASSUME Shown, RowsFit', Moved, PagesTyped', QueueFits',
         UNCHANGED <<detail, form, send>>
  PROVE  Shown'
<1>1. SendsFit /\ DetailFits /\ FormFits
  BY ShownFacts
<1>2. SendsFit'
  <2>1. ASSUME NEW j \in Sends PROVE SendFits(send[j])'
    <3>1. PICK c : c = send[j] /\ SendFits(c)
      BY <1>1 DEF SendsFit
    <3>2. SendFits(c)'
      BY <3>1, SendFitsOn
    <3>3. QED
      BY <3>1, <3>2 DEF SendFits
  <2>2. QED
    BY <1>1, <2>1 DEF SendsFit
<1>3. DetailFits'
  BY <1>1, DetailSends
<1>4. FormFits'
  BY <1>1, FormSends
<1>5. QED
  BY <1>2, <1>3, <1>4 DEF Shown

LEMMA PagesStill ==
  ASSUME Shown, RowsFit', Moved, UNCHANGED pages
  PROVE  Shown'
<1>1. UNCHANGED <<queue, listed, detail, form, send>>
  BY DEF pages
<1>2. PagesTyped' /\ QueueFits'
  BY <1>1, ShownFacts, QueueOn DEF PagesTyped
<1>3. QED
  BY <1>1, <1>2, SendsStill

LEMMA ShowQueueShown ==
  ASSUME Shown, ShowQueue
  PROVE  Shown'
<1>1. RowsFit' /\ Moved /\ request' = request
  BY ShownFacts, Still DEF ShowQueue
<1>2. /\ listed # None /\ listed' = None
      /\ queue' = [r \in Requests |-> IF r \in listed THEN Waiting ELSE Absent]
      /\ UNCHANGED <<detail, form, send>>
  BY DEF ShowQueue
<1>3. PagesTyped'
  BY <1>2, ShownFacts DEF PagesTyped, Waiting, Absent, QueueRow, Statuses
<1>4. QueueFits'
  BY <1>1, <1>2, ShownFacts DEF QueueFits, Waiting, Absent, MayDecide
<1>5. QED
  BY <1>1, <1>2, <1>3, <1>4, SendsStill

(* A step of one call that is not of the detail page and not of the form.  *)
LEMMA QueueCall ==
  ASSUME Shown, UNCHANGED <<request, past, overtaken, detail, form>>,
         NEW k \in Sends, NEW c \in Send, send' = [send EXCEPT ![k] = c],
         SendFits(c), c.from \notin {"detail", "form"},
         send[k].from \notin {"detail", "form"},
         PagesTyped', QueueFits'
  PROVE  Shown'
<1>1. RowsFit' /\ Moved
  BY ShownFacts, Still DEF rows
<1>2. send'[k] = c /\ \A j \in Sends \ {k} : send'[j] = send[j]
  BY ShownFacts
<1>3. SendFits(c)'
  BY <1>1, SendFitsOn
<1>4. DetailFits'
  BY <1>1, <1>2, ShownFacts, DetailSends
<1>5. FormFits'
  BY <1>2, ShownFacts, FormSends
<1>6. QED
  BY <1>1, <1>3, <1>4, <1>5, OneSend

LEMMA DecideShown ==
  ASSUME Shown, NEW k \in Sends, NEW r \in Requests, NEW action,
         Decide(k, r, action)
  PROVE  Shown'
<1>1. PICK c : c = Calling("queue", action, r)
  OBVIOUS
<1>2. /\ queue[r].kind = "pending" /\ action \in {"approve", "reject"}
      /\ send[k] = Unsent /\ send' = [send EXCEPT ![k] = c]
      /\ UNCHANGED <<request, past, overtaken, queue, listed, detail, form>>
  BY <1>1 DEF Decide, rows
<1>3. /\ c \in Send /\ c.from = "queue" /\ c.action = action /\ c.id = r
      /\ c.seen = None /\ c.answer = None
  BY <1>1, <1>2 DEF Calling, Unsent, Send, Operations
<1>4. r \in StoredIn(request)
  BY <1>2, ShownFacts DEF QueueFits
<1>5. SendFits(c)
  BY <1>2, <1>3, <1>4 DEF SendFits
<1>6. PagesTyped' /\ QueueFits'
  BY <1>2, ShownFacts DEF PagesTyped, QueueFits, StoredIn, MayDecide
<1>7. QED
  BY <1>2, <1>3, <1>5, <1>6, UnsentCall, QueueCall

LEMMA EndDecideShown ==
  ASSUME Shown, NEW k \in Sends, EndDecide(k)
  PROVE  Shown'
<1>1. /\ send[k].from = "queue" /\ send[k].answer # None
      /\ queue' = [queue EXCEPT ![send[k].id] = ShownAfter(send[k])]
      /\ send' = [send EXCEPT ![k] = Unsent]
      /\ UNCHANGED <<request, past, overtaken, listed, detail, form>>
  BY DEF EndDecide, rows
<1>2. PICK r, row : r = send[k].id /\ row = send[k].answer
  OBVIOUS
<1>3. /\ r \in StoredIn(request) /\ r \in Requests /\ row \in View
      /\ row.status \in Decisions /\ Had(row, r)
  BY <1>1, <1>2, ShownFacts DEF SendFits, Send
<1>4. queue[r].kind = "pending" =>
        ShownAfter(send[k]) = Decided(row.status)
  BY <1>2 DEF ShownAfter
<1>5. queue[r].kind # "pending" => queue' = queue
  BY <1>1, <1>2, <1>3, ShownFacts DEF ShownAfter, PagesTyped
<1>6. /\ Decided(row.status) \in QueueRow
      /\ Decided(row.status).kind = "decided"
      /\ Decided(row.status).status = row.status
  BY <1>3 DEF Decided, QueueRow, View
<1>7. r \notin overtaken => row.status = request[r].status
  BY <1>3, DecisionsFinal DEF Had
<1>8. /\ queue[r].kind = "pending" =>
           /\ queue' \in [Requests -> QueueRow]
           /\ queue'[r].kind = "decided" /\ queue'[r].status = row.status
           /\ \A x \in Requests \ {r} : queue'[x] = queue[x]
  BY <1>1, <1>2, <1>3, <1>4, <1>6, ShownFacts DEF PagesTyped
<1>9. PagesTyped'
  BY <1>1, <1>5, <1>8, ShownFacts DEF PagesTyped
<1>10. QueueFits'
  <2>1. CASE queue[r].kind = "pending"
    <3>1. ASSUME NEW x \in Requests
          PROVE  /\ queue'[x].kind # "absent" =>
                      x \in StoredIn(request) /\ MayDecide(Viewer, request[x])
                 /\ queue'[x].kind = "decided" =>
                      /\ queue'[x].status \in Decisions \cap past[x]
                      /\ x \notin overtaken =>
                           queue'[x].status = request[x].status
      BY <1>3, <1>7, <1>8, <2>1, ShownFacts DEF QueueFits, Had
    <3>2. QED
      BY <1>1, <3>1, ShownFacts DEF QueueFits, MayDecide, StoredIn
  <2>2. CASE queue' = queue
    BY <1>1, <2>2, ShownFacts DEF QueueFits, MayDecide, StoredIn
  <2>3. QED
    BY <1>5, <2>1, <2>2
<1>11. QED
  BY <1>1, <1>9, <1>10, UnsentCall, QueueCall

LEMMA FailDecideShown ==
  ASSUME Shown, NEW k \in Sends, FailDecide(k)
  PROVE  Shown'
<1>1. /\ send[k].from = "queue" /\ queue' = [r \in Requests |-> Absent]
      /\ send' = [send EXCEPT ![k] = Unsent]
      /\ UNCHANGED <<request, past, overtaken, listed, detail, form>>
  BY DEF FailDecide, NoQueue, rows
<1>2. PagesTyped'
  BY <1>1, ShownFacts DEF PagesTyped, Absent, QueueRow
<1>3. QueueFits'
  BY <1>1, ShownFacts DEF QueueFits, Absent, MayDecide, StoredIn
<1>4. QED
  BY <1>1, <1>2, <1>3, UnsentCall, QueueCall

-----------------------------------------------------------------------------
(* The steps of the detail page.                                           *)

(* A step that changes the detail page and one call of it.                 *)
LEMMA DetailCall ==
  ASSUME Shown, UNCHANGED <<request, past, overtaken, queue, listed, form>>,
         NEW k \in Sends, NEW c \in Send, send' = [send EXCEPT ![k] = c],
         SendFits(c), c.from # "form", send[k].from # "form",
         detail' \in Detail, detail'.shown = None <=> detail'.row = None,
         detail'.id = detail.id, DetailFits'
  PROVE  Shown'
<1>1. RowsFit' /\ Moved
  BY ShownFacts, Still DEF rows
<1>2. send'[k] = c /\ \A j \in Sends \ {k} : send'[j] = send[j]
  BY ShownFacts
<1>3. SendFits(c)' /\ PagesTyped' /\ QueueFits'
  BY <1>1, ShownFacts, SendFitsOn, QueueOn DEF PagesTyped
<1>4. FormFits'
  BY <1>2, ShownFacts, FormSends
<1>5. QED
  BY <1>1, <1>3, <1>4, OneSend

LEMMA PressShown ==
  ASSUME Shown, NEW k \in Sends, NEW action \in Operations, Press(k, action)
  PROVE  Shown' /\ detail'.shown = detail.shown /\ detail'.row = detail.row
<1>1. PICK c, r : c = Calling("detail", action, r) /\ r = detail.shown
  OBVIOUS
<1>2. PICK b \in BOOLEAN :
        b = (detail.overlapped \/ \E j \in Sends : send[j].from = "detail")
  BY ShownFacts DEF PagesTyped, Detail
<1>3. /\ action \in Offered /\ send[k] = Unsent
      /\ send' = [send EXCEPT ![k] = c]
      /\ detail' = [detail EXCEPT !.overlapped = b]
      /\ UNCHANGED <<request, past, overtaken, queue, listed, form>>
  BY <1>1, <1>2 DEF Press, rows
<1>4. /\ detail \in Detail /\ DetailFits /\ send \in [Sends -> Send]
      /\ detail.shown = None <=> detail.row = None
  BY ShownFacts DEF PagesTyped
<1>5. /\ detail' \in Detail /\ detail'.overlapped = b
      /\ detail'.id = detail.id /\ detail'.shown = detail.shown
      /\ detail'.row = detail.row /\ detail'.failed = detail.failed
  BY <1>3, <1>4 DEF Detail
<1>6. detail.row # None /\ r \in StoredIn(request) /\ r \in Requests
  BY <1>1, <1>3, <1>4, ShownFacts DEF Offered, DetailFits, Had
<1>7. /\ c \in Send /\ c.from = "detail" /\ c.id = r /\ c.action = action
      /\ c.seen = None /\ c.answer = None
  BY <1>1, <1>6 DEF Calling, Unsent, Send
<1>8. SendFits(c)
  BY <1>6, <1>7 DEF SendFits
<1>9. send'[k] = c /\ \A j \in Sends \ {k} : send'[j] = send[j]
  BY <1>3, <1>4
<1>10. DetailFits'
  <2>1. ~b => /\ ~detail.overlapped
              /\ \A j \in Sends : send[j].from # "detail"
    BY <1>2
  <2>2. ~b => r = detail.id
    BY <1>1, <1>4, <1>6, <2>1 DEF DetailFits, ShownIsAddressed
  <2>3. OneAnswer' /\ ShownIsAddressed' /\ AnswerIsLater'
    BY <1>1, <1>5, <1>7, <1>9, <2>1, <2>2
       DEF OneAnswer, ShownIsAddressed, AnswerIsLater
  <2>4. QED
    BY <1>3, <1>4, <1>5, <2>3 DEF DetailFits, Had, Sees, StoredIn
<1>11. Shown'
  BY <1>3, <1>4, <1>5, <1>7, <1>8, <1>10, UnsentCall, DetailCall
<1>12. QED
  BY <1>5, <1>11

(* A call of the detail page ends.                                         *)
LEMMA EndedCall ==
  ASSUME Shown, NEW k \in Sends, send[k].from = "detail",
         send' = [send EXCEPT ![k] = Unsent],
         ~detail.overlapped
  PROVE  \A j \in Sends : send'[j].from # "detail"
<1>1. /\ send'[k] = Unsent /\ \A j \in Sends \ {k} : send'[j] = send[j]
      /\ OneAnswer
  BY ShownFacts DEF DetailFits
<1>2. QED
  BY <1>1, UnsentCall DEF OneAnswer

(* Nothing is shown, or the answer, which belongs there and is no older,   *)
(* unless presses overlapped or the request was written over.              *)
LEMMA EndDetailShown ==
  ASSUME Shown, NEW k \in Sends, EndDetail(k)
  PROVE  /\ Shown'
         /\ detail'.row # None /\ ~detail'.overlapped =>
              /\ detail'.shown = detail'.id
              /\ detail.shown = detail'.shown /\ detail.shown \notin overtaken
                   => Onward(detail.row, detail'.row)
<1>1. PICK r, row : r = send[k].id /\ row = send[k].answer
  OBVIOUS
<1>2. /\ send[k].from = "detail" /\ row # None
      /\ detail' = IF detail.failed
                   THEN detail
                   ELSE [detail EXCEPT !.shown = r, !.row = row]
      /\ send' = [send EXCEPT ![k] = Unsent]
      /\ UNCHANGED <<request, past, overtaken, queue, listed, form>>
  BY <1>1 DEF EndDetail, rows
<1>3. /\ detail \in Detail /\ DetailFits /\ send \in [Sends -> Send]
      /\ detail.shown = None <=> detail.row = None
      /\ detail.failed \in BOOLEAN
  BY ShownFacts DEF PagesTyped, Detail
<1>4. /\ r \in StoredIn(request) /\ r \in Requests /\ r # None
      /\ row \in View /\ Had(row, r) /\ Sees(Viewer, row)
  BY <1>1, <1>2, ShownFacts DEF SendFits, Send
<1>5. CASE detail.failed
  <2>1. detail' = detail /\ detail.row = None
    BY <1>2, <1>3, <1>5 DEF DetailFits
  <2>2. ~detail.overlapped => \A j \in Sends : send'[j].from # "detail"
    BY <1>2, EndedCall
  <2>3. DetailFits'
    BY <2>1, <2>2 DEF DetailFits, OneAnswer, ShownIsAddressed, AnswerIsLater
  <2>4. QED
    BY <1>2, <1>3, <2>1, <2>3, UnsentCall, DetailCall
<1>6. CASE ~detail.failed
  <2>1. /\ detail' \in Detail /\ detail'.shown = r /\ detail'.row = row
        /\ detail'.id = detail.id /\ detail'.failed = FALSE
        /\ detail'.overlapped = detail.overlapped
    BY <1>2, <1>3, <1>4, <1>6 DEF Detail
  <2>2. ~detail.overlapped => r = detail.id
    BY <1>1, <1>2, <1>3 DEF DetailFits, OneAnswer
  <2>3. ~detail.overlapped => \A j \in Sends : send'[j].from # "detail"
    BY <1>2, EndedCall
  <2>4. OneAnswer' /\ ShownIsAddressed' /\ AnswerIsLater'
    BY <2>1, <2>2, <2>3 DEF OneAnswer, ShownIsAddressed, AnswerIsLater
  <2>5. DetailFits'
    BY <1>2, <1>4, <2>1, <2>4 DEF DetailFits, Had, Sees, StoredIn
  <2>6. Shown'
    BY <1>2, <1>3, <1>4, <2>1, <2>5, UnsentCall, DetailCall
  <2>7. ~detail.overlapped /\ detail.shown = r /\ r \notin overtaken
          => Onward(detail.row, row)
    BY <1>1, <1>2, <1>3, <1>4 DEF DetailFits, AnswerIsLater
  <2>8. QED
    BY <2>1, <2>2, <2>6, <2>7
<1>7. QED
  BY <1>3, <1>5, <1>6

LEMMA FailDetailShown ==
  ASSUME Shown, NEW k \in Sends, FailDetail(k)
  PROVE  Shown' /\ detail'.row = None
<1>1. /\ send[k].from = "detail"
      /\ detail' = [detail EXCEPT !.shown = None, !.row = None, !.failed = TRUE]
      /\ send' = [send EXCEPT ![k] = Unsent]
      /\ UNCHANGED <<request, past, overtaken, queue, listed, form>>
  BY DEF FailDetail, rows
<1>2. /\ detail' \in Detail /\ detail'.shown = None /\ detail'.row = None
      /\ detail'.id = detail.id /\ detail'.overlapped = detail.overlapped
  BY <1>1, ShownFacts DEF PagesTyped, Detail
<1>3. ~detail.overlapped => \A j \in Sends : send'[j].from # "detail"
  BY <1>1, EndedCall
<1>4. DetailFits'
  BY <1>2, <1>3 DEF DetailFits, OneAnswer, ShownIsAddressed, AnswerIsLater
<1>5. QED
  BY <1>1, <1>2, <1>4, UnsentCall, DetailCall

-----------------------------------------------------------------------------
(* The steps of the request form.                                          *)

LEMMA SubmitFormShown ==
  ASSUME Shown, NEW k \in Sends, SubmitForm(k)
  PROVE  Shown'
<1>1. /\ form.open /\ ~form.submitting /\ send[k] = Unsent
      /\ form' = [form EXCEPT !.submitting = TRUE]
      /\ send' = [send EXCEPT ![k] = Creating]
      /\ UNCHANGED <<queue, listed, detail>> /\ UNCHANGED rows
  BY DEF SubmitForm, rows
<1>2. RowsFit' /\ Moved
  BY <1>1, ShownFacts, Still
<1>3. /\ Creating \in Send /\ Creating.from = "form" /\ Creating.answer = None
      /\ Creating.action = "create" /\ Creating.seen = None
  BY DEF Creating, Calling, Unsent, Send
<1>4. SendFits(Creating)'
  BY <1>3 DEF SendFits
<1>5. /\ form' \in Form /\ form'.open = form.open /\ form'.submitting = TRUE
      /\ form'.made = form.made /\ form'.lost = form.lost
  BY <1>1, ShownFacts DEF PagesTyped, Form
<1>6. PagesTyped' /\ QueueFits'
  BY <1>1, <1>2, <1>5, ShownFacts, QueueOn DEF PagesTyped
<1>7. send'[k] = Creating /\ \A j \in Sends \ {k} : send'[j] = send[j]
  BY <1>1, ShownFacts
<1>8. DetailFits'
  BY <1>1, <1>2, <1>3, <1>7, ShownFacts, UnsentCall, DetailSends
<1>9. FormFits'
  <2>1. \A j \in Sends : send[j].from # "form"
    BY <1>1, ShownFacts DEF FormFits
  <2>2. \A j \in Sends : ~Told(send[j]) /\ ~Told(send'[j])
    BY <1>3, <1>7, <2>1 DEF Told
  <2>3. form.made = form.lost + 0
    BY <2>2, ShownFacts DEF FormFits
  <2>4. form'.made = form'.lost + 0
    BY <1>5, <2>3
  <2>5. QED
    BY <1>1, <1>5, <1>7, <2>1, <2>2, <2>4, ShownFacts DEF FormFits
<1>10. QED
  BY <1>1, <1>2, <1>3, <1>4, <1>6, <1>8, <1>9, OneSend

LEMMA EndCreateShown ==
  ASSUME Shown, NEW k \in Sends, EndCreate(k)
  PROVE  /\ Shown'
         /\ \/ detail'.row = None
            \/ detail'.shown = detail.shown /\ detail'.row = detail.row
<1>1. /\ send[k].from \in {"form", "left"} /\ send[k].answer # None
      /\ UNCHANGED rows
      /\ UNCHANGED <<request, past, overtaken>>
  BY DEF EndCreate, rows
<1>2. send[k].id \in StoredIn(request) /\ send[k].id # None
  BY <1>1, ShownFacts DEF SendFits, Had
<1>3. CASE ShowDetail(k, send[k].id)
  BY <1>1, <1>2, <1>3, ShowDetailShown
<1>4. CASE /\ detail.id = send[k].id
           /\ send' = [send EXCEPT ![k] = Unsent]
           /\ UNCHANGED <<queue, listed, detail, form>>
  <2>1. send[k].from = "left"
    BY <1>1, <1>2, <1>4, ShownFacts DEF FormFits
  <2>2. PagesTyped' /\ QueueFits'
    BY <1>1, <1>4, ShownFacts DEF PagesTyped, QueueFits, MayDecide, StoredIn
  <2>3. QED
    BY <1>1, <1>4, <2>1, <2>2, UnsentCall, QueueCall
<1>5. QED
  BY <1>3, <1>4 DEF EndCreate

LEMMA FailCreateShown ==
  ASSUME Shown, NEW k \in Sends, FailCreate(k)
  PROVE  Shown'
<1>1. /\ send' = [send EXCEPT ![k] = Unsent]
      /\ UNCHANGED <<request, past, overtaken, queue, listed, detail>>
      /\ UNCHANGED rows
  BY DEF FailCreate, rows
<1>2. CASE send[k].from = "left" /\ form' = form
  <2>1. PagesTyped' /\ QueueFits'
    BY <1>1, <1>2, ShownFacts DEF PagesTyped, QueueFits, MayDecide, StoredIn
  <2>2. QED
    BY <1>1, <1>2, <2>1, UnsentCall, QueueCall
<1>3. CASE /\ send[k].from = "form"
           /\ form' = [form EXCEPT !.submitting = FALSE, !.lost =
                IF send[k].answer = None THEN form.lost ELSE form.lost + 1]
  <2>1. /\ FormFits /\ form \in Form /\ send \in [Sends -> Send]
    BY ShownFacts DEF PagesTyped
  <2>2. PICK n \in Nat : n = IF send[k].answer = None THEN form.lost
                                                     ELSE form.lost + 1
    BY <2>1 DEF Form
  <2>3. form' = [form EXCEPT !.submitting = FALSE, !.lost = n]
    BY <1>3, <2>2
  <2>4. /\ form' \in Form /\ form'.open = form.open
        /\ form'.made = form.made /\ form'.lost = n
    BY <2>1, <2>3 DEF Form
  <2>5. send'[k] = Unsent /\ \A j \in Sends \ {k} : send'[j] = send[j]
    BY <1>1, <2>1
  <2>6. \A j \in Sends : send[j].from = "form" => j = k
    BY <1>3, <2>1 DEF FormFits
  <2>7. \A j \in Sends : send'[j].from # "form"
    BY <2>5, <2>6, UnsentCall
  <2>8. ~\E j \in Sends : Told(send'[j])
    BY <2>7 DEF Told
  <2>9. form.made = n + 0
    <3>1. CASE send[k].answer = None
      <4>1. ~\E j \in Sends : Told(send[j])
        BY <2>6, <3>1 DEF Told
      <4>2. QED
        BY <2>1, <2>2, <3>1, <4>1 DEF FormFits
    <3>2. CASE send[k].answer # None
      <4>1. \E j \in Sends : Told(send[j])
        BY <1>3, <3>2 DEF Told
      <4>2. form.made = form.lost + 1 /\ n = form.lost + 1 /\ form.lost \in Nat
        BY <2>1, <2>2, <3>2, <4>1 DEF FormFits, Form
      <4>3. QED
        BY <4>2
    <3>3. QED
      BY <3>1, <3>2
  <2>10. FormFits'
    BY <1>1, <2>1, <2>4, <2>7, <2>8, <2>9 DEF FormFits
  <2>11. RowsFit' /\ Moved
    BY <1>1, ShownFacts, Still
  <2>12. PagesTyped' /\ QueueFits' /\ SendFits(Unsent)'
    BY <1>1, <2>4, <2>11, ShownFacts, UnsentCall, SendFitsOn, QueueOn
       DEF PagesTyped
  <2>13. DetailFits'
    BY <1>1, <1>3, <2>5, <2>11, ShownFacts, UnsentCall, DetailSends
  <2>14. QED
    BY <1>1, <2>10, <2>11, <2>12, <2>13, UnsentCall, OneSend
<1>4. QED
  BY <1>2, <1>3 DEF FailCreate

-----------------------------------------------------------------------------
(* The steps of the server.                                                *)

(* A call goes on at the server: nothing on the page changes.              *)
LEMMA ServedCall ==
  ASSUME Shown, RowsFit', Moved, UNCHANGED <<queue, listed, detail, form>>,
         NEW k \in Sends, NEW c \in Send, send' = [send EXCEPT ![k] = c],
         send[k].from # "form", c.from = send[k].from, c.id = send[k].id,
         c.action = send[k].action, SendFits(c)',
         c.answer \in {send[k].answer, request'[c.id]}
  PROVE  Shown'
<1>1. send'[k] = c /\ \A j \in Sends \ {k} : send'[j] = send[j]
  BY ShownFacts
<1>2. PagesTyped' /\ QueueFits'
  BY ShownFacts, QueueOn DEF PagesTyped
<1>3. DetailFits'
  BY <1>1, ShownFacts, DetailSends
<1>4. FormFits'
  BY <1>1, ShownFacts, FormSends
<1>5. QED
  BY <1>2, <1>3, <1>4, OneSend

LEMMA CheckShown ==
  ASSUME Shown, NEW k \in Sends, Check(k)
  PROVE  Shown'
<1>1. PICK c : c = [send[k] EXCEPT !.seen = request[send[k].id].status]
  OBVIOUS
<1>2. /\ send[k].action \in Operations /\ send[k].answer = None
      /\ send' = [send EXCEPT ![k] = c]
      /\ UNCHANGED <<queue, listed, detail, form>> /\ UNCHANGED rows
  BY <1>1 DEF Check
<1>3. send[k] \in Send /\ SendFits(send[k])
  BY ShownFacts
<1>4. /\ send[k].from \in {"queue", "detail"}
      /\ send[k].id \in StoredIn(request)
  BY <1>2, <1>3 DEF SendFits, Send, Unsent, Operations
<1>5. request[send[k].id].status \in Statuses
  BY <1>4, ShownFacts DEF View
<1>6. /\ c \in Send /\ c.from = send[k].from /\ c.id = send[k].id
      /\ c.action = send[k].action /\ c.answer = None
  BY <1>1, <1>2, <1>3, <1>5 DEF Send
<1>7. RowsFit' /\ Moved
  BY <1>2, ShownFacts, Still
<1>8. SendFits(c)'
  <2>1. SendFits(c)
    BY <1>2, <1>3, <1>4, <1>6 DEF SendFits
  <2>2. QED
    BY <1>7, <2>1, SendFitsOn
<1>9. QED
  BY <1>2, <1>4, <1>6, <1>7, <1>8, ServedCall

LEMMA ServeShown ==
  ASSUME Shown, NEW k \in Sends, Serve(k)
  PROVE  Shown'
<1>1. PICK r, action, seen : /\ r = send[k].id /\ action = send[k].action
                             /\ seen = send[k].seen
  OBVIOUS
<1>2. /\ seen # None /\ CommitInPlace(r, action, Viewer, seen)
      /\ Overtakes(r, seen)
      /\ UNCHANGED <<queue, listed, detail, form>>
  BY <1>1 DEF Serve
<1>3. send[k] \in Send /\ SendFits(send[k])
  BY ShownFacts
<1>4. /\ action \in Operations /\ send[k].from \in {"queue", "detail"}
      /\ r \in StoredIn(request) /\ r \in Requests
  BY <1>1, <1>2, <1>3, ShownFacts DEF SendFits, Send, Unsent, Operations
<1>5. PICK row : row = request'[r]
  OBVIOUS
<1>6. /\ RowsFit' /\ Moved /\ r \in StoredIn(request') /\ row \in View
      /\ row # None /\ row.status = Outcome[action]
      /\ row.account = Seen(r, seen).account
  BY <1>2, <1>4, <1>5, ShownFacts, CommitMoves
<1>7. PICK c : c = [send[k] EXCEPT !.seen = None, !.answer = row]
  OBVIOUS
<1>8. send' = [send EXCEPT ![k] = c]
  BY <1>1, <1>5, <1>7 DEF Serve
<1>9. /\ c \in Send /\ c.from = send[k].from /\ c.id = r
      /\ c.action = action /\ c.seen = None /\ c.answer = row
  BY <1>1, <1>3, <1>6, <1>7 DEF Send
<1>10. Had(row, r)'
  BY <1>5, <1>6 DEF Had, RowsFit, Onward
<1>11. Sees(Viewer, row)
  <2>1. Permits(action, Viewer, Seen(r, seen))
    BY <1>2 DEF CommitInPlace
  <2>2. QED
    BY <1>6, <2>1, PermittedSeen, SameOwner
<1>12. action \in {"approve", "reject"} => row.status \in Decisions
  BY <1>6 DEF Outcome, Decisions
<1>13. SendFits(c)'
  BY <1>1, <1>3, <1>4, <1>6, <1>9, <1>10, <1>11, <1>12 DEF SendFits, Sees
<1>14. QED
  BY <1>1, <1>2, <1>4, <1>5, <1>6, <1>8, <1>9, <1>13, ServedCall

LEMMA ServeOpenShown ==
  ASSUME Shown, NEW k \in Sends, ServeOpen(k)
  PROVE  Shown'
<1>1. PICK r, row, c : /\ r = send[k].id /\ row = request[r]
                       /\ c = [send[k] EXCEPT !.answer = row]
  OBVIOUS
<1>2. /\ send[k].action = "open" /\ Sees(Viewer, row)
      /\ send' = [send EXCEPT ![k] = c]
      /\ UNCHANGED <<queue, listed, detail, form>> /\ UNCHANGED rows
  BY <1>1 DEF ServeOpen
<1>3. send[k] \in Send /\ SendFits(send[k])
  BY ShownFacts
<1>4. /\ send[k].from = "detail" /\ r \in StoredIn(request) /\ row \in View
  BY <1>1, <1>2, <1>3, ShownFacts DEF SendFits, Send, Unsent, Operations
<1>5. /\ c \in Send /\ c.from = "detail" /\ c.id = r /\ c.action = "open"
      /\ c.seen = send[k].seen /\ c.answer = row
  BY <1>1, <1>2, <1>3, <1>4 DEF Send
<1>6. RowsFit' /\ Moved /\ request' = request
  BY <1>2, ShownFacts, Still
<1>7. SendFits(c)'
  <2>1. Had(row, r)
    BY <1>1, <1>4, ShownFacts DEF Had, RowsFit, Onward
  <2>2. SendFits(c)
    BY <1>2, <1>3, <1>4, <1>5, <2>1 DEF SendFits
  <2>3. QED
    BY <1>6, <2>2, SendFitsOn
<1>8. QED
  BY <1>1, <1>2, <1>4, <1>5, <1>6, <1>7, ServedCall

LEMMA ServeCreateShown ==
  ASSUME Shown, NEW k \in Sends, NEW r \in Requests, NEW a \in Accounts,
         ServeCreate(k, r, a)
  PROVE  Shown'
<1>1. PICK c : c = [send[k] EXCEPT !.id = r, !.answer = request'[r]]
  OBVIOUS
<1>2. /\ send[k].action = "create" /\ send[k].answer = None
      /\ CommitDraft(r, a)
      /\ send' = [send EXCEPT ![k] = c]
      /\ UNCHANGED <<queue, listed, detail, overtaken>>
  BY <1>1 DEF ServeCreate
<1>3. /\ form' = IF send[k].from = "form" THEN [form EXCEPT !.made = form.made + 1]
                                          ELSE form
  BY DEF ServeCreate
<1>4. send[k] \in Send /\ SendFits(send[k]) /\ FormFits /\ form \in Form
  BY ShownFacts DEF PagesTyped
<1>5. send[k].from \in {"off", "form", "left"}
  BY <1>2, <1>4 DEF SendFits, Send, Operations
<1>6. PICK row : row = [status |-> "DRAFT", account |-> a]
  OBVIOUS
<1>7. /\ RowsFit' /\ Moved /\ r \in StoredIn(request')
      /\ request'[r] = row
  BY <1>2, <1>6, ShownFacts, InsertMoves DEF CommitDraft, Statuses
<1>8. row \in View /\ row # None
  BY <1>6, RecordsAssumption DEF View, Statuses
<1>9. /\ c \in Send /\ c.from = send[k].from /\ c.id = r
      /\ c.action = "create" /\ c.seen = send[k].seen /\ c.answer = row
  BY <1>1, <1>2, <1>4, <1>7, <1>8 DEF Send
<1>10. send[k].from # "off"
  BY <1>2, <1>4 DEF SendFits, Unsent
<1>11. Had(row, r)'
  BY <1>7 DEF Had, RowsFit, Onward
<1>12. SendFits(c)'
  BY <1>2, <1>4, <1>5, <1>9, <1>10, <1>11 DEF SendFits
<1>13. send'[k] = c /\ \A j \in Sends \ {k} : send'[j] = send[j]
  BY <1>2, ShownFacts
<1>14. QueueFits' /\ DetailFits'
  BY <1>2, <1>5, <1>7, <1>9, <1>13, ShownFacts, QueueOn, DetailSends
<1>15. CASE send[k].from = "left"
  <2>1. PagesTyped'
    BY <1>2, <1>3, <1>15, ShownFacts DEF PagesTyped
  <2>2. FormFits'
    BY <1>2, <1>3, <1>9, <1>13, <1>15, ShownFacts, FormSends
  <2>3. QED
    BY <1>2, <1>7, <1>9, <1>12, <1>14, <2>1, <2>2, OneSend
<1>16. CASE send[k].from = "form"
  <2>1. /\ form' \in Form /\ form'.open = form.open
        /\ form'.submitting = form.submitting
        /\ form'.made = form.made + 1 /\ form'.lost = form.lost
    BY <1>3, <1>4, <1>16 DEF Form
  <2>2. PagesTyped'
    BY <1>2, <2>1, ShownFacts DEF PagesTyped
  <2>3. \A j \in Sends : send'[j].from = "form" <=> send[j].from = "form"
    BY <1>9, <1>13
  <2>4. \A j \in Sends : send[j].from = "form" => j = k
    BY <1>4, <1>16 DEF FormFits
  <2>5. ~\E j \in Sends : Told(send[j])
    BY <1>2, <2>4 DEF Told
  <2>6. form.made = form.lost + 0 /\ form.lost \in Nat
    BY <1>4, <2>5 DEF FormFits, Form
  <2>7. form'.made = form'.lost + 1
    BY <2>1, <2>6
  <2>8. \E j \in Sends : Told(send'[j])
    BY <1>8, <1>9, <1>13, <1>16 DEF Told
  <2>9. FormFits'
    BY <1>2, <1>4, <2>1, <2>3, <2>7, <2>8 DEF FormFits
  <2>10. QED
    BY <1>2, <1>7, <1>9, <1>12, <1>14, <2>2, <2>9, OneSend
<1>17. QED
  BY <1>5, <1>10, <1>15, <1>16

LEMMA ElsewhereShown ==
  ASSUME Shown, Elsewhere
  PROVE  Shown'
<1>1. RowsFit' /\ Moved
  <2>1. ASSUME NEW r \in Requests, NEW a \in Accounts, CommitDraft(r, a),
               UNCHANGED overtaken
        PROVE  RowsFit' /\ Moved
    BY <2>1, ShownFacts, InsertMoves DEF CommitDraft, Statuses
  <2>2. ASSUME NEW r \in Requests, NEW s \in Requests, NEW actor \in Employees,
               CommitReversal(r, s, actor), UNCHANGED overtaken
        PROVE  RowsFit' /\ Moved
    <3>1. Insert(s, "CANCELLED", request[r].account) /\ request[r] # None
      BY <2>2 DEF CommitReversal
    <3>2. request[r].account \in Accounts
      BY <3>1, ShownFacts DEF RowsFit, View
    <3>3. QED
      BY <2>2, <3>1, <3>2, ShownFacts, InsertMoves DEF Statuses
  <2>3. ASSUME NEW r \in Requests, NEW operation \in Operations,
               NEW actor \in Employees, NEW status \in past[r],
               CommitInPlace(r, operation, actor, status), Overtakes(r, status)
        PROVE  RowsFit' /\ Moved
    BY <2>3, ShownFacts, CommitMoves
  <2>4. QED
    BY <2>1, <2>2, <2>3 DEF Elsewhere
<1>2. UNCHANGED pages
  BY DEF Elsewhere
<1>3. QED
  BY <1>1, <1>2, PagesStill

-----------------------------------------------------------------------------

LEMMA ShownInit == PagesInit => Shown
<1> SUFFICES ASSUME PagesInit PROVE Shown
  OBVIOUS
<1>1. /\ request = [r \in Requests |-> None] /\ past = [r \in Requests |-> {}]
      /\ queue = [r \in Requests |-> Absent] /\ listed = None
      /\ detail = Fresh(None) /\ form = NoForm
      /\ send = [k \in Sends |-> Unsent] /\ overtaken = {}
  BY DEF PagesInit, CommitsInit, NoQueue, Closed
<1>2. RowsFit
  BY <1>1 DEF RowsFit, StoredIn
<1>3. /\ detail \in Detail /\ detail.id = None /\ detail.shown = None
      /\ detail.row = None /\ detail.failed = FALSE
  BY <1>1, FreshDetail
<1>4. queue \in [Requests -> QueueRow]
  BY <1>1 DEF Absent, QueueRow
<1>5. PagesTyped
  BY <1>1, <1>3, <1>4, FreshForms DEF PagesTyped
<1>6. SendsFit /\ \A k \in Sends : send[k].from = "off"
  BY <1>1, UnsentCall DEF SendsFit
<1>7. QueueFits
  BY <1>1 DEF QueueFits, Absent
<1>8. DetailFits
  BY <1>3, <1>6 DEF DetailFits, OneAnswer, ShownIsAddressed, AnswerIsLater
<1>9. FormFits
  BY <1>1, <1>6, FreshForms DEF FormFits, Told
<1>10. QED
  BY <1>2, <1>5, <1>6, <1>7, <1>8, <1>9 DEF Shown

(* What comes to be shown on the detail page in a step.                    *)
Forward ==
  /\ ~detail'.overlapped /\ detail'.row # None
  /\ <<detail'.shown, detail'.row>> # <<detail.shown, detail.row>>
  => /\ detail'.shown = detail'.id
     /\ detail.shown = detail'.shown /\ detail.shown \notin overtaken
          => Onward(detail.row, detail'.row)

LEMMA PagesStep ==
  ASSUME Shown, [PagesNext]_<<rows, pages>>
  PROVE  Shown' /\ Forward
<1>1. ASSUME detail'.row = None \/ (/\ detail'.shown = detail.shown
                                    /\ detail'.row = detail.row)
      PROVE  Forward
  BY <1>1 DEF Forward
<1>2. CASE OpenForm \/ OpenQueue
  BY <1>1, <1>2, LeaveShown
<1>3. CASE ShowQueue
  BY <1>1, <1>3, ShowQueueShown DEF ShowQueue
<1>4. ASSUME NEW k \in Sends, NEW r \in Requests, OpenDetail(k, r)
      PROVE  Shown' /\ Forward
  BY <1>1, <1>4, ShowDetailShown DEF OpenDetail
<1>5. ASSUME NEW k \in Sends, NEW r \in Requests, NEW action \in Operations,
             Decide(k, r, action)
      PROVE  Shown' /\ Forward
  BY <1>1, <1>5, DecideShown DEF Decide
<1>6. ASSUME NEW k \in Sends, NEW action \in Operations, Press(k, action)
      PROVE  Shown' /\ Forward
  BY <1>1, <1>6, PressShown
<1>7. ASSUME NEW k \in Sends, EndDetail(k) PROVE Shown' /\ Forward
  BY <1>7, EndDetailShown DEF Forward
<1>8. ASSUME NEW k \in Sends, FailDetail(k) PROVE Shown' /\ Forward
  BY <1>1, <1>8, FailDetailShown
<1>9. ASSUME NEW k \in Sends, EndCreate(k) PROVE Shown' /\ Forward
  BY <1>1, <1>9, EndCreateShown
<1>10. ASSUME NEW k \in Sends, EndDecide(k) \/ FailDecide(k)
       PROVE  Shown' /\ Forward
  BY <1>1, <1>10, EndDecideShown, FailDecideShown DEF EndDecide, FailDecide
<1>11. ASSUME NEW k \in Sends, SubmitForm(k) \/ FailCreate(k)
       PROVE  Shown' /\ Forward
  BY <1>1, <1>11, SubmitFormShown, FailCreateShown DEF SubmitForm, FailCreate
<1>12. ASSUME NEW k \in Sends, Check(k) \/ Serve(k) \/ ServeOpen(k)
       PROVE  Shown' /\ Forward
  BY <1>1, <1>12, CheckShown, ServeShown, ServeOpenShown
     DEF Check, Serve, ServeOpen
<1>13. ASSUME NEW k \in Sends, NEW r \in Requests, NEW a \in Accounts,
              ServeCreate(k, r, a)
       PROVE  Shown' /\ Forward
  BY <1>1, <1>13, ServeCreateShown DEF ServeCreate
<1>14. CASE Elsewhere
  BY <1>1, <1>14, ElsewhereShown DEF Elsewhere, pages
<1>15. CASE UNCHANGED <<rows, pages>>
  <2>1. RowsFit' /\ Moved
    BY <1>15, ShownFacts, Still
  <2>2. QED
    BY <1>1, <1>15, <2>1, PagesStill DEF pages
<1>16. QED
  BY <1>2, <1>3, <1>4, <1>5, <1>6, <1>7, <1>8, <1>9, <1>10, <1>11, <1>12,
     <1>13, <1>14, <1>15 DEF PagesNext

-----------------------------------------------------------------------------
(* What the pages promise.                                                 *)

(* Every list, row, form and call of the web client's pages has its type:  *)
(* no answer, however late, puts a wrong thing into the state of a page.   *)
THEOREM PagesTypeCorrect == PagesSpec => []PagesTypeOK
<1>1. Shown => PagesTypeOK
  BY DEF Shown, RowsFit, PagesTyped, SendsFit, PagesTypeOK
<1>2. QED
  BY <1>1, ShownInit, PagesStep, PTL DEF PagesSpec

(* A decided row of ApprovalsPage shows a decision that was committed, and *)
(* the one the server has unless a call that had read the request before   *)
(* wrote over it: handleDecide shows the row the server returned, and only *)
(* a commit on a status checked too early takes a decision back.           *)
THEOREM ShownDecisionsTaken == PagesSpec => []DecisionsShownTaken
<1>1. Shown => DecisionsShownTaken
  BY DEF Shown, QueueFits, DecisionsShownTaken, Decisions
<1>2. QED
  BY <1>1, ShownInit, PagesStep, PTL DEF PagesSpec

(* One visit of RequestLeavePage makes one draft, and one more for each    *)
(* answer that was lost: handleSubmit is disabled while it waits and       *)
(* leaves the page once it has succeeded.                                  *)
THEOREM VisitsMakeOneDraft == PagesSpec => []OneDraftPerVisit
<1>1. ASSUME Shown PROVE OneDraftPerVisit
  <2>1. FormFits /\ form.lost \in Nat
    BY <1>1, ShownFacts DEF PagesTyped, Form
  <2>2. form.made = form.lost + 1 \/ form.made = form.lost + 0
    BY <2>1 DEF FormFits
  <2>3. QED
    BY <2>1, <2>2 DEF OneDraftPerVisit
<1>2. QED
  BY <1>1, ShownInit, PagesStep, PTL DEF PagesSpec

(* What getAvailableLeaveActions offers for a row the viewer may see, the  *)
(* server accepts.                                                         *)
LEMMA AvailablePermitted ==
  ASSUME NEW row, Sees(Viewer, row),
         NEW action \in Available(row.status, Role[Viewer], Owner(row) = Viewer)
  PROVE  Permits(action, Viewer, row)
<1>1. CASE Owner(row) = Viewer /\ row.status = "DRAFT"
  <2>1. action \in {"submit", "cancel"}
    BY <1>1 DEF Available
  <2>2. QED
    BY <1>1, <2>1 DEF Permits, MayCancel
<1>2. CASE Owner(row) = Viewer /\ row.status = "SUBMITTED"
  <2>1. action = "cancel"
    BY <1>2 DEF Available
  <2>2. QED
    BY <1>2, <2>1 DEF Permits, MayCancel
<1>3. CASE /\ Owner(row) # Viewer /\ CanApproveLeave(Role[Viewer])
           /\ row.status = "SUBMITTED"
  <2>1. action \in {"approve", "reject"}
    BY <1>3 DEF Available
  <2>2. MayDecide(Viewer, row)
    BY <1>3 DEF Sees, MayDecide
  <2>3. QED
    BY <1>3, <2>1, <2>2 DEF Permits
<1>4. QED
  BY <1>1, <1>2, <1>3 DEF Available

(* The buttons of LeaveDetailPage and the rows that wait in ApprovalsPage  *)
(* are the viewer's to press, although the rule of the client asks for the *)
(* role alone and not for the manager: list and getById send only rows of  *)
(* the viewer's own reports.                                               *)
THEOREM ButtonsPermitted == PagesSpec => []OfferedIsPermitted
<1>1. ASSUME Shown PROVE OfferedIsPermitted
  <2>1. DetailFits /\ QueueFits
    BY <1>1 DEF Shown
  <2>2. ASSUME detail.row # None, detail.row = request[detail.shown],
               NEW action \in Offered
        PROVE  Permits(action, Viewer, request[detail.shown])
    <3>1. Sees(Viewer, request[detail.shown])
      BY <2>1, <2>2 DEF DetailFits
    <3>2. action \in Available(request[detail.shown].status, Role[Viewer],
                               Owner(request[detail.shown]) = Viewer)
      BY <2>2 DEF Offered
    <3>3. QED
      BY <3>1, <3>2, AvailablePermitted
  <2>3. ASSUME NEW r \in Requests, queue[r].kind = "pending"
        PROVE  MayDecide(Viewer, request[r])
    BY <2>1, <2>3 DEF QueueFits
  <2>4. QED
    BY <2>2, <2>3 DEF OfferedIsPermitted
<1>2. QED
  BY <1>1, ShownInit, PagesStep, PTL DEF PagesSpec

(* LeaveDetailPage comes to show only rows of the request in its address,  *)
(* and of one request never an older one: the cleanup of its effect drops  *)
(* the loads of earlier addresses.  Excepted are the visits in which a     *)
(* press was pending beside another call, as nothing drops the answers of  *)
(* handleAction, and requests the server itself has written over.          *)
THEOREM DetailForward == PagesSpec => DetailGoesForward
<1>1. Shown /\ [PagesNext]_<<rows, pages>> => [Forward]_pages
  BY PagesStep
<1>2. QED
  BY <1>1, ShownInit, PagesStep, PTL DEF PagesSpec, DetailGoesForward, Forward
=============================================================================
