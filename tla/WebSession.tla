------------------------------ MODULE WebSession ------------------------------
(***************************************************************************)
(* One browser tab's login: the bearer token in sessionStorage, which      *)
(* outlives a reload, and the session in React state, which does not and   *)
(* which AuthProvider restores by fetching the profile of the stored token.*)
(* Fetches are answered by the server in any order and their answers are   *)
(* delivered in any order; a reload drops them.  A profile is its token's, *)
(* so a session is its token here.                                         *)
(***************************************************************************)
EXTENDS Naturals, FiniteSets

CONSTANTS
  Tokens,    \* the tokens the server can issue, one for each login
  Logins,    \* login forms that can be pending at once
  Fetches,   \* authenticated calls of the pages that can be pending at once
  None

ASSUME SessionAssumption ==
  /\ IsFiniteSet(Tokens)
  /\ None \notin Tokens

VARIABLES
  stored,      \* the token in sessionStorage, or None
  session,     \* the session in AuthProvider's state, or None
  restoring,   \* isRestoring
  restore,     \* the getMe of AuthProvider's mount effect
  login,       \* [Logins -> {"off", "pending"}], submitted login forms
  fetch,       \* [Fetches -> Fetch], calls of the rendered page
  page,        \* the route: "login", or one under RequireAuth
  issued,      \* tokens the server has issued
  expired,     \* tokens the server refuses
  last,        \* history: the token of the tab's latest login, or None
  out          \* history: logged out, and neither logged in nor loaded since

vars == <<stored, session, restoring, restore, login, fetch, page,
          issued, expired, last, out>>

server  == <<issued, expired>>
history == <<last, out>>

Answers == {"none", "ok", "401", "error"}

(* An authenticated call: the token it was sent with, None for no header,  *)
(* and the server's answer once there is one.                              *)
Fetch == [sent : BOOLEAN, token : Tokens \cup {None}, answer : Answers]

NotSent    == [sent |-> FALSE, token |-> None, answer |-> "none"]
Sent(t)    == [sent |-> TRUE, token |-> t, answer |-> "none"]
Pending(f) == f.sent /\ f.answer = "none"

(* What registerAuth and the network can answer a call sent with token t.  *)
AnswersTo(t) ==
  {"error", IF t = None \/ t \in expired THEN "401" ELSE "ok"}

Init ==
  /\ stored = None /\ session = None
  /\ restoring = FALSE /\ restore = NotSent
  /\ login = [l \in Logins |-> "off"]
  /\ fetch = [f \in Fetches |-> NotSent]
  /\ page = "login"
  /\ issued = {} /\ expired = {}
  /\ last = None /\ out = FALSE

-----------------------------------------------------------------------------
(* AuthProvider                                                            *)

(* The page is loaded or reloaded at any address: React state and pending  *)
(* fetches are gone, and a stored token is revalidated.                    *)
Load(address) ==
  /\ session' = None
  /\ restoring' = (stored # None)
  /\ restore' = IF stored = None THEN NotSent ELSE Sent(stored)
  /\ login' = [l \in Logins |-> "off"]
  /\ fetch' = [f \in Fetches |-> NotSent]
  /\ page' = address
  /\ out' = FALSE
  /\ UNCHANGED <<stored, server, last>>

AnswerRestore(answer) ==
  /\ Pending(restore)
  /\ answer \in AnswersTo(restore.token)
  /\ restore' = [restore EXCEPT !.answer = answer]
  /\ UNCHANGED <<stored, session, restoring, login, fetch, page, server, history>>

(* Mutant: the token is overwritten with null, which is stored as text.    *)
ClearedToText(answer) == IF answer = "401" THEN "null" ELSE stored

(* A 401 clears whatever token is stored now.                              *)
Cleared(answer) == IF answer = "401" THEN None ELSE stored

(* Mutant: the profile's token is stored again.                            *)
RestoredAndStored(token, answer) ==
  /\ session' = IF answer = "ok" THEN token ELSE session
  /\ stored' = IF answer = "ok" THEN token ELSE Cleared(answer)

(* The session of the profile that was fetched, or none.                   *)
Restored(token, answer) ==
  /\ session' = IF answer = "ok" THEN token ELSE session
  /\ stored' = Cleared(answer)

(* Mutant: only the success path ends the restoration.                     *)
EndRestoreOnSuccess ==
  LET answer == restore.answer IN
  /\ restore.sent /\ answer # "none"
  /\ Restored(restore.token, answer)
  /\ restoring' = (restoring /\ answer # "ok")
  /\ restore' = NotSent
  /\ UNCHANGED <<login, fetch, page, server, history>>

EndRestore ==
  LET answer == restore.answer IN
  /\ restore.sent /\ answer # "none"
  /\ Restored(restore.token, answer)
  /\ restoring' = FALSE
  /\ restore' = NotSent
  /\ UNCHANGED <<login, fetch, page, server, history>>

-----------------------------------------------------------------------------
(* LoginPage and AuthService.login.  The route is not guarded; a form that *)
(* was left while its login was pending is still answered.                 *)

SubmitLogin(l) ==
  /\ page = "login"
  /\ login[l] = "off"
  /\ login' = [login EXCEPT ![l] = "pending"]
  /\ UNCHANGED <<stored, session, restoring, restore, fetch, page, server, history>>

LoginSucceeds(l, t) ==
  /\ login[l] = "pending"
  /\ t \in Tokens \ issued
  /\ issued' = issued \cup {t}
  /\ stored' = t
  /\ session' = t
  /\ login' = [login EXCEPT ![l] = "off"]
  /\ page' = "guarded"
  /\ last' = t /\ out' = FALSE
  /\ UNCHANGED <<restoring, restore, fetch, expired>>

(* The server's message is shown; the stored token is left untouched.      *)
LoginFails(l) ==
  /\ login[l] = "pending"
  /\ login' = [login EXCEPT ![l] = "off"]
  /\ UNCHANGED <<stored, session, restoring, restore, fetch, page, server, history>>

-----------------------------------------------------------------------------
(* The pages under RequireAuth.                                            *)

(* Mutant: the guard does not wait for the restoration.                    *)
RendersWhileRestoring == page = "guarded" /\ session # None

(* RequireAuth shows nothing while restoring.                              *)
Renders == page = "guarded" /\ ~restoring /\ session # None

Redirect ==
  /\ page = "guarded" /\ ~restoring /\ session = None
  /\ page' = "login"
  /\ UNCHANGED <<stored, session, restoring, restore, login, fetch, server, history>>

(* The browser's back and forward between routes of the application.       *)
Navigate(route) ==
  /\ page # route
  /\ page' = route
  /\ UNCHANGED <<stored, session, restoring, restore, login, fetch, server, history>>

Logout ==
  /\ Renders
  /\ stored' = None
  /\ session' = None
  /\ page' = "login"
  /\ out' = TRUE
  /\ UNCHANGED <<restoring, restore, login, fetch, server, last>>

StartFetch(f) ==
  /\ Renders
  /\ ~fetch[f].sent
  /\ fetch' = [fetch EXCEPT ![f] = Sent(stored)]
  /\ UNCHANGED <<stored, session, restoring, restore, login, page, server, history>>

AnswerFetch(f, answer) ==
  /\ Pending(fetch[f])
  /\ answer \in AnswersTo(fetch[f].token)
  /\ fetch' = [fetch EXCEPT ![f].answer = answer]
  /\ UNCHANGED <<stored, session, restoring, restore, login, page, server, history>>

(* An answer may find another page, or another login, than the one that    *)
(* asked.                                                                  *)
EndFetch(f) ==
  /\ fetch[f].sent /\ fetch[f].answer # "none"
  /\ stored' = Cleared(fetch[f].answer)
  /\ fetch' = [fetch EXCEPT ![f] = NotSent]
  /\ UNCHANGED <<session, restoring, restore, login, page, server, history>>

(* A token's hour is over.                                                 *)
Expire(t) ==
  /\ t \in issued \ expired
  /\ expired' = expired \cup {t}
  /\ UNCHANGED <<stored, session, restoring, restore, login, fetch, page, issued, history>>

-----------------------------------------------------------------------------

Next ==
  \/ \E address \in {"login", "guarded"} : Load(address) \/ Navigate(address)
  \/ \E answer \in Answers : AnswerRestore(answer)
  \/ EndRestore
  \/ \E l \in Logins :
       \/ SubmitLogin(l)
       \/ \E t \in Tokens : LoginSucceeds(l, t)
       \/ LoginFails(l)
  \/ Redirect
  \/ Logout
  \/ \E f \in Fetches :
       \/ StartFetch(f)
       \/ \E answer \in Answers : AnswerFetch(f, answer)
       \/ EndFetch(f)
  \/ \E t \in Tokens : Expire(t)

Spec == Init /\ [][Next]_vars

Reload == \E address \in {"login", "guarded"} : Load(address)

(* A fetch the page has not dropped is answered, or fails, and is          *)
(* delivered; the user does not reload the page for ever.                  *)
FairSpec ==
  /\ Spec
  /\ <>[][~Reload]_vars
  /\ WF_vars(\E answer \in Answers : AnswerRestore(answer))
  /\ WF_vars(EndRestore)

-----------------------------------------------------------------------------

TypeOK ==
  /\ {stored, session, last} \subseteq Tokens \cup {None}
  /\ restoring \in BOOLEAN /\ out \in BOOLEAN
  /\ restore \in Fetch
  /\ login \in [Logins -> {"off", "pending"}]
  /\ fetch \in [Fetches -> Fetch]
  /\ page \in {"login", "guarded"}
  /\ expired \subseteq issued /\ issued \subseteq Tokens

(* After a logout the tab stays logged out until it logs in again: no      *)
(* restoration and no answer that is still under way brings a session or a *)
(* token back.                                                             *)
LogoutSticks == out => session = None /\ stored = None

(* The stored token is never an older login's: a restoration of the token  *)
(* an earlier login had left does not replace the one a login has stored.  *)
LastLoginStored == stored \in {last, None}

(* RequireAuth's blank page does not last: the restoration ends whether    *)
(* getMe succeeds, is refused or fails.                                    *)
RestoreEnds == restoring ~> ~restoring
=============================================================================
