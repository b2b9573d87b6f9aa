--------------------------- MODULE WebSessionProofs ---------------------------
(***************************************************************************)
(* Proofs about WebSession, for any number of tokens, pending logins and   *)
(* page calls: a logout sticks, and the token stored is the last login's.  *)
(***************************************************************************)
EXTENDS WebSession, TLAPS

(* A restoration is under way exactly while its fetch is, and a tab that   *)
(* has logged out has none: the logout button is on pages that wait for it.*)
Restorations ==
  /\ restore.sent <=> restoring
  /\ out => ~restoring

SessionInv ==
  /\ TypeOK
  /\ Restorations
  /\ LogoutSticks
  /\ LastLoginStored

LEMMA CallTypes ==
  /\ NotSent \in Fetch /\ NotSent.sent = FALSE
  /\ \A t \in Tokens \cup {None} : Sent(t) \in Fetch /\ Sent(t).sent = TRUE
BY DEF NotSent, Sent, Fetch, Answers

LEMMA SessionInit == Init => SessionInv
<1> SUFFICES ASSUME Init PROVE SessionInv
  OBVIOUS
<1>1. TypeOK
  BY CallTypes DEF Init, TypeOK
<1>2. Restorations /\ LogoutSticks /\ LastLoginStored
  BY CallTypes DEF Init, Restorations, LogoutSticks, LastLoginStored
<1>3. QED
  BY <1>1, <1>2 DEF SessionInv

LEMMA AnsweredType ==
  ASSUME NEW f \in Fetch, NEW answer \in Answers
  PROVE  /\ [f EXCEPT !.answer = answer] \in Fetch
         /\ [f EXCEPT !.answer = answer].sent = f.sent
BY DEF Fetch

(* AuthProvider: the page load, the answer to getMe, and its delivery.     *)
LEMMA RestoreSteps ==
  ASSUME SessionInv,
         \/ \E address \in {"login", "guarded"} : Load(address)
         \/ \E answer \in Answers : AnswerRestore(answer)
         \/ EndRestore
  PROVE  SessionInv'
<1>1. CASE \E address \in {"login", "guarded"} : Load(address)
  <2>1. TypeOK'
    BY <1>1, CallTypes DEF Load, SessionInv, TypeOK, server
  <2>2. Restorations'
    BY <1>1, CallTypes DEF Load, SessionInv, TypeOK, Restorations
  <2>3. LogoutSticks' /\ LastLoginStored'
    BY <1>1 DEF Load, SessionInv, LogoutSticks, LastLoginStored
  <2>4. QED
    BY <2>1, <2>2, <2>3 DEF SessionInv
<1>2. CASE \E answer \in Answers : AnswerRestore(answer)
  <2>1. restore' \in Fetch /\ restore'.sent = restore.sent
    BY <1>2, AnsweredType DEF AnswerRestore, SessionInv, TypeOK
  <2>2. UNCHANGED <<stored, session, restoring, login, fetch, page, server,
                    history>>
    BY <1>2 DEF AnswerRestore
  <2>3. QED
    BY <2>1, <2>2 DEF SessionInv, TypeOK, Restorations, LogoutSticks,
                      LastLoginStored, server, history
<1>3. CASE EndRestore
  <2>1. /\ ~out /\ restoring' = FALSE /\ restore' = NotSent
        /\ UNCHANGED <<login, fetch, page, server, history>>
    BY <1>3 DEF EndRestore, SessionInv, Restorations
  <2>2. stored' \in {stored, None} /\ session' \in {session, restore.token}
    BY <1>3 DEF EndRestore, Restored, Cleared
  <2>3. restore.token \in Tokens \cup {None}
    BY DEF SessionInv, TypeOK, Fetch
  <2>4. QED
    BY <2>1, <2>2, <2>3, CallTypes
       DEF SessionInv, TypeOK, Restorations, LogoutSticks, LastLoginStored,
           server, history
<1>4. QED
  BY <1>1, <1>2, <1>3

(* The login form.                                                         *)
LEMMA LoginSteps ==
  ASSUME SessionInv, NEW l \in Logins,
         \/ SubmitLogin(l) \/ LoginFails(l)
         \/ \E t \in Tokens : LoginSucceeds(l, t)
  PROVE  SessionInv'
<1>1. CASE SubmitLogin(l) \/ LoginFails(l)
  BY <1>1 DEF SubmitLogin, LoginFails, SessionInv, TypeOK, Restorations,
              LogoutSticks, LastLoginStored, server, history
<1>2. ASSUME NEW t \in Tokens, LoginSucceeds(l, t)
      PROVE  SessionInv'
  BY <1>2 DEF LoginSucceeds, SessionInv, TypeOK, Restorations, LogoutSticks,
              LastLoginStored
<1>3. QED
  BY <1>1, <1>2

(* The pages: routes, logout, and their calls, of which a 401 can only     *)
(* clear the token.                                                        *)
LEMMA PageSteps ==
  ASSUME SessionInv,
         \/ \E route \in {"login", "guarded"} : Navigate(route)
         \/ Redirect \/ Logout
         \/ \E f \in Fetches :
              \/ StartFetch(f) \/ EndFetch(f)
              \/ \E answer \in Answers : AnswerFetch(f, answer)
         \/ \E t \in Tokens : Expire(t)
  PROVE  SessionInv'
<1>1. CASE (\E route \in {"login", "guarded"} : Navigate(route)) \/ Redirect
  BY <1>1 DEF Navigate, Redirect, SessionInv, TypeOK, Restorations,
              LogoutSticks, LastLoginStored, server, history
<1>2. CASE Logout
  BY <1>2 DEF Logout, Renders, SessionInv, TypeOK, Restorations, LogoutSticks,
              LastLoginStored, server
<1>3. ASSUME NEW f \in Fetches,
             \/ StartFetch(f) \/ EndFetch(f)
             \/ \E answer \in Answers : AnswerFetch(f, answer)
      PROVE  SessionInv'
  <2>1. fetch' \in [Fetches -> Fetch]
    <3>1. CASE StartFetch(f)
      BY <3>1, CallTypes DEF StartFetch, SessionInv, TypeOK
    <3>2. CASE EndFetch(f)
      BY <3>2, CallTypes DEF EndFetch, SessionInv, TypeOK
    <3>3. ASSUME NEW answer \in Answers, AnswerFetch(f, answer)
          PROVE  fetch' \in [Fetches -> Fetch]
      <4>1. fetch[f] \in Fetch
        BY DEF SessionInv, TypeOK
      <4>2. fetch' = [fetch EXCEPT ![f] = [fetch[f] EXCEPT !.answer = answer]]
        BY <3>3 DEF AnswerFetch
      <4>3. QED
        BY <4>1, <4>2, AnsweredType DEF SessionInv, TypeOK
    <3>4. QED
      BY <1>3, <3>1, <3>2, <3>3
  <2>2. /\ stored' \in {stored, None}
        /\ UNCHANGED <<session, restoring, restore, login, page, server, history>>
    BY <1>3 DEF StartFetch, AnswerFetch, EndFetch, Cleared
  <2>3. QED
    BY <2>1, <2>2 DEF SessionInv, TypeOK, Restorations, LogoutSticks,
                      LastLoginStored, server, history
<1>4. CASE \E t \in Tokens : Expire(t)
  BY <1>4 DEF Expire, SessionInv, TypeOK, Restorations, LogoutSticks,
              LastLoginStored, history
<1>5. QED
  BY <1>1, <1>2, <1>3, <1>4

LEMMA SessionStep == SessionInv /\ [Next]_vars => SessionInv'
<1> SUFFICES ASSUME SessionInv, [Next]_vars PROVE SessionInv'
  OBVIOUS
<1>1. CASE Next
  BY <1>1, RestoreSteps, LoginSteps, PageSteps DEF Next
<1>2. CASE UNCHANGED vars
  BY <1>2 DEF vars, SessionInv, TypeOK, Restorations, LogoutSticks,
              LastLoginStored, server, history
<1>3. QED
  BY <1>1, <1>2

(* Token, session, fetches and forms have their types.                     *)
THEOREM TypeCorrect == Spec => []TypeOK
<1>1. SessionInv => TypeOK
  BY DEF SessionInv
<1>2. QED
  BY <1>1, SessionInit, SessionStep, PTL DEF Spec

(* After a logout neither a restoration nor a late answer brings a session *)
(* or a token back, however many calls are under way.                      *)
THEOREM LogoutIsFinal == Spec => []LogoutSticks
<1>1. SessionInv => LogoutSticks
  BY DEF SessionInv
<1>2. QED
  BY <1>1, SessionInit, SessionStep, PTL DEF Spec

(* sessionStorage never holds the token of an earlier login.               *)
THEOREM LatestLoginStored == Spec => []LastLoginStored
<1>1. SessionInv => LastLoginStored
  BY DEF SessionInv
<1>2. QED
  BY <1>1, SessionInit, SessionStep, PTL DEF Spec
=============================================================================
