----------------------------- MODULE AuthProofs -----------------------------
(***************************************************************************)
(* Theorems of RefreshTokens and AuthTabs, for any number of tabs,         *)
(* requests and tokens: the heirs of a login and the refinement (part 1),  *)
(* the typing of the tabs, the single refresh of a tab and those who wait  *)
(* for it (part 2), and, while nothing fails and no password is reset, the *)
(* agreement of tokens, sessions and cookie (part 3).                      *)
(***************************************************************************)
EXTENDS AuthTabs, FiniteSetTheorems, TLAPS

\* A refresh between its compare-and-set and its insert.
Rotates(r) == req[r].kind = "refresh" /\ req[r].pc \in {"revoke", "issue"}

\* A token that exists descends from one that exists.
LinesAreBorn ==
    \A t \in Tokens : token[t] # "unborn" =>
        line[t] \in Tokens /\ token[line[t]] # "unborn"

RotatedIsSpent ==
    \A r \in Reqs :
        /\ req[r].pc = "rotate" => req[r].tok \in Tokens
        /\ req[r].pc = "spend" => req[r].kind = "logout"
        /\ Rotates(r) => req[r].tok \in Tokens /\ token[req[r].tok] = "spent"

\* The right to prolong a line is held once: by an active token or by a request.
RightIsHeldOnce ==
    /\ OneHeir
    /\ \A r, q \in Reqs :
         Rotates(r) /\ Rotates(q) /\ line[req[r].tok] = line[req[q].tok] => r = q
    /\ \A r \in Reqs, t \in Tokens :
         Rotates(r) /\ token[t] = "active" => line[t] # line[req[r].tok]

AuthInv == AuthTypeOK /\ LinesAreBorn /\ RotatedIsSpent /\ RightIsHeldOnce

----------------------------------------------------------------------------
LEMMA FreeTyped == Free \in Request
  BY DEF Free, Request, Kind, PC

LEMMA GotoTyped ==
  ASSUME AuthTypeOK, NEW r \in Reqs, NEW pc \in PC, Goto(r, pc)
  PROVE  req' \in [Reqs -> Request]
  BY DEF AuthTypeOK, Goto, Request

\* The insert of a refresh copies the line of a token that exists.
LEMMA TypingStep ==
  ASSUME AuthTypeOK, RotatedIsSpent, [AuthNext]_authVars
  PROVE  AuthTypeOK'
<1>1. CASE UNCHANGED authVars
  BY <1>1 DEF AuthTypeOK, authVars
<1>2. CASE AuthNext
  <2>1. PICK r \in Reqs :
          \/ Statement(r) \/ Refuse(r) \/ Fail(r) \/ Answered(r)
          \/ \E kind \in Kind, t \in Tokens \cup {None} : Receive(r, kind, t)
    BY <1>2 DEF AuthNext
  <2>2. CASE FindToken(r)
    <3>1. \E pc \in {"rotate", "failed"} : Goto(r, pc)
      BY <2>2 DEF FindToken
    <3>2. req' \in [Reqs -> Request]
      BY <3>1, GotoTyped DEF PC
    <3> QED
      BY <2>2, <3>2 DEF FindToken, AuthTypeOK
  <2>3. CASE Rotate(r)
    <3>1. \E pc \in {"revoke", "failed"} : Goto(r, pc)
      BY <2>3 DEF Rotate
    <3>2. req' \in [Reqs -> Request]
      BY <3>1, GotoTyped DEF PC
    <3>3. token' \in [Tokens -> {"unborn", "active", "spent"}]
      BY <2>3 DEF Rotate, AuthTypeOK
    <3> QED
      BY <2>3, <3>2, <3>3 DEF Rotate, AuthTypeOK
  <2>4. CASE RevokeSession(r)
    <3>1. \E pc \in {"issue", "failed"} : Goto(r, pc)
      BY <2>4 DEF RevokeSession
    <3>2. req' \in [Reqs -> Request]
      BY <3>1, GotoTyped DEF PC
    <3>3. session' \in [Tokens -> {"none", "active", "revoked"}]
      BY <2>4 DEF RevokeSession, AuthTypeOK, Revoked
    <3> QED
      BY <2>4, <3>2, <3>3 DEF RevokeSession, AuthTypeOK
  <2>5. CASE Issue(r)
    <3>1. PICK t \in Tokens :
            /\ token' = [token EXCEPT ![t] = "active"]
            /\ line' = [line EXCEPT ![t] = IF req[r].kind = "refresh" THEN line[req[r].tok] ELSE t]
            /\ req' = [req EXCEPT ![r].pc = "session", ![r].new = t]
      BY <2>5 DEF Issue
    <3>2. [req[r] EXCEPT !.pc = "session", !.new = t] \in Request
      BY DEF AuthTypeOK, Request, PC
    <3>3. req' \in [Reqs -> Request]
      BY <3>1, <3>2 DEF AuthTypeOK
    <3>4. line' \in [Tokens -> Tokens \cup {None}]
      BY <3>1, <2>5 DEF AuthTypeOK, Issue, RotatedIsSpent, Rotates
    <3> QED
      BY <2>5, <3>1, <3>3, <3>4 DEF Issue, AuthTypeOK
  <2>6. CASE SaveSession(r)
    <3>1. \E pc \in {"ok"} : Goto(r, pc)
      BY <2>6 DEF SaveSession
    <3>2. req' \in [Reqs -> Request]
      BY <3>1, GotoTyped DEF PC
    <3>3. session' \in [Tokens -> {"none", "active", "revoked"}]
      BY <2>6 DEF SaveSession, AuthTypeOK
    <3> QED
      BY <2>6, <3>2, <3>3 DEF SaveSession, AuthTypeOK
  <2>7. CASE Spend(r)
    <3>1. \E pc \in {"ok", "revoke"} : Goto(r, pc)
      BY <2>7 DEF Spend
    <3>2. req' \in [Reqs -> Request]
      BY <3>1, GotoTyped DEF PC
    <3>3. token' \in [Tokens -> {"unborn", "active", "spent"}]
      BY <2>7 DEF Spend, AuthTypeOK, Spent
    <3> QED
      BY <2>7, <3>2, <3>3 DEF Spend, AuthTypeOK
  <2>8. CASE SpendAll(r)
    <3>1. \E pc \in {"revokeAll"} : Goto(r, pc)
      BY <2>8 DEF SpendAll
    <3>2. req' \in [Reqs -> Request]
      BY <3>1, GotoTyped DEF PC
    <3>3. token' \in [Tokens -> {"unborn", "active", "spent"}]
      BY <2>8 DEF SpendAll, AuthTypeOK, Spent
    <3> QED
      BY <2>8, <3>2, <3>3 DEF SpendAll, AuthTypeOK
  <2>9. CASE RevokeAll(r)
    <3>1. \E pc \in {"ok"} : Goto(r, pc)
      BY <2>9 DEF RevokeAll
    <3>2. req' \in [Reqs -> Request]
      BY <3>1, GotoTyped DEF PC
    <3>3. session' \in [Tokens -> {"none", "active", "revoked"}]
      BY <2>9 DEF RevokeAll, AuthTypeOK, Revoked
    <3> QED
      BY <2>9, <3>2, <3>3 DEF RevokeAll, AuthTypeOK
  <2>10. CASE Refuse(r) \/ Fail(r)
    BY <2>10 DEF Refuse, Fail, AuthTypeOK, Goto, Request, PC
  <2>11. CASE Answered(r)
    BY <2>11, FreeTyped DEF Answered, AuthTypeOK
  <2>12. ASSUME NEW kind \in Kind, NEW t \in Tokens \cup {None}, Receive(r, kind, t)
         PROVE  AuthTypeOK'
    <3>1. Entry[kind] \in PC
      BY DEF Entry, Kind, PC
    <3>2. [Free EXCEPT !.kind = kind, !.pc = Entry[kind], !.tok = t] \in Request
      BY <3>1 DEF Free, Request, Kind
    <3> QED
      BY <2>12, <3>2 DEF Receive, AuthTypeOK
  <2> QED
    BY <2>1, <2>2, <2>3, <2>4, <2>5, <2>6, <2>7, <2>8, <2>9, <2>10, <2>11, <2>12 DEF Statement
<1> QED
  BY <1>1, <1>2

LEMMA TypingInit == AuthInit => AuthTypeOK
  BY FreeTyped DEF AuthInit, AuthTypeOK

----------------------------------------------------------------------------
LEMMA InvInit == AuthInit => AuthInv
<1> SUFFICES ASSUME AuthInit PROVE AuthInv
  OBVIOUS
<1>1. AuthTypeOK
  BY TypingInit
<1>2. \A t \in Tokens : token[t] = "unborn"
  BY DEF AuthInit
<1>3. \A r \in Reqs : req[r].pc = "idle"
  BY DEF AuthInit, Free
<1> QED
  BY <1>1, <1>2, <1>3
     DEF AuthInv, LinesAreBorn, RotatedIsSpent, RightIsHeldOnce, OneHeir, Heirs, Rotates

\* A step that activates no token, adds nobody to those that rotate, and keeps the
\* lines, leaves every right with its holder.
LEMMA NoNewRight ==
  ASSUME AuthInv, AuthTypeOK',
         line' = line,
         \A t \in Tokens : (token'[t] = "unborn") <=> (token[t] = "unborn"),
         \A t \in Tokens : token'[t] = "active" => token[t] = "active",
         \A t \in Tokens : token[t] = "spent" => token'[t] = "spent",
         \A r \in Reqs : Rotates(r)' => Rotates(r) /\ req'[r].tok = req[r].tok,
         \A r \in Reqs : req'[r].pc = "rotate" => req'[r].tok \in Tokens,
         \A r \in Reqs : req'[r].pc = "spend" => req'[r].kind = "logout"
  PROVE  AuthInv'
<1>1. LinesAreBorn'
  BY DEF AuthInv, LinesAreBorn, AuthTypeOK
<1>2. RotatedIsSpent'
  BY DEF AuthInv, RotatedIsSpent
<1>3. RightIsHeldOnce'
  BY DEF AuthInv, RightIsHeldOnce, OneHeir, Heirs
<1> QED
  BY <1>1, <1>2, <1>3 DEF AuthInv

LEMMA InvStep ==
  ASSUME AuthInv, [AuthNext]_authVars
  PROVE  AuthInv'
<1> USE DEF AuthInv
<1>0. AuthTypeOK'
  BY TypingStep
<1>1. CASE UNCHANGED authVars
  BY <1>1 DEF authVars, AuthTypeOK, LinesAreBorn, RotatedIsSpent, RightIsHeldOnce, OneHeir,
              Heirs, Rotates
<1>2. CASE AuthNext
  <2>1. PICK r \in Reqs :
          \/ Statement(r) \/ Refuse(r) \/ Fail(r) \/ Answered(r)
          \/ \E kind \in Kind, t \in Tokens \cup {None} : Receive(r, kind, t)
    BY <1>2 DEF AuthNext
  <2>2. CASE FindToken(r)
    <3>1. req'[r].pc = "rotate" => req'[r].tok \in Tokens
      BY <2>2 DEF FindToken, Goto, AuthTypeOK, Request
    <3>2. \A q \in Reqs : Rotates(q)' => Rotates(q) /\ req'[q].tok = req[q].tok
      BY <2>2 DEF FindToken, Goto, AuthTypeOK, Request, Rotates
    <3>3. \A q \in Reqs : req'[q].pc = "rotate" => req'[q].tok \in Tokens
      BY <2>2, <3>1 DEF FindToken, Goto, AuthTypeOK, Request, RotatedIsSpent
    <3>4. \A q \in Reqs : req'[q].pc = "spend" => req'[q].kind = "logout"
      BY <2>2 DEF FindToken, Goto, AuthTypeOK, Request, RotatedIsSpent
    <3> QED
      BY <1>0, <2>2, <3>2, <3>3, <3>4, NoNewRight DEF FindToken
  <2>3. CASE Rotate(r)
    <3>1. CASE token[req[r].tok] # "active"
      <4>1. \A q \in Reqs : Rotates(q)' => Rotates(q) /\ req'[q].tok = req[q].tok
        BY <2>3, <3>1 DEF Rotate, Goto, AuthTypeOK, Request, Rotates
      <4>2. \A q \in Reqs : req'[q].pc = "rotate" => req'[q].tok \in Tokens
        BY <2>3, <3>1 DEF Rotate, Goto, AuthTypeOK, Request, RotatedIsSpent
      <4>3. \A q \in Reqs : req'[q].pc = "spend" => req'[q].kind = "logout"
        BY <2>3, <3>1 DEF Rotate, Goto, AuthTypeOK, Request, RotatedIsSpent
      <4> QED
        BY <1>0, <2>3, <3>1, <4>1, <4>2, <4>3, NoNewRight DEF Rotate
    <3>2. CASE token[req[r].tok] = "active"
      <4> DEFINE t == req[r].tok
      <4>1. t \in Tokens /\ token[t] = "active"
        BY <2>3, <3>2 DEF Rotate, RotatedIsSpent
      <4>2. token' = [token EXCEPT ![t] = "spent"] /\ line' = line
        BY <2>3, <3>2 DEF Rotate
      <4>3. \A q \in Reqs : /\ req'[q].tok = req[q].tok
                            /\ q # r => req'[q] = req[q]
        BY <2>3, <3>2 DEF Rotate, Goto, AuthTypeOK, Request
      <4>4. \A q \in Reqs \ {r} : Rotates(q)' <=> Rotates(q)
        BY <4>3 DEF Rotates
      <4>5. \A q \in Reqs : req'[q].pc = "rotate" => req'[q].tok \in Tokens
        BY <2>3, <3>2, <4>3 DEF Rotate, Goto, AuthTypeOK, Request, RotatedIsSpent
      <4>5a. \A q \in Reqs : req'[q].pc = "spend" => req'[q].kind = "logout"
        BY <2>3, <3>2 DEF Rotate, Goto, AuthTypeOK, Request, RotatedIsSpent
      <4>6. \A u \in Tokens : token'[u] = IF u = t THEN "spent" ELSE token[u]
        BY <4>1, <4>2 DEF AuthTypeOK
      <4> HIDE DEF t
      <4>7. LinesAreBorn'
        BY <4>1, <4>2, <4>6 DEF LinesAreBorn
      <4>8. RotatedIsSpent'
        <5> SUFFICES ASSUME NEW q \in Reqs, Rotates(q)'
                     PROVE  req'[q].tok \in Tokens /\ token'[req'[q].tok] = "spent"
          BY <4>5, <4>5a DEF RotatedIsSpent
        <5>1. CASE q = r
          BY <4>1, <4>3, <4>6, <5>1 DEF t
        <5>2. CASE q # r
          BY <4>3, <4>4, <4>6, <5>2 DEF RotatedIsSpent
        <5> QED
          BY <5>1, <5>2
      <4>9. \A u \in Tokens : token'[u] = "active" => line[u] # line[t]
        <5>1. line[t] \in Tokens
          BY <4>1 DEF LinesAreBorn
        <5>2. \A u \in Tokens : token[u] = "active" /\ line[u] = line[t] => u = t
          BY <4>1, <5>1 DEF RightIsHeldOnce, OneHeir, Heirs
        <5> QED
          BY <4>6, <5>2
      <4>10. \A q \in Reqs : Rotates(q) => line[req[q].tok] # line[t]
        BY <4>1 DEF RightIsHeldOnce
      <4>11. RightIsHeldOnce'
        BY <4>2, <4>3, <4>4, <4>6, <4>9, <4>10 DEF RightIsHeldOnce, OneHeir, Heirs, t
      <4> QED
        BY <1>0, <4>7, <4>8, <4>11
    <3> QED
      BY <3>1, <3>2
  <2>4. CASE Issue(r)
    <3>1. PICK t \in Tokens :
            /\ token[t] = "unborn"
            /\ token' = [token EXCEPT ![t] = "active"]
            /\ line' = [line EXCEPT ![t] = IF req[r].kind = "refresh" THEN line[req[r].tok] ELSE t]
            /\ req' = [req EXCEPT ![r].pc = "session", ![r].new = t]
      BY <2>4 DEF Issue
    <3>2. \A u \in Tokens : token'[u] = IF u = t THEN "active" ELSE token[u]
      BY <3>1 DEF AuthTypeOK
    <3>3. \A u \in Tokens \ {t} : line'[u] = line[u]
      BY <3>1 DEF AuthTypeOK
    <3>4. \A q \in Reqs : /\ req'[q].tok = req[q].tok
                          /\ q # r => req'[q] = req[q]
      BY <3>1 DEF AuthTypeOK, Request
    <3>5. req'[r].pc = "session"
      BY <3>1 DEF AuthTypeOK, Request
    <3>6. \A q \in Reqs : Rotates(q)' => Rotates(q) /\ q # r
      BY <3>4, <3>5 DEF Rotates
    <3>7. \A q \in Reqs : Rotates(q) => req[q].tok \in Tokens \ {t}
      BY <3>1 DEF RotatedIsSpent
    <3>8. \A q \in Reqs : Rotates(q)' => line'[req'[q].tok] = line[req[q].tok]
      BY <3>3, <3>4, <3>6, <3>7
    <3>9. req[r].pc = "issue"
      BY <2>4 DEF Issue
    <3>10. \/ Rotates(r) /\ line'[t] = line[req[r].tok]
           \/ line'[t] = t
      BY <3>1, <3>9 DEF Rotates, AuthTypeOK
    <3>11. LinesAreBorn'
      BY <3>1, <3>2, <3>3, <3>7, <3>10 DEF LinesAreBorn, RotatedIsSpent
    <3>12. RotatedIsSpent'
      BY <3>2, <3>4, <3>5, <3>6, <3>7 DEF RotatedIsSpent
    <3>13. \A u \in Tokens \ {t} : token[u] = "active" => line[u] # line'[t]
      BY <3>1, <3>10 DEF LinesAreBorn, RightIsHeldOnce
    <3>14. \A q \in Reqs : Rotates(q)' => line[req[q].tok] # line'[t]
      BY <3>1, <3>6, <3>7, <3>10 DEF LinesAreBorn, RotatedIsSpent, RightIsHeldOnce
    <3>15. RightIsHeldOnce'
      BY <3>2, <3>3, <3>6, <3>8, <3>13, <3>14 DEF RightIsHeldOnce, OneHeir, Heirs
    <3> QED
      BY <1>0, <3>11, <3>12, <3>15
  <2>5. CASE RevokeSession(r)
    <3>1. \A q \in Reqs : Rotates(q)' => Rotates(q) /\ req'[q].tok = req[q].tok
      BY <2>5 DEF RevokeSession, Goto, AuthTypeOK, Request, Rotates
    <3>2. \A q \in Reqs : req'[q].pc = "rotate" => req'[q].tok \in Tokens
      BY <2>5 DEF RevokeSession, Goto, AuthTypeOK, Request, RotatedIsSpent
    <3>3. \A q \in Reqs : req'[q].pc = "spend" => req'[q].kind = "logout"
      BY <2>5 DEF RevokeSession, Goto, AuthTypeOK, Request, RotatedIsSpent
    <3> QED
      BY <1>0, <2>5, <3>1, <3>2, <3>3, NoNewRight DEF RevokeSession
  <2>6. CASE SaveSession(r)
    <3>1. \A q \in Reqs : Rotates(q)' => Rotates(q) /\ req'[q].tok = req[q].tok
      BY <2>6 DEF SaveSession, Goto, AuthTypeOK, Request, Rotates
    <3>2. \A q \in Reqs : req'[q].pc = "rotate" => req'[q].tok \in Tokens
      BY <2>6 DEF SaveSession, Goto, AuthTypeOK, Request, RotatedIsSpent
    <3>3. \A q \in Reqs : req'[q].pc = "spend" => req'[q].kind = "logout"
      BY <2>6 DEF SaveSession, Goto, AuthTypeOK, Request, RotatedIsSpent
    <3> QED
      BY <1>0, <2>6, <3>1, <3>2, <3>3, NoNewRight DEF SaveSession
  <2>7. CASE Spend(r)
    <3>1. \A q \in Reqs : Rotates(q)' => Rotates(q) /\ req'[q].tok = req[q].tok
      BY <2>7 DEF Spend, Goto, AuthTypeOK, Request, Rotates, RotatedIsSpent
    <3>2. \A q \in Reqs : req'[q].pc = "rotate" => req'[q].tok \in Tokens
      BY <2>7 DEF Spend, Goto, AuthTypeOK, Request, RotatedIsSpent
    <3>3. \A q \in Reqs : req'[q].pc = "spend" => req'[q].kind = "logout"
      BY <2>7 DEF Spend, Goto, AuthTypeOK, Request, RotatedIsSpent
    <3>4. line' = line
      BY <2>7 DEF Spend, Goto, AuthTypeOK, Spent
    <3>5. \A t \in Tokens : (token'[t] = "unborn") <=> (token[t] = "unborn")
      BY <2>7 DEF Spend, Goto, AuthTypeOK, Spent
    <3>6. \A t \in Tokens : token'[t] = "active" => token[t] = "active"
      BY <2>7 DEF Spend, Goto, AuthTypeOK, Spent
    <3>7. \A t \in Tokens : token[t] = "spent" => token'[t] = "spent"
      BY <2>7 DEF Spend, Goto, AuthTypeOK, Spent
    <3> QED
      BY <1>0, <3>1, <3>2, <3>3, <3>4, <3>5, <3>6, <3>7, NoNewRight
  <2>8. CASE SpendAll(r)
    <3>1. \A q \in Reqs : Rotates(q)' => Rotates(q) /\ req'[q].tok = req[q].tok
      BY <2>8 DEF SpendAll, Goto, AuthTypeOK, Request, Rotates, RotatedIsSpent
    <3>2. \A q \in Reqs : req'[q].pc = "rotate" => req'[q].tok \in Tokens
      BY <2>8 DEF SpendAll, Goto, AuthTypeOK, Request, RotatedIsSpent
    <3>3. \A q \in Reqs : req'[q].pc = "spend" => req'[q].kind = "logout"
      BY <2>8 DEF SpendAll, Goto, AuthTypeOK, Request, RotatedIsSpent
    <3>4. line' = line
      BY <2>8 DEF SpendAll, Goto, AuthTypeOK, Spent
    <3>5. \A t \in Tokens : (token'[t] = "unborn") <=> (token[t] = "unborn")
      BY <2>8 DEF SpendAll, Goto, AuthTypeOK, Spent
    <3>6. \A t \in Tokens : token'[t] = "active" => token[t] = "active"
      BY <2>8 DEF SpendAll, Goto, AuthTypeOK, Spent
    <3>7. \A t \in Tokens : token[t] = "spent" => token'[t] = "spent"
      BY <2>8 DEF SpendAll, Goto, AuthTypeOK, Spent
    <3> QED
      BY <1>0, <3>1, <3>2, <3>3, <3>4, <3>5, <3>6, <3>7, NoNewRight
  <2>9. CASE RevokeAll(r)
    <3>1. \A q \in Reqs : Rotates(q)' => Rotates(q) /\ req'[q].tok = req[q].tok
      BY <2>9 DEF RevokeAll, Goto, AuthTypeOK, Request, Rotates, RotatedIsSpent
    <3>2. \A q \in Reqs : req'[q].pc = "rotate" => req'[q].tok \in Tokens
      BY <2>9 DEF RevokeAll, Goto, AuthTypeOK, Request, RotatedIsSpent
    <3>3. \A q \in Reqs : req'[q].pc = "spend" => req'[q].kind = "logout"
      BY <2>9 DEF RevokeAll, Goto, AuthTypeOK, Request, RotatedIsSpent
    <3>4. line' = line
      BY <2>9 DEF RevokeAll, Goto, AuthTypeOK, Spent
    <3>5. \A t \in Tokens : (token'[t] = "unborn") <=> (token[t] = "unborn")
      BY <2>9 DEF RevokeAll, Goto, AuthTypeOK, Spent
    <3>6. \A t \in Tokens : token'[t] = "active" => token[t] = "active"
      BY <2>9 DEF RevokeAll, Goto, AuthTypeOK, Spent
    <3>7. \A t \in Tokens : token[t] = "spent" => token'[t] = "spent"
      BY <2>9 DEF RevokeAll, Goto, AuthTypeOK, Spent
    <3> QED
      BY <1>0, <3>1, <3>2, <3>3, <3>4, <3>5, <3>6, <3>7, NoNewRight
  <2>10. CASE Refuse(r) \/ Fail(r)
    <3>1. \A q \in Reqs : Rotates(q)' => Rotates(q) /\ req'[q].tok = req[q].tok
      BY <2>10 DEF Refuse, Fail, Goto, AuthTypeOK, Request, Rotates, RotatedIsSpent
    <3>2. \A q \in Reqs : req'[q].pc = "rotate" => req'[q].tok \in Tokens
      BY <2>10 DEF Refuse, Fail, Goto, AuthTypeOK, Request, RotatedIsSpent
    <3>3. \A q \in Reqs : req'[q].pc = "spend" => req'[q].kind = "logout"
      BY <2>10 DEF Refuse, Fail, Goto, AuthTypeOK, Request, RotatedIsSpent
    <3>4. line' = line
      BY <2>10 DEF Refuse, Fail, Goto, AuthTypeOK, Spent
    <3>5. \A t \in Tokens : (token'[t] = "unborn") <=> (token[t] = "unborn")
      BY <2>10 DEF Refuse, Fail, Goto, AuthTypeOK, Spent
    <3>6. \A t \in Tokens : token'[t] = "active" => token[t] = "active"
      BY <2>10 DEF Refuse, Fail, Goto, AuthTypeOK, Spent
    <3>7. \A t \in Tokens : token[t] = "spent" => token'[t] = "spent"
      BY <2>10 DEF Refuse, Fail, Goto, AuthTypeOK, Spent
    <3> QED
      BY <1>0, <3>1, <3>2, <3>3, <3>4, <3>5, <3>6, <3>7, NoNewRight
  <2>11. CASE Answered(r)
    <3>1. \A q \in Reqs : Rotates(q)' => Rotates(q) /\ req'[q].tok = req[q].tok
      BY <2>11 DEF Answered, Free, AuthTypeOK, Request, Rotates, RotatedIsSpent
    <3>2. \A q \in Reqs : req'[q].pc = "rotate" => req'[q].tok \in Tokens
      BY <2>11 DEF Answered, Free, AuthTypeOK, Request, RotatedIsSpent
    <3>3. \A q \in Reqs : req'[q].pc = "spend" => req'[q].kind = "logout"
      BY <2>11 DEF Answered, Free, AuthTypeOK, Request, RotatedIsSpent
    <3>4. line' = line
      BY <2>11 DEF Answered, Free, AuthTypeOK, Spent
    <3>5. \A t \in Tokens : (token'[t] = "unborn") <=> (token[t] = "unborn")
      BY <2>11 DEF Answered, Free, AuthTypeOK, Spent
    <3>6. \A t \in Tokens : token'[t] = "active" => token[t] = "active"
      BY <2>11 DEF Answered, Free, AuthTypeOK, Spent
    <3>7. \A t \in Tokens : token[t] = "spent" => token'[t] = "spent"
      BY <2>11 DEF Answered, Free, AuthTypeOK, Spent
    <3> QED
      BY <1>0, <3>1, <3>2, <3>3, <3>4, <3>5, <3>6, <3>7, NoNewRight
  <2>12. ASSUME NEW kind \in Kind, NEW t0 \in Tokens \cup {None}, Receive(r, kind, t0)
         PROVE  AuthInv'
    <3>1. \A q \in Reqs \ {r} : req'[q] = req[q]
      BY <2>12 DEF Receive, AuthTypeOK
    <3>2. req'[r].pc = Entry[kind] /\ req'[r].kind = kind
      BY <2>12 DEF Receive, AuthTypeOK, Free
    <3>3. ~Rotates(r)' /\ req'[r].pc # "rotate" /\ (req'[r].pc = "spend" => kind = "logout")
      BY <3>2 DEF Entry, Kind, Rotates
    <3>4. \A q \in Reqs : Rotates(q)' => Rotates(q) /\ req'[q].tok = req[q].tok
      BY <3>1, <3>3 DEF Rotates
    <3>5. \A q \in Reqs : /\ req'[q].pc = "rotate" => req'[q].tok \in Tokens
                          /\ req'[q].pc = "spend" => req'[q].kind = "logout"
      BY <3>1, <3>2, <3>3 DEF RotatedIsSpent
    <3> QED
      BY <1>0, <2>12, <3>4, <3>5, NoNewRight DEF Receive
  <2> QED
    BY <2>1, <2>2, <2>3, <2>4, <2>5, <2>6, <2>7, <2>8, <2>9, <2>10, <2>11, <2>12 DEF Statement
<1> QED
  BY <1>1, <1>2

LEMMA InvHolds == AuthSpec => []AuthInv
  BY InvInit, InvStep, PTL DEF AuthSpec

\* Rows and requests keep their types, whatever requests interleave.
THEOREM AuthTyping == AuthSpec => []AuthTypeOK
<1>1. AuthInv => AuthTypeOK
  BY DEF AuthInv
<1> QED
  BY <1>1, InvHolds, PTL

\* A line of refresh tokens never has two active ends, whatever requests present a
\* token together and wherever they stop.
THEOREM LineHasOneHeir == AuthSpec => []OneHeir
<1>1. AuthInv => OneHeir
  BY DEF AuthInv, RightIsHeldOnce
<1> QED
  BY <1>1, InvHolds, PTL

----------------------------------------------------------------------------
\* A step of a page on the server's state.
LEMMA StartTakesRequest ==
  ASSUME NEW i, NEW kind \in Kind, cookie \in Tokens \cup {None}, Start(i, kind)
  PROVE  AuthNext
  BY DEF Start, AuthNext

LEMMA JoinTakesRequest ==
  ASSUME NEW i, cookie \in Tokens \cup {None}, Join(i)
  PROVE  AuthNext \/ UNCHANGED authVars
<1>1. "refresh" \in Kind
  BY DEF Kind
<1> QED
  BY <1>1, StartTakesRequest DEF Join, authVars

LEMMA AnsweredIsStep ==
  ASSUME NEW r \in Reqs, Answered(r)
  PROVE  AuthNext
  BY DEF AuthNext

\* The cookie is a token or absent: it is a token the browser was given.
CookieTyped == cookie \in Tokens \cup {None}

LEMMA CookieStep ==
  ASSUME AuthTypeOK, CookieTyped, [Next]_vars
  PROVE  CookieTyped'
<1>1. \A r \in Reqs : SetCookie(r) \in Tokens \cup {None}
  BY DEF AuthTypeOK, Request, CookieTyped, SetCookie
<1>2. CASE UNCHANGED vars
  BY <1>2 DEF vars, tabVars, CookieTyped
<1>3. CASE UNCHANGED cookie
  BY <1>3 DEF CookieTyped
<1>4. CASE \E r \in Reqs : Answer(r)
  BY <1>1, <1>4 DEF Answer, RefreshOk, RefreshFailed, LoginAnswered, LogoutAnswered,
                    OrphanAnswered, CookieTyped
<1> QED
  BY <1>2, <1>3, <1>4 DEF Next, Serve, tabVars, Reload, Mount, MeAnswers, RetryAnswers,
                          CallRefreshes, Login, Logout, ResetPassword

LEMMA TabStep ==
  ASSUME CookieTyped, [Next]_vars
  PROVE  [AuthNext]_authVars
<1>1. CASE UNCHANGED vars
  BY <1>1 DEF vars
<1>2. CASE \E r \in Reqs : Serve(r)
  BY <1>2 DEF Serve, AuthNext
<1>3. CASE \E r \in Reqs : Answer(r)
  BY <1>3, AnsweredIsStep DEF Answer, RefreshOk, RefreshFailed, LoginAnswered, LogoutAnswered,
                              OrphanAnswered, Arrives
<1>4. ASSUME NEW i \in Tabs, Reload(i) \/ RetryAnswers(i)
      PROVE  UNCHANGED authVars
  BY <1>4 DEF Reload, RetryAnswers
<1>5. ASSUME NEW i \in Tabs, Mount(i) \/ MeAnswers(i) \/ CallRefreshes(i)
      PROVE  AuthNext \/ UNCHANGED authVars
  BY <1>5, JoinTakesRequest DEF Mount, MeAnswers, CallRefreshes, CookieTyped
<1>6. ASSUME NEW i \in Tabs, Login(i) \/ Logout(i)
      PROVE  AuthNext
  <2>1. {"login", "logout"} \subseteq Kind
    BY DEF Kind
  <2> QED
    BY <1>6, <2>1, StartTakesRequest DEF Login, Logout, CookieTyped
<1>7. ASSUME ResetPassword
      PROVE  AuthNext
  BY <1>7 DEF ResetPassword, AuthNext, Kind
<1> QED
  BY <1>1, <1>2, <1>3, <1>4, <1>5, <1>6, <1>7 DEF Next

\* The tabs of a browser, whatever they race, lose and repeat, do to the server
\* nothing that its own specification does not allow.
THEOREM TabsImplementTokens == Spec => AuthSpec
<1>1. Init => AuthInit /\ CookieTyped
  BY DEF Init, CookieTyped
<1>2. AuthInv /\ CookieTyped /\ [Next]_vars => AuthInv' /\ CookieTyped' /\ [AuthNext]_authVars
  <2> SUFFICES ASSUME AuthInv, CookieTyped, [Next]_vars
               PROVE  AuthInv' /\ CookieTyped' /\ [AuthNext]_authVars
    OBVIOUS
  <2>1. [AuthNext]_authVars
    BY TabStep
  <2>2. CookieTyped'
    BY CookieStep DEF AuthInv
  <2> QED
    BY <2>1, <2>2, InvStep
<1> QED
  BY <1>1, <1>2, InvInit, PTL DEF Spec, AuthSpec

\* So a browser never holds two usable ends of one line.
THEOREM BrowserHasOneHeir == Spec => []OneHeir
  BY TabsImplementTokens, LineHasOneHeir, PTL

-----------------------------------------------------------------------------
(* Part 2. Tabs: typing, the refresh under way and those who wait for it.  *)

TabsTyped ==
    /\ cookie \in Tokens \cup {None}
    /\ by \in [Reqs -> Tabs \cup {None}]
    /\ mem \in [Tabs -> BOOLEAN]
    /\ status \in [Tabs -> {"loading", "authenticated", "unauthenticated"}]
    /\ boots \in [Tabs -> Boots]
    /\ \A i \in Tabs : BootsOf(i) <= MaxBoots
    /\ resets \in 0 .. MaxResets /\ faults \in 0 .. MaxFaults

\* Which requests reach which statement.
KindsOK ==
    \A r \in Reqs :
        /\ req[r].pc \in {"find", "rotate"} => req[r].kind = "refresh"
        /\ req[r].pc \in {"issue", "session"} => req[r].kind \in {"refresh", "login"}
        /\ req[r].pc = "revoke" => req[r].kind \in {"refresh", "logout"}
        /\ req[r].pc = "spend" => req[r].kind = "logout"
        /\ req[r].pc \in {"spendAll", "revokeAll"} => req[r].kind = "reset"

OneFlight ==
    \A r, q \in Reqs :
        by[r] \in Tabs /\ by[q] = by[r] /\ req[r].kind = "refresh" /\ req[q].kind = "refresh"
            => r = q
Awaited == \A i \in Tabs : boots[i].refresh + boots[i].refused > 0 => Flight(i) # {}

PagesOK == TabsTyped /\ KindsOK /\ OneFlight /\ Awaited
TabInv == AuthInv /\ PagesOK

-----------------------------------------------------------------------------
\* What a statement does to requests

LEMMA GotoIs ==
    ASSUME AuthTypeOK, NEW r \in Reqs, NEW pc, Goto(r, pc)
    PROVE  \A q \in Reqs :
             /\ req'[q].kind = req[q].kind /\ req'[q].tok = req[q].tok
             /\ req'[q].new = req[q].new
             /\ req'[q].pc = IF q = r THEN pc ELSE req[q].pc
BY DEF AuthTypeOK, Goto, Request

LEMMA ReceiveIs ==
    ASSUME AuthTypeOK, NEW r \in Reqs, NEW kind, NEW t, Receive(r, kind, t)
    PROVE  /\ req[r].pc = "idle" /\ req[r].kind = "none"
           /\ req'[r].kind = kind /\ req'[r].pc = Entry[kind] /\ req'[r].tok = t
           /\ \A q \in Reqs \ {r} : req'[q] = req[q]
           /\ UNCHANGED <<token, line, session>>
BY DEF AuthTypeOK, Receive, Free, Request

LEMMA AnsweredIs ==
    ASSUME AuthTypeOK, NEW r \in Reqs, Answered(r)
    PROVE  /\ req[r].pc \in {"ok", "failed"}
           /\ req'[r].kind = "none" /\ req'[r].pc = "idle" /\ req'[r].tok = None
           /\ \A q \in Reqs \ {r} : req'[q] = req[q]
           /\ UNCHANGED <<token, line, session>>
BY DEF AuthTypeOK, Answered, Free

LEMMA ServeIs ==
    ASSUME AuthTypeOK, KindsOK, NEW r \in Reqs, Statement(r) \/ Refuse(r) \/ Fail(r)
    PROVE  /\ \A q \in Reqs : req'[q].kind = req[q].kind /\ req'[q].tok = req[q].tok
           /\ KindsOK'
<1>1. ASSUME NEW pc, Goto(r, pc),
             pc = "rotate" => req[r].kind = "refresh",
             pc \in {"issue", "session"} => req[r].kind \in {"refresh", "login"},
             pc = "revoke" => req[r].kind \in {"refresh", "logout"},
             pc \notin {"find", "spend", "spendAll"},
             pc = "revokeAll" => req[r].kind = "reset"
      PROVE  /\ \A q \in Reqs : req'[q].kind = req[q].kind /\ req'[q].tok = req[q].tok
             /\ KindsOK'
  BY <1>1, GotoIs DEF KindsOK
<1>2. CASE Issue(r)
  <2>1. \A q \in Reqs : /\ req'[q].kind = req[q].kind /\ req'[q].tok = req[q].tok
                        /\ req'[q].pc = IF q = r THEN "session" ELSE req[q].pc
    BY <1>2 DEF Issue, AuthTypeOK, Request
  <2>2. req[r].kind \in {"refresh", "login"}
    BY <1>2 DEF Issue, KindsOK
  <2>. QED  BY <2>1, <2>2 DEF KindsOK
<1>3. CASE FindToken(r)
  BY <1>1, <1>3 DEF FindToken, KindsOK
<1>4. CASE Rotate(r)
  BY <1>1, <1>4 DEF Rotate, KindsOK
<1>5. CASE RevokeSession(r)
  BY <1>1, <1>5 DEF RevokeSession, KindsOK
<1>6. CASE SaveSession(r) \/ RevokeAll(r) \/ Refuse(r) \/ Fail(r)
  BY <1>1, <1>6 DEF SaveSession, RevokeAll, Refuse, Fail
<1>7. CASE Spend(r)
  BY <1>1, <1>7 DEF Spend, KindsOK
<1>8. CASE SpendAll(r)
  BY <1>1, <1>8 DEF SpendAll, KindsOK
<1>. QED  BY <1>2, <1>3, <1>4, <1>5, <1>6, <1>7, <1>8 DEF Statement

-----------------------------------------------------------------------------
\* Requests of a page

FlightsStay == \A j \in Tabs : Flight(j) # {} => Flight(j)' # {}

LEMMA StartKeeps ==
    ASSUME TabInv, NEW i \in Tabs, NEW kind \in Kind, Start(i, kind),
           kind = "refresh" => Flight(i) = {}
    PROVE  /\ by' \in [Reqs -> Tabs \cup {None}] /\ KindsOK' /\ OneFlight' /\ FlightsStay
           /\ kind = "refresh" => Flight(i)' # {}
<1>1. PICK r \in Reqs : Receive(r, kind, cookie) /\ by' = [by EXCEPT ![r] = i]
  BY DEF Start
<1>2. AuthTypeOK /\ by \in [Reqs -> Tabs \cup {None}]
  BY DEF TabInv, AuthInv, PagesOK, TabsTyped
<1>3. /\ req[r].pc = "idle" /\ req[r].kind = "none"
      /\ req'[r].kind = kind /\ req'[r].pc = Entry[kind]
      /\ \A q \in Reqs \ {r} : req'[q] = req[q]
  BY <1>1, <1>2, ReceiveIs
<1>4. by'[r] = i /\ \A q \in Reqs \ {r} : by'[q] = by[q]
  BY <1>1, <1>2
<1>5. by' \in [Reqs -> Tabs \cup {None}]
  BY <1>1, <1>2
<1>6. KindsOK'
  BY <1>3 DEF TabInv, PagesOK, KindsOK, Entry, Kind
<1>7. OneFlight'
  <2>1. ASSUME NEW q \in Reqs \ {r}, kind = "refresh", by'[q] = i
        PROVE  req'[q].kind # "refresh"
    BY <1>3, <1>4, <2>1 DEF Flight
  <2>2. \A q, w \in Reqs \ {r} :
           by[q] \in Tabs /\ by[w] = by[q] /\ req[q].kind = "refresh" /\ req[w].kind = "refresh"
             => q = w
    BY DEF TabInv, PagesOK, OneFlight
  <2>. QED  BY <1>3, <1>4, <2>1, <2>2 DEF OneFlight
<1>8. FlightsStay
  BY <1>3, <1>4 DEF FlightsStay, Flight
<1>9. kind = "refresh" => r \in Flight(i)'
  BY <1>3, <1>4 DEF Flight
<1>. QED  BY <1>5, <1>6, <1>7, <1>8, <1>9

LEMMA JoinKeeps ==
    ASSUME TabInv, NEW i \in Tabs, Join(i)
    PROVE  /\ by' \in [Reqs -> Tabs \cup {None}] /\ KindsOK' /\ OneFlight' /\ FlightsStay
           /\ Flight(i)' # {}
<1>1. CASE Flight(i) # {} /\ UNCHANGED <<authVars, by>>
  BY <1>1 DEF authVars, TabInv, PagesOK, TabsTyped, KindsOK, OneFlight, FlightsStay, Flight
<1>2. CASE Flight(i) = {} /\ Start(i, "refresh")
  BY <1>2, StartKeeps DEF Kind
<1>. QED  BY <1>1, <1>2 DEF Join

\* The answer of a request of the page i, or of no page.
LEMMA AnswerKeeps ==
    ASSUME TabInv, NEW r \in Reqs, Answered(r),
           by' \in [Reqs -> Tabs \cup {None}],
           \A q \in Reqs \ {r} : by'[q] \in {by[q], None},
           by'[r] \in {by[r], None}
    PROVE  /\ KindsOK' /\ OneFlight'
           /\ \A j \in Tabs :
                (\A q \in Reqs \ {r} : by[q] = j => by'[q] = j)
                /\ r \notin Flight(j) /\ Flight(j) # {} => Flight(j)' # {}
<1>1. /\ req'[r].kind = "none" /\ req'[r].pc = "idle"
      /\ \A q \in Reqs \ {r} : req'[q] = req[q]
  BY AnsweredIs DEF TabInv, AuthInv
<1>2. KindsOK'
  BY <1>1 DEF TabInv, PagesOK, KindsOK
<1>3. OneFlight'
  <2>1. None \notin Tabs
    BY TabsAssumption
  <2>. QED  BY <1>1, <2>1 DEF TabInv, PagesOK, OneFlight
<1>4. ASSUME NEW j \in Tabs, \A q \in Reqs \ {r} : by[q] = j => by'[q] = j,
             r \notin Flight(j), Flight(j) # {}
      PROVE  Flight(j)' # {}
  BY <1>1, <1>4 DEF Flight
<1>. QED  BY <1>2, <1>3, <1>4

-----------------------------------------------------------------------------
\* Bootstraps: their number, and what each step does to it

Bootstrap(f, m, n, t) == [refresh |-> f, me |-> m, refused |-> n, retry |-> t]

LEMMA BootsTyped ==
    ASSUME NEW b \in Boots
    PROVE  /\ b.refresh \in Nat /\ b.me \in Nat /\ b.refused \in Nat /\ b.retry \in Nat
BY TabsAssumption DEF Boots

LEMMA BootsSet ==
    ASSUME PagesOK, NEW i \in Tabs, NEW b, boots' = [boots EXCEPT ![i] = b],
           b.refresh \in Nat, b.me \in Nat, b.refused \in Nat, b.retry \in Nat,
           b = Bootstrap(b.refresh, b.me, b.refused, b.retry),
           b.refresh + b.me + b.refused + b.retry <= MaxBoots
    PROVE  boots' \in [Tabs -> Boots] /\ \A j \in Tabs : (BootsOf(j) <= MaxBoots)'
<1>1. MaxBoots \in Nat
  BY TabsAssumption
<1>2. /\ b.refresh \in 0 .. MaxBoots /\ b.me \in 0 .. MaxBoots
      /\ b.refused \in 0 .. MaxBoots /\ b.retry \in 0 .. MaxBoots
  BY <1>1
<1>3. b \in Boots
  BY <1>2 DEF Bootstrap, Boots
<1>4. boots \in [Tabs -> Boots]
  BY DEF PagesOK, TabsTyped
<1>5. boots' \in [Tabs -> Boots]
  BY <1>3, <1>4
<1>6. ASSUME NEW j \in Tabs PROVE (BootsOf(j) <= MaxBoots)'
  <2>1. CASE j = i
    BY <1>4, <2>1 DEF BootsOf
  <2>2. CASE j # i
    BY <1>4, <2>2 DEF PagesOK, TabsTyped, BootsOf
  <2>. QED  BY <2>1, <2>2
<1>. QED  BY <1>5, <1>6

LEMMA BootsAre ==
    ASSUME PagesOK, NEW i \in Tabs
    PROVE  /\ boots \in [Tabs -> Boots] /\ boots[i] \in Boots
           /\ boots[i].refresh \in Nat /\ boots[i].me \in Nat
           /\ boots[i].refused \in Nat /\ boots[i].retry \in Nat
           /\ boots[i].refresh + boots[i].me + boots[i].refused + boots[i].retry <= MaxBoots
           /\ MaxBoots \in Nat /\ MaxBoots >= 1
<1>1. boots \in [Tabs -> Boots] /\ boots[i] \in Boots /\ BootsOf(i) <= MaxBoots
  BY DEF PagesOK, TabsTyped
<1>2. MaxBoots \in Nat /\ MaxBoots >= 1
  BY TabsAssumption
<1>. QED  BY <1>1, <1>2, BootsTyped DEF BootsOf

\* A bootstrap of page i is replaced by b, which waits only if the page refreshes.
LEMMA BootstrapKeeps ==
    ASSUME TabInv, NEW i \in Tabs, NEW f \in Nat, NEW m \in Nat, NEW n \in Nat, NEW t \in Nat,
           f + m + n + t <= MaxBoots,
           boots' = [boots EXCEPT ![i] = Bootstrap(f, m, n, t)],
           CookieTyped', KindsOK', OneFlight', by' \in [Reqs -> Tabs \cup {None}],
           mem' \in [Tabs -> BOOLEAN],
           status' \in [Tabs -> {"loading", "authenticated", "unauthenticated"}],
           resets' \in 0 .. MaxResets, faults' \in 0 .. MaxFaults,
           \A j \in Tabs \ {i} : Flight(j) # {} => Flight(j)' # {},
           f + n > 0 => Flight(i)' # {}
    PROVE  PagesOK'
<1>. DEFINE b == Bootstrap(f, m, n, t)
<1>1. /\ b.refresh = f /\ b.me = m /\ b.refused = n /\ b.retry = t
      /\ b = Bootstrap(b.refresh, b.me, b.refused, b.retry)
  BY DEF Bootstrap
<1>2. boots \in [Tabs -> Boots] /\ PagesOK
  BY DEF TabInv, PagesOK, TabsTyped
<1>. HIDE DEF b
<1>3. boots' = [boots EXCEPT ![i] = b]
  BY DEF b
<1>4. boots' \in [Tabs -> Boots] /\ \A j \in Tabs : (BootsOf(j) <= MaxBoots)'
  BY <1>1, <1>2, <1>3, BootsSet
<1>5. Awaited'
  BY <1>1, <1>2, <1>3 DEF PagesOK, Awaited
<1>6. TabsTyped'
  BY <1>4 DEF TabsTyped, CookieTyped
<1>. QED  BY <1>5, <1>6 DEF PagesOK

LEMMA Bounds ==
    ASSUME PagesOK
    PROVE  /\ UNCHANGED resets \/ (resets < MaxResets /\ resets' = resets + 1)
                => resets' \in 0 .. MaxResets
           /\ UNCHANGED faults \/ Fault => faults' \in 0 .. MaxFaults
           /\ Fault => faults' # 0
BY TabsAssumption DEF PagesOK, TabsTyped, Fault

LEMMA PageKeeps ==
    ASSUME TabInv, CookieTyped', NEW i \in Tabs,
           \/ Mount(i) \/ MeAnswers(i) \/ RetryAnswers(i)
           \/ CallRefreshes(i) \/ Login(i) \/ Logout(i)
    PROVE  PagesOK'
<1>1. /\ PagesOK /\ mem \in [Tabs -> BOOLEAN]
      /\ status \in [Tabs -> {"loading", "authenticated", "unauthenticated"}]
      /\ by \in [Reqs -> Tabs \cup {None}]
  BY DEF TabInv, PagesOK, TabsTyped
<1>. DEFINE b == boots[i]
<1>2. /\ boots \in [Tabs -> Boots] /\ b \in Boots /\ b.refresh \in Nat /\ b.me \in Nat
      /\ b.refused \in Nat /\ b.retry \in Nat
      /\ b.refresh + b.me + b.refused + b.retry <= MaxBoots /\ MaxBoots >= 1
      /\ MaxBoots \in Nat
  BY <1>1, BootsAre
<1>3. b.refresh + b.refused > 0 => Flight(i) # {}
  BY <1>1 DEF PagesOK, Awaited
<1>. HIDE DEF b
<1>4. CASE Mount(i)
  <2>1. /\ Join(i) /\ UNCHANGED <<mem, status, resets, faults>>
        /\ b = NoBoots /\ boots' = [boots EXCEPT ![i] = [b EXCEPT !.refresh = 1]]
    BY <1>2, <1>4 DEF Mount, b
  <2>2. [b EXCEPT !.refresh = 1] = Bootstrap(1, 0, 0, 0)
    BY <2>1 DEF NoBoots, Bootstrap
  <2>3. boots' = [boots EXCEPT ![i] = Bootstrap(1, 0, 0, 0)]
    BY <2>1, <2>2
  <2>4. /\ by' \in [Reqs -> Tabs \cup {None}] /\ KindsOK' /\ OneFlight' /\ FlightsStay
        /\ Flight(i)' # {}
    BY <2>1, JoinKeeps
  <2>5. faults' \in 0 .. MaxFaults /\ resets' \in 0 .. MaxResets
    BY <1>1, <2>1, Bounds
  <2>6. 1 + 0 + 0 + 0 <= MaxBoots
    BY <1>2
  <2>7. mem' \in [Tabs -> BOOLEAN] /\ status' \in [Tabs -> {"loading", "authenticated", "unauthenticated"}]
    BY <1>1, <2>1
  <2>8. \A j \in Tabs \ {i} : Flight(j) # {} => Flight(j)' # {}
    BY <2>4 DEF FlightsStay
  <2>. QED  BY <2>3, <2>4, <2>5, <2>6, <2>7, <2>8, BootstrapKeeps
<1>5. CASE MeAnswers(i)
  <2>1. b.me > 0 /\ UNCHANGED <<mem, resets>> /\ b.me - 1 \in Nat
    BY <1>2, <1>5 DEF MeAnswers, b
  <2>0. [b EXCEPT !.me = @ - 1] = Bootstrap(b.refresh, b.me - 1, b.refused, b.retry)
    BY <1>2 DEF Boots, Bootstrap
  <2>2. /\ [b EXCEPT !.me = @ - 1] = Bootstrap(b.refresh, b.me - 1, b.refused, b.retry)
        /\ [b EXCEPT !.me = @ - 1, !.refused = @ + 1]
             = Bootstrap(b.refresh, b.me - 1, b.refused + 1, b.retry)
    <3>1. [b EXCEPT !.me = @ - 1, !.refused = @ + 1]
            = [Bootstrap(b.refresh, b.me - 1, b.refused, b.retry) EXCEPT !.refused = @ + 1]
      BY <2>0
    <3>2. [Bootstrap(b.refresh, b.me - 1, b.refused, b.retry) EXCEPT !.refused = @ + 1]
            = Bootstrap(b.refresh, b.me - 1, b.refused + 1, b.retry)
      BY DEF Bootstrap
    <3>. QED  BY <2>0, <3>1, <3>2
  <2>3. ASSUME NEW s \in {"authenticated", "unauthenticated"},
               status' = [status EXCEPT ![i] = s], UNCHANGED faults \/ Fault,
               boots' = [boots EXCEPT ![i].me = @ - 1], UNCHANGED <<authVars, by>>
        PROVE  PagesOK'
    <3>1. boots' = [boots EXCEPT ![i] = Bootstrap(b.refresh, b.me - 1, b.refused, b.retry)]
      BY <1>2, <2>2, <2>3 DEF b
    <3>2. /\ KindsOK' /\ OneFlight' /\ by' \in [Reqs -> Tabs \cup {None}]
          /\ \A j \in Tabs : Flight(j)' = Flight(j)
      BY <1>1, <2>3 DEF authVars, PagesOK, KindsOK, OneFlight, Flight
    <3>3. faults' \in 0 .. MaxFaults /\ resets' \in 0 .. MaxResets
      BY <1>1, <2>1, <2>3, Bounds
    <3>4. status' \in [Tabs -> {"loading", "authenticated", "unauthenticated"}]
      BY <1>1, <2>3
    <3>5. b.refresh + (b.me - 1) + b.refused + b.retry <= MaxBoots
      BY <1>2
    <3>. QED  BY <1>1, <1>2, <1>3, <2>1, <3>1, <3>2, <3>3, <3>4, <3>5, BootstrapKeeps
  <2>4. CASE /\ boots' = [boots EXCEPT ![i].me = @ - 1, ![i].refused = @ + 1]
             /\ Join(i) /\ UNCHANGED <<status, faults>>
    <3>1. boots' = [boots EXCEPT ![i] = Bootstrap(b.refresh, b.me - 1, b.refused + 1, b.retry)]
      BY <1>2, <2>2, <2>4 DEF b
    <3>2. /\ by' \in [Reqs -> Tabs \cup {None}] /\ KindsOK' /\ OneFlight' /\ FlightsStay
          /\ Flight(i)' # {}
      BY <2>4, JoinKeeps
    <3>3. b.refresh + (b.me - 1) + (b.refused + 1) + b.retry <= MaxBoots /\ b.refused + 1 \in Nat
      BY <1>2
    <3>4. faults' \in 0 .. MaxFaults /\ resets' \in 0 .. MaxResets
      BY <1>1, <2>1, <2>4, Bounds
    <3>. QED  BY <1>1, <1>2, <2>1, <2>4, <3>1, <3>2, <3>3, <3>4, BootstrapKeeps DEF FlightsStay
  <2>. QED  BY <1>5, <2>1, <2>3, <2>4 DEF MeAnswers
<1>6. CASE RetryAnswers(i)
  <2>1. /\ b.retry > 0 /\ b.retry - 1 \in Nat /\ UNCHANGED <<authVars, by, mem, resets, faults>>
        /\ boots' = [boots EXCEPT ![i] = [b EXCEPT !.retry = @ - 1]]
    BY <1>2, <1>6 DEF RetryAnswers, b
  <2>2. [b EXCEPT !.retry = @ - 1] = Bootstrap(b.refresh, b.me, b.refused, b.retry - 1)
    BY <1>2 DEF Boots, Bootstrap
  <2>3. boots' = [boots EXCEPT ![i] = Bootstrap(b.refresh, b.me, b.refused, b.retry - 1)]
    BY <2>1, <2>2
  <2>4. /\ KindsOK' /\ OneFlight' /\ by' \in [Reqs -> Tabs \cup {None}]
        /\ \A j \in Tabs : Flight(j)' = Flight(j)
    BY <1>1, <2>1 DEF authVars, PagesOK, KindsOK, OneFlight, Flight
  <2>5. status' \in [Tabs -> {"loading", "authenticated", "unauthenticated"}]
    BY <1>1, <1>6 DEF RetryAnswers
  <2>6. faults' \in 0 .. MaxFaults /\ resets' \in 0 .. MaxResets
    BY <1>1, <2>1, Bounds
  <2>7. b.refresh + b.me + b.refused + (b.retry - 1) <= MaxBoots
    BY <1>2
  <2>. QED  BY <1>1, <1>2, <1>3, <2>1, <2>3, <2>4, <2>5, <2>6, <2>7, BootstrapKeeps
<1>7. CASE CallRefreshes(i) \/ Login(i) \/ Logout(i)
  <2>1. /\ UNCHANGED <<boots, resets, faults>>
        /\ \/ Join(i)
           \/ \E kind \in Kind \ {"refresh"} : Start(i, kind)
    BY <1>7 DEF CallRefreshes, Login, Logout, Kind
  <2>2. mem' \in [Tabs -> BOOLEAN] /\ status' \in [Tabs -> {"loading", "authenticated", "unauthenticated"}]
    BY <1>1, <1>7 DEF CallRefreshes, Login, Logout
  <2>3. by' \in [Reqs -> Tabs \cup {None}] /\ KindsOK' /\ OneFlight' /\ FlightsStay
    BY <2>1, JoinKeeps, StartKeeps
  <2>4. Awaited'
    BY <1>1, <2>1, <2>3 DEF PagesOK, Awaited, FlightsStay
  <2>5. TabsTyped'
    BY <1>1, <2>1, <2>2, <2>3 DEF PagesOK, TabsTyped, CookieTyped, BootsOf
  <2>. QED  BY <2>3, <2>4, <2>5 DEF PagesOK
<1>. QED  BY <1>4, <1>5, <1>6, <1>7

-----------------------------------------------------------------------------
\* Answers, the server's statements, and pages that go

LEMMA PageStays ==
    ASSUME TabInv, CookieTyped', UNCHANGED <<mem, status, boots>>,
           by' \in [Reqs -> Tabs \cup {None}], KindsOK', OneFlight', FlightsStay,
           resets' \in 0 .. MaxResets, faults' \in 0 .. MaxFaults
    PROVE  PagesOK'
<1>1. Awaited'
  BY DEF TabInv, PagesOK, Awaited, FlightsStay
<1>2. TabsTyped'
  BY DEF TabInv, PagesOK, TabsTyped, CookieTyped, BootsOf
<1>. QED  BY <1>1, <1>2 DEF PagesOK

LEMMA LeaveKeeps ==
    ASSUME TabInv, NEW i \in Tabs, NEW a, Leave(i, a), CookieTyped', KindsOK', OneFlight',
           UNCHANGED resets,
           \A j \in Tabs \ {i} : Flight(j) # {} => Flight(j)' # {}
    PROVE  PagesOK'
<1>1. /\ PagesOK /\ mem \in [Tabs -> BOOLEAN]
      /\ status \in [Tabs -> {"loading", "authenticated", "unauthenticated"}]
      /\ by \in [Reqs -> Tabs \cup {None}]
  BY DEF TabInv, PagesOK, TabsTyped
<1>2. boots' = [boots EXCEPT ![i] = Bootstrap(0, 0, 0, 0)]
  BY DEF Leave, NoBoots, Bootstrap
<1>3. /\ mem' \in [Tabs -> BOOLEAN] /\ by' \in [Reqs -> Tabs \cup {None}]
      /\ status' \in [Tabs -> {"loading", "authenticated", "unauthenticated"}]
  BY <1>1 DEF Leave
<1>4. UNCHANGED faults \/ Fault
  BY DEF Leave
<1>5. resets' \in 0 .. MaxResets /\ faults' \in 0 .. MaxFaults
  BY <1>1, <1>4, Bounds
<1>6. 0 + 0 + 0 + 0 <= MaxBoots
  BY TabsAssumption
<1>7. 0 + 0 > 0 => Flight(i)' # {}
  OBVIOUS
<1>. QED  BY <1>2, <1>3, <1>5, <1>6, <1>7, BootstrapKeeps

LEMMA ServerKeeps ==
    ASSUME TabInv, CookieTyped', ResetPassword \/ \E r \in Reqs : Serve(r)
    PROVE  PagesOK'
<1>1. PagesOK /\ AuthTypeOK /\ by \in [Reqs -> Tabs \cup {None}]
  BY DEF TabInv, AuthInv, PagesOK, TabsTyped
<1>2. CASE ResetPassword
  <2>1. PICK r \in Reqs : Receive(r, "reset", None)
    BY <1>2 DEF ResetPassword
  <2>2. /\ req[r].kind = "none" /\ req'[r].kind = "reset" /\ req'[r].pc = Entry["reset"]
        /\ \A q \in Reqs \ {r} : req'[q] = req[q]
    BY <1>1, <2>1, ReceiveIs
  <2>3. /\ UNCHANGED <<by, mem, status, boots, faults>>
        /\ resets < MaxResets /\ resets' = resets + 1
    BY <1>2 DEF ResetPassword
  <2>4. KindsOK'
    BY <1>1, <2>2 DEF PagesOK, KindsOK, Entry
  <2>5. OneFlight'
    BY <1>1, <2>2, <2>3 DEF PagesOK, OneFlight
  <2>6. FlightsStay
    BY <2>2, <2>3 DEF FlightsStay, Flight
  <2>7. resets' \in 0 .. MaxResets /\ faults' \in 0 .. MaxFaults
    BY <1>1, <2>3, Bounds
  <2>. QED  BY <1>1, <2>3, <2>4, <2>5, <2>6, <2>7, PageStays
<1>3. ASSUME NEW r \in Reqs, Serve(r)
      PROVE  PagesOK'
  <2>1. /\ UNCHANGED <<by, mem, status, boots, resets>> /\ (UNCHANGED faults \/ Fault)
        /\ Statement(r) \/ Refuse(r) \/ Fail(r)
    BY <1>3 DEF Serve, tabVars
  <2>2. KindsOK' /\ \A q \in Reqs : req'[q].kind = req[q].kind
    BY <1>1, <2>1, ServeIs DEF PagesOK
  <2>3. OneFlight' /\ FlightsStay
    BY <1>1, <2>1, <2>2 DEF PagesOK, OneFlight, FlightsStay, Flight
  <2>4. resets' \in 0 .. MaxResets /\ faults' \in 0 .. MaxFaults
    BY <1>1, <2>1, Bounds
  <2>. QED  BY <1>1, <2>1, <2>2, <2>3, <2>4, PageStays
<1>. QED  BY <1>2, <1>3

LEMMA RefreshAnswered ==
    ASSUME TabInv, CookieTyped', NEW r \in Reqs, NEW i \in Tabs, i = by[r],
           RefreshOk(r) \/ RefreshFailed(r)
    PROVE  PagesOK'
<1>. DEFINE b == boots[i]
<1>1. /\ PagesOK /\ mem \in [Tabs -> BOOLEAN]
      /\ status \in [Tabs -> {"loading", "authenticated", "unauthenticated"}]
      /\ by \in [Reqs -> Tabs \cup {None}]
  BY DEF TabInv, PagesOK, TabsTyped
<1>2. /\ Answered(r) /\ req[r].kind = "refresh" /\ by' = [by EXCEPT ![r] = None]
  BY DEF RefreshOk, RefreshFailed, Arrives
<1>4. by' \in [Reqs -> Tabs \cup {None}] /\ by'[r] = None /\ \A q \in Reqs \ {r} : by'[q] = by[q]
  BY <1>1, <1>2
<1>5. KindsOK' /\ OneFlight' /\ \A j \in Tabs \ {i} : Flight(j) # {} => Flight(j)' # {}
  <2>1. \A j \in Tabs \ {i} : r \notin Flight(j)
    BY DEF Flight
  <2>. QED  BY <1>2, <1>4, <2>1, AnswerKeeps
<1>6. /\ boots \in [Tabs -> Boots] /\ b \in Boots /\ b.refresh \in Nat /\ b.me \in Nat
      /\ b.refused \in Nat /\ b.retry \in Nat
      /\ b.refresh + b.me + b.refused + b.retry <= MaxBoots
      /\ MaxBoots \in Nat
  BY <1>1, BootsAre
<1>7. CASE RefreshOk(r)
  <2>1. boots' = [boots EXCEPT ![i] =
                    Bootstrap(0, b.me + b.refresh + 1, 0, b.retry + b.refused)]
    BY <1>7 DEF RefreshOk, Bootstrap
  <2>2. b.refresh + b.me + b.refused + b.retry < MaxBoots
    BY <1>7 DEF RefreshOk, BootsOf
  <2>3. mem' \in [Tabs -> BOOLEAN] /\ UNCHANGED <<status, resets, faults>>
    BY <1>1, <1>7 DEF RefreshOk
  <2>. HIDE DEF b
  <2>. DEFINE m == b.me + b.refresh + 1
              t == b.retry + b.refused
  <2>4. 0 + m + 0 + t <= MaxBoots /\ m \in Nat /\ t \in Nat
    BY <1>6, <2>2
  <2>5. resets' \in 0 .. MaxResets /\ faults' \in 0 .. MaxFaults
    BY <1>1, <2>3 DEF PagesOK, TabsTyped
  <2>6. 0 + 0 > 0 => Flight(i)' # {}
    OBVIOUS
  <2>7. boots' = [boots EXCEPT ![i] = Bootstrap(0, m, 0, t)]
    BY <2>1
  <2>8. status' \in [Tabs -> {"loading", "authenticated", "unauthenticated"}]
    BY <1>1, <2>3
  <2>. HIDE DEF m, t
  <2>. QED  BY <1>4, <1>5, <2>3, <2>4, <2>5, <2>6, <2>7, <2>8, BootstrapKeeps
<1>8. CASE RefreshFailed(r)
  <2>1. boots' = [boots EXCEPT ![i].refresh = 0, ![i].refused = 0]
    BY <1>8 DEF RefreshFailed
  <2>2. boots' = [boots EXCEPT ![i] = [b EXCEPT !.refresh = 0, !.refused = 0]]
    BY <1>6, <2>1
  <2>3. mem' \in [Tabs -> BOOLEAN] /\ (UNCHANGED faults \/ Fault) /\ UNCHANGED resets
        /\ status' \in [Tabs -> {"loading", "authenticated", "unauthenticated"}]
    BY <1>1, <1>8 DEF RefreshFailed
  <2>. HIDE DEF b
  <2>4. b = Bootstrap(b.refresh, b.me, b.refused, b.retry)
    BY <1>6 DEF Boots, Bootstrap
  <2>5. [b EXCEPT !.refresh = 0, !.refused = 0] = Bootstrap(0, b.me, 0, b.retry)
    <3>1. [b EXCEPT !.refresh = 0] = Bootstrap(0, b.me, b.refused, b.retry)
      BY <1>6 DEF Boots, Bootstrap
    <3>2. [b EXCEPT !.refresh = 0, !.refused = 0]
            = [Bootstrap(0, b.me, b.refused, b.retry) EXCEPT !.refused = 0]
      BY <3>1
    <3>3. [Bootstrap(0, b.me, b.refused, b.retry) EXCEPT !.refused = 0]
            = Bootstrap(0, b.me, 0, b.retry)
      BY DEF Bootstrap
    <3>. QED  BY <3>2, <3>3
  <2>6. boots' = [boots EXCEPT ![i] = Bootstrap(0, b.me, 0, b.retry)]
    BY <2>2, <2>5
  <2>7. 0 + b.me + 0 + b.retry <= MaxBoots /\ b.me \in Nat /\ b.retry \in Nat
    BY <1>6
  <2>8. resets' \in 0 .. MaxResets /\ faults' \in 0 .. MaxFaults
    BY <1>1, <2>3, Bounds
  <2>9. 0 + 0 > 0 => Flight(i)' # {}
    OBVIOUS
  <2>. QED  BY <1>4, <1>5, <2>3, <2>6, <2>7, <2>8, <2>9, BootstrapKeeps
<1>. QED  BY <1>7, <1>8

LEMMA OtherAnswered ==
    ASSUME TabInv, CookieTyped', NEW r \in Reqs,
           LoginAnswered(r) \/ LogoutAnswered(r) \/ OrphanAnswered(r)
    PROVE  PagesOK'
<1>1. PagesOK /\ by \in [Reqs -> Tabs \cup {None}] /\ None \notin Tabs
  BY TabsAssumption DEF TabInv, PagesOK, TabsTyped
<1>2. Answered(r) /\ UNCHANGED resets
  BY DEF LoginAnswered, LogoutAnswered, OrphanAnswered, Arrives
<1>3. \A j \in Tabs : r \notin Flight(j)
  BY <1>1 DEF LoginAnswered, LogoutAnswered, OrphanAnswered, Arrives, Flight
<1>4. ASSUME UNCHANGED <<mem, status, boots, faults>>,
             by' = [by EXCEPT ![r] = None] \/ UNCHANGED by
      PROVE  PagesOK'
  <2>1. /\ by' \in [Reqs -> Tabs \cup {None}] /\ by'[r] \in {by[r], None}
        /\ \A q \in Reqs \ {r} : by'[q] = by[q]
    BY <1>1, <1>4
  <2>2. KindsOK' /\ OneFlight' /\ FlightsStay
    BY <1>2, <1>3, <2>1, AnswerKeeps DEF FlightsStay
  <2>3. resets' \in 0 .. MaxResets /\ faults' \in 0 .. MaxFaults
    BY <1>1, <1>2, <1>4 DEF PagesOK, TabsTyped
  <2>. QED  BY <1>4, <2>1, <2>2, <2>3, PageStays
<1>5. CASE by[r] # None /\ Leave(by[r], r)
  <2>1. by[r] \in Tabs
    BY <1>1, <1>5
  <2>2. by' = [q \in Reqs |-> IF by[q] = by[r] THEN None ELSE by[q]]
    BY <1>5 DEF Leave
  <2>3. /\ by' \in [Reqs -> Tabs \cup {None}]
        /\ \A q \in Reqs : by'[q] \in {by[q], None}
        /\ \A j \in Tabs \ {by[r]} : \A q \in Reqs \ {r} : by[q] = j => by'[q] = j
    BY <1>1, <2>2
  <2>4. KindsOK' /\ OneFlight' /\ \A j \in Tabs \ {by[r]} : Flight(j) # {} => Flight(j)' # {}
    BY <1>2, <1>3, <2>3, AnswerKeeps
  <2>. QED  BY <1>2, <1>5, <2>1, <2>4, LeaveKeeps
<1>6. \/ by[r] # None /\ Leave(by[r], r)
      \/ /\ UNCHANGED <<mem, status, boots, faults>>
         /\ by' = [by EXCEPT ![r] = None] \/ UNCHANGED by
  BY DEF LoginAnswered, LogoutAnswered, OrphanAnswered, Arrives
<1>. QED  BY <1>4, <1>5, <1>6

LEMMA ReloadKeeps ==
    ASSUME TabInv, CookieTyped', NEW i \in Tabs, Reload(i)
    PROVE  PagesOK'
<1>1. PagesOK /\ by \in [Reqs -> Tabs \cup {None}] /\ None \notin Tabs
  BY TabsAssumption DEF TabInv, PagesOK, TabsTyped
<1>2. Leave(i, None) /\ UNCHANGED <<token, line, session, req, resets>>
  BY DEF Reload, authVars
<1>3. by' = [q \in Reqs |-> IF by[q] = i THEN None ELSE by[q]]
  BY <1>2 DEF Leave
<1>4. KindsOK' /\ OneFlight' /\ \A j \in Tabs \ {i} : Flight(j) # {} => Flight(j)' # {}
  BY <1>1, <1>2, <1>3 DEF PagesOK, KindsOK, OneFlight, Flight
<1>. QED  BY <1>2, <1>4, LeaveKeeps

LEMMA TabInvInit == Init => TabInv
<1>. SUFFICES ASSUME Init PROVE TabInv
  OBVIOUS
<1>1. AuthInv
  BY InvInit DEF Init
<1>2. KindsOK /\ OneFlight
  BY TabsAssumption DEF Init, AuthInit, Free, KindsOK, OneFlight
<1>3. NoBoots \in Boots /\ NoBoots.refresh = 0 /\ NoBoots.me = 0 /\ NoBoots.refused = 0
      /\ NoBoots.retry = 0
  BY TabsAssumption DEF NoBoots, Boots
<1>4. \A i \in Tabs : BootsOf(i) <= MaxBoots
  BY <1>3, TabsAssumption DEF Init, BootsOf
<1>5. TabsTyped
  BY <1>3, <1>4, TabsAssumption DEF Init, TabsTyped
<1>6. Awaited
  BY <1>3 DEF Init, Awaited
<1>. QED  BY <1>1, <1>2, <1>5, <1>6 DEF TabInv, PagesOK

LEMMA TabInvStep == TabInv /\ [Next]_vars => TabInv'
<1>. SUFFICES ASSUME TabInv, [Next]_vars PROVE TabInv'
  OBVIOUS
<1>1. CookieTyped
  BY DEF TabInv, PagesOK, TabsTyped, CookieTyped
<1>2. CookieTyped' /\ AuthInv'
  BY <1>1, TabStep, CookieStep, InvStep DEF TabInv, AuthInv
<1>3. CASE UNCHANGED vars
  <2>1. FlightsStay /\ by' \in [Reqs -> Tabs \cup {None}] /\ KindsOK' /\ OneFlight'
        /\ resets' \in 0 .. MaxResets /\ faults' \in 0 .. MaxFaults
    BY <1>3 DEF vars, authVars, tabVars, TabInv, PagesOK, TabsTyped, KindsOK, OneFlight,
                FlightsStay, Flight
  <2>2. PagesOK'
    BY <1>2, <1>3, <2>1, PageStays DEF vars, tabVars
  <2>. QED  BY <1>2, <2>2 DEF TabInv
<1>4. CASE Next
  <2>0. ASSUME NEW r \in Reqs, RefreshOk(r) \/ RefreshFailed(r)
        PROVE  PagesOK'
    <3>1. by[r] \in Tabs
      BY <2>0 DEF RefreshOk, RefreshFailed, TabInv, PagesOK, TabsTyped
    <3>2. PICK i \in Tabs : i = by[r]
      BY <3>1
    <3>. QED  BY <1>2, <2>0, <3>2, RefreshAnswered
  <2>1. PagesOK'
    BY <1>2, <1>4, <2>0, ServerKeeps, OtherAnswered, ReloadKeeps, PageKeeps DEF Next, Answer
  <2>. QED  BY <1>2, <2>1 DEF TabInv
<1>. QED  BY <1>3, <1>4

LEMMA TabInvHolds == Spec => []TabInv
  BY TabInvInit, TabInvStep, PTL DEF Spec

\* The tabs keep their types, with the bootstraps of a page within their bound,
\* whatever pages reload and whatever order the answers arrive in.
THEOREM TabTyping == Spec => []TypeOK
<1>1. TabInv => TypeOK
  BY DEF TabInv, AuthInv, PagesOK, TabsTyped, TypeOK
<1>. QED  BY <1>1, TabInvHolds, PTL

\* refreshSession is single-flight: a tab never has two refreshes under way, and a
\* caller that joined one is never left with a promise nobody will settle.
THEOREM WaitersAreAnswered == Spec => []WaitersHaveFlight
<1>1. ASSUME TabInv, NEW i \in Tabs
      PROVE  Cardinality(Flight(i)) <= 1
  <2>1. CASE Flight(i) = {}
    BY <2>1, FS_EmptySet
  <2>2. CASE Flight(i) # {}
    <3>1. PICK r \in Reqs : r \in Flight(i)
      BY <2>2 DEF Flight
    <3>2. Flight(i) = {r}
      BY <1>1, <3>1 DEF TabInv, PagesOK, OneFlight, Flight
    <3>3. Cardinality({r}) = 1
      BY FS_Singleton
    <3>4. Cardinality(Flight(i)) = 1
      BY <3>2, <3>3
    <3>. QED  BY <3>4
  <2>. QED  BY <2>1, <2>2
<1>2. TabInv => WaitersHaveFlight
  BY <1>1 DEF TabInv, PagesOK, Awaited, WaitersHaveFlight
<1>. QED  BY <1>2, TabInvHolds, PTL

-----------------------------------------------------------------------------
(* Part 3. While nothing fails and no password is reset.                   *)

CallsAreAwaited == \A r \in Reqs : req[r].pc # "idle" => by[r] # None
NoReset == \A r \in Reqs : req[r].kind # "reset"

\* What a request presents, and what the browser holds, was issued.
Born ==
    /\ cookie # None => token[cookie] # "unborn"
    /\ \A r \in Reqs : req[r].tok # None => token[req[r].tok] # "unborn"
    /\ \A t \in Tokens : token[t] = "unborn" => session[t] = "none"

\* A request that has issued a token and is not answered is alone in holding it.
Carries(r) == \/ req[r].pc = "session"
              \/ req[r].pc = "ok" /\ req[r].kind \in {"refresh", "login"}
Holds(r) ==
    LET t == req[r].new
    IN  /\ t \in Tokens /\ token[t] = "active" /\ cookie # t
        /\ \A q \in Reqs : req[q].tok # t
        /\ \A q \in Reqs \ {r} : Carries(q) => req[q].new # t
NewIsOurs == \A r \in Reqs : Carries(r) => Holds(r)

RevokesSpent ==
    \A r \in Reqs : req[r].pc = "revoke" => req[r].tok \in Tokens /\ token[req[r].tok] = "spent"

\* A spent token at the end of a line that nothing prolongs.
Over(t) == LineEnded(line[t])
Revokes(r, t) == req[r].kind = "refresh" /\ req[r].pc = "revoke" /\ req[r].tok = t
Matches ==
    \A t \in Tokens :
        /\ session[t] = "revoked" => token[t] = "spent"
        /\ session[t] = "active" /\ token[t] = "spent" =>
             (\E r \in Reqs : Revokes(r, t)) \/ Over(t)

Replaces(r) == /\ req[r].tok = cookie /\ req[r].kind = "refresh"
               /\ req[r].pc \in {"revoke", "issue", "session", "ok"}
Replaced ==
    cookie # None /\ token[cookie] = "spent" => (\E r \in Reqs : Replaces(r)) \/ Over(cookie)

Calm == resets = 0 /\ faults = 0
CalmBody == CallsAreAwaited /\ NoReset /\ Born /\ NewIsOurs /\ RevokesSpent /\ Matches /\ Replaced
CalmInv == Calm => CalmBody

\* LineEnded, by whom it keeps away: active tokens, and requests that rotate one.
Apart(t) ==
    /\ \A u \in Tokens : token[u] = "active" => line[u] # line[t]
    /\ \A q \in Reqs : Rotates(q) => line[req[q].tok] # line[t]

\* A line that has ended stays so: its rights were held once, and nobody is left.
OverStays == \A t \in Tokens : token[t] = "spent" /\ Over(t) => Over(t)'

LEMMA LineStaysEnded ==
    ASSUME AuthInv, [AuthNext]_authVars
    PROVE  OverStays
<1>. SUFFICES ASSUME NEW t \in Tokens, token[t] = "spent", LineEnded(line[t])
              PROVE  LineEnded(line[t])'
  BY DEF OverStays, Over
<1>1. AuthTypeOK /\ LinesAreBorn /\ RotatedIsSpent /\ AuthTypeOK'
  BY InvStep DEF AuthInv
<1>2. Apart(t) /\ line[t] \in Tokens /\ token[line[t]] # "unborn"
  BY <1>1 DEF Apart, LineEnded, Heirs, Rotating, Rotates, LinesAreBorn
<1>3. SUFFICES Apart(t)'
  BY DEF Apart, LineEnded, Heirs, Rotating, Rotates
<1>4. CASE /\ UNCHANGED line
           /\ \A u \in Tokens : token'[u] = "active" => token[u] = "active"
           /\ \A q \in Reqs : Rotates(q)' =>
                /\ req'[q].tok = req[q].tok
                /\ \/ Rotates(q)
                   \/ req[q].tok \in Tokens /\ token[req[q].tok] = "active"
  BY <1>2, <1>4 DEF Apart
<1>5. CASE UNCHANGED authVars
  BY <1>4, <1>5 DEF authVars, Rotates
<1>6. ASSUME NEW r \in Reqs, Issue(r) PROVE Apart(t)'
  <2>1. PICK n \in Tokens :
          /\ token[n] = "unborn" /\ token' = [token EXCEPT ![n] = "active"]
          /\ line' = [line EXCEPT ![n] = IF req[r].kind = "refresh" THEN line[req[r].tok] ELSE n]
          /\ req' = [req EXCEPT ![r].pc = "session", ![r].new = n]
    BY <1>6 DEF Issue
  <2>2. /\ token'[n] = "active" /\ \A u \in Tokens \ {n} : token'[u] = token[u]
        /\ line'[n] = IF req[r].kind = "refresh" THEN line[req[r].tok] ELSE n
        /\ \A u \in Tokens \ {n} : line'[u] = line[u]
    BY <1>1, <2>1 DEF AuthTypeOK
  <2>3. \A q \in Reqs : /\ req'[q].tok = req[q].tok
                        /\ Rotates(q)' => Rotates(q)
    BY <1>1, <2>1 DEF AuthTypeOK, Request, Rotates
  <2>4. line'[n] # line[t]
    BY <1>2, <1>6, <2>1, <2>2 DEF Issue, Rotates, Apart
  <2>5. t # n /\ \A q \in Reqs : Rotates(q) => req[q].tok \in Tokens \ {n}
    BY <1>1, <2>1 DEF RotatedIsSpent
  <2>. QED  BY <1>2, <2>2, <2>3, <2>4, <2>5 DEF Apart
<1>7. ASSUME NEW r \in Reqs, NEW pc, Goto(r, pc), UNCHANGED line,
             \A u \in Tokens : token'[u] = "active" => token[u] = "active",
             \/ pc \notin {"revoke", "issue"}
             \/ req[r].kind # "refresh"
             \/ req[r].pc \in {"revoke", "issue"}
             \/ req[r].tok \in Tokens /\ token[req[r].tok] = "active"
      PROVE  Apart(t)'
  <2>1. \A q \in Reqs : /\ req'[q].tok = req[q].tok /\ req'[q].kind = req[q].kind
                        /\ req'[q].pc = IF q = r THEN pc ELSE req[q].pc
    BY <1>1, <1>7 DEF AuthTypeOK, Request, Goto
  <2>2. \A q \in Reqs : Rotates(q)' =>
          Rotates(q) \/ (req[q].tok \in Tokens /\ token[req[q].tok] = "active")
    BY <1>7, <2>1 DEF Rotates
  <2>. QED  BY <1>4, <1>7, <2>1, <2>2
<1>8. ASSUME NEW r \in Reqs, Statement(r) PROVE Apart(t)'
  <2>1. CASE FindToken(r)
    BY <1>7, <2>1 DEF FindToken
  <2>2. CASE Rotate(r)
    <3>1. req[r].tok \in Tokens
      BY <1>1, <2>2 DEF Rotate, RotatedIsSpent
    <3>2. \A u \in Tokens : token'[u] = "active" => token[u] = "active"
      BY <1>1, <2>2 DEF Rotate, AuthTypeOK
    <3>. QED  BY <1>7, <2>2, <3>1, <3>2 DEF Rotate
  <2>3. CASE RevokeSession(r) \/ SaveSession(r) \/ RevokeAll(r)
    BY <1>7, <2>3 DEF RevokeSession, SaveSession, RevokeAll
  <2>4. CASE Spend(r) \/ SpendAll(r)
    <3>1. \A u \in Tokens : token'[u] = "active" => token[u] = "active"
      BY <1>1, <2>4 DEF Spend, SpendAll, Spent, AuthTypeOK
    <3>2. Spend(r) => req[r].kind = "logout"
      BY <1>1 DEF Spend, RotatedIsSpent
    <3>. QED  BY <1>7, <2>4, <3>1, <3>2 DEF Spend, SpendAll
  <2>. QED  BY <1>6, <1>8, <2>1, <2>2, <2>3, <2>4 DEF Statement
<1>9. ASSUME NEW r \in Reqs, Refuse(r) \/ Fail(r) PROVE Apart(t)'
  BY <1>7, <1>9 DEF Refuse, Fail
<1>10. ASSUME NEW r \in Reqs,
              \/ Answered(r)
              \/ \E kind \in Kind, u \in Tokens \cup {None} : Receive(r, kind, u)
       PROVE  Apart(t)'
  <2>1. UNCHANGED <<token, line>>
    BY <1>10 DEF Answered, Receive
  <2>2. ~Rotates(r)'
    <3>1. CASE Answered(r)
      BY <1>1, <3>1, AnsweredIs DEF Rotates
    <3>2. ASSUME NEW kind \in Kind, NEW u \in Tokens \cup {None}, Receive(r, kind, u)
          PROVE  ~Rotates(r)'
      BY <1>1, <3>2, ReceiveIs DEF Rotates, Entry, Kind
    <3>. QED  BY <1>10, <3>1, <3>2
  <2>3. \A q \in Reqs \ {r} : req'[q] = req[q]
    BY <1>1, <1>10 DEF Answered, Receive, AuthTypeOK
  <2>4. \A q \in Reqs : Rotates(q)' => Rotates(q) /\ req'[q].tok = req[q].tok
    BY <2>2, <2>3 DEF Rotates
  <2>. QED  BY <1>4, <2>1, <2>4
<1>. QED  BY <1>5, <1>8, <1>9, <1>10 DEF AuthNext

\* A logout that spends the end of a line ends it.
LEMMA LogoutEndsLine ==
    ASSUME AuthInv, NEW r \in Reqs, req[r].kind = "logout", Goto(r, "revoke"),
           NEW t \in Tokens, token[t] = "active", token' = [token EXCEPT ![t] = "spent"],
           UNCHANGED line
    PROVE  Over(t)'
<1>1. AuthTypeOK /\ LinesAreBorn /\ RightIsHeldOnce
  BY DEF AuthInv
<1>2. line[t] \in Tokens /\ \A u \in Tokens : token'[u] = "active" => token[u] = "active" /\ u # t
  BY <1>1 DEF LinesAreBorn, AuthTypeOK
<1>3. \A u \in Tokens : token'[u] = "active" => line[u] # line[t]
  BY <1>1, <1>2 DEF RightIsHeldOnce, OneHeir, Heirs
<1>4. \A q \in Reqs : Rotates(q)' => Rotates(q) /\ req'[q].tok = req[q].tok
  BY <1>1 DEF AuthTypeOK, Request, Goto, Rotates
<1>5. \A q \in Reqs : Rotates(q)' => line[req'[q].tok] # line[t]
  BY <1>1, <1>4 DEF RightIsHeldOnce
<1>. QED  BY <1>3, <1>5 DEF Over, LineEnded, Heirs, Rotating, Rotates

\* A statement that writes no row: a read, a refusal, a logout without a cookie, and
\* the one a logout cannot run.
LEMMA CalmGoto ==
    ASSUME AuthTypeOK, CookieTyped, CalmBody, OverStays, NEW r \in Reqs, NEW pc, Goto(r, pc),
           UNCHANGED <<token, session, cookie, by>>,
           pc \in {"rotate", "failed"} \/ (pc = "ok" /\ req[r].kind = "logout"),
           req[r].pc # "idle", req[r].pc = "revoke" => req[r].kind = "logout", ~Replaces(r)
    PROVE  CalmBody'
<1>1. \A q \in Reqs :
        /\ req'[q].kind = req[q].kind /\ req'[q].tok = req[q].tok /\ req'[q].new = req[q].new
        /\ req'[q].pc = IF q = r THEN pc ELSE req[q].pc
  BY GotoIs
<1>2. \A q \in Reqs : Carries(q)' => Carries(q)
  BY <1>1 DEF Carries
<1>3. NewIsOurs'
  BY <1>1, <1>2 DEF CalmBody, NewIsOurs, Holds
<1>4. CallsAreAwaited' /\ NoReset' /\ Born' /\ RevokesSpent'
  BY <1>1 DEF CalmBody, CallsAreAwaited, NoReset, Born, RevokesSpent
<1>5. Matches'
  BY <1>1 DEF CalmBody, Matches, Revokes, OverStays
<1>6. Replaced'
  BY <1>1 DEF CalmBody, Replaced, Replaces, CookieTyped, OverStays
<1>. QED  BY <1>3, <1>4, <1>5, <1>6 DEF CalmBody

\* A token is spent, by a refresh or by a logout.
LEMMA CalmSpend ==
    ASSUME AuthTypeOK, CookieTyped, CalmBody, OverStays, NEW r \in Reqs, Goto(r, "revoke"),
           NEW t \in Tokens, t = req[r].tok, token' = [token EXCEPT ![t] = "spent"],
           UNCHANGED <<session, cookie, by>>,
           req[r].kind = "refresh" \/ (token[t] = "active" => Over(t)'),
           req[r].pc \in {"rotate", "spend"}
    PROVE  CalmBody'
<1>1. \A q \in Reqs :
        /\ req'[q].kind = req[q].kind /\ req'[q].tok = req[q].tok /\ req'[q].new = req[q].new
        /\ req'[q].pc = IF q = r THEN "revoke" ELSE req[q].pc
  BY GotoIs
<1>2. /\ token \in [Tokens -> {"unborn", "active", "spent"}] /\ token'[t] = "spent"
      /\ \A u \in Tokens \ {t} : token'[u] = token[u]
  BY DEF AuthTypeOK
<1>3. \A q \in Reqs : Carries(q)' => Carries(q)
  BY <1>1 DEF Carries
<1>4. NewIsOurs'
  BY <1>1, <1>2, <1>3 DEF CalmBody, NewIsOurs, Holds
<1>5. token[t] # "unborn"
  BY TokensAssumption DEF CalmBody, Born
<1>6. CallsAreAwaited' /\ NoReset' /\ RevokesSpent'
  BY <1>1, <1>2 DEF CalmBody, CallsAreAwaited, NoReset, RevokesSpent
<1>7. Born'
  BY <1>1, <1>2, <1>5 DEF CalmBody, Born, AuthTypeOK, Request
<1>8. \A q \in Reqs, u \in Tokens : Revokes(q, u) => Revokes(q, u)'
  BY <1>1 DEF Revokes
<1>9. Matches'
  <2>1. ASSUME NEW u \in Tokens, session[u] = "active", token'[u] = "spent"
        PROVE  (\E q \in Reqs : Revokes(q, u)') \/ Over(u)'
    <3>1. CASE token[u] = "spent"
      BY <1>8, <2>1, <3>1 DEF CalmBody, Matches, OverStays
    <3>2. CASE token[u] # "spent"
      <4>1. u = t /\ token[t] = "active"
        BY <1>2, <1>5, <2>1, <3>2
      <4>. QED  BY <1>1, <4>1 DEF Revokes
    <3>. QED  BY <3>1, <3>2
  <2>2. \A u \in Tokens : session[u] = "revoked" => token'[u] = "spent"
    BY <1>2 DEF CalmBody, Matches
  <2>. QED  BY <2>1, <2>2 DEF Matches
<1>10. \A q \in Reqs : Replaces(q) => Replaces(q)'
  BY <1>1 DEF Replaces
<1>11. Replaced'
  <2>. SUFFICES ASSUME cookie # None, token'[cookie] = "spent"
                PROVE  (\E q \in Reqs : Replaces(q)') \/ Over(cookie)'
    BY DEF Replaced
  <2>1. cookie \in Tokens
    BY DEF CookieTyped
  <2>2. CASE token[cookie] = "spent"
    BY <1>10, <2>1, <2>2 DEF CalmBody, Replaced, OverStays
  <2>3. CASE token[cookie] # "spent"
    <3>1. cookie = t /\ token[t] = "active"
      BY <1>2, <1>5, <2>1, <2>3
    <3>. QED  BY <1>1, <3>1 DEF Replaces
  <2>. QED  BY <2>2, <2>3
<1>. QED  BY <1>4, <1>6, <1>7, <1>9, <1>11 DEF CalmBody

LEMMA CalmRevoke ==
    ASSUME AuthTypeOK, CookieTyped, CalmBody, OverStays, NEW r \in Reqs, RevokeSession(r),
           req[r].kind = "refresh", UNCHANGED <<cookie, by>>
    PROVE  CalmBody'
<1>1. \A q \in Reqs :
        /\ req'[q].kind = req[q].kind /\ req'[q].tok = req[q].tok /\ req'[q].new = req[q].new
        /\ req'[q].pc = IF q = r THEN "issue" ELSE req[q].pc
  BY GotoIs DEF RevokeSession
<1>2. req[r].pc = "revoke" /\ UNCHANGED token
  BY DEF RevokeSession
<1>3. PICK t \in Tokens : t = req[r].tok /\ token[t] = "spent"
  BY <1>2 DEF CalmBody, RevokesSpent
<1>4. /\ session \in [Tokens -> {"none", "active", "revoked"}]
      /\ session'[t] = Revoked(session[t]) /\ \A u \in Tokens \ {t} : session'[u] = session[u]
  BY <1>3 DEF RevokeSession, AuthTypeOK
<1>5. \A q \in Reqs : Carries(q)' => Carries(q)
  BY <1>1, <1>2 DEF Carries
<1>6. NewIsOurs'
  BY <1>1, <1>2, <1>5 DEF CalmBody, NewIsOurs, Holds
<1>7. CallsAreAwaited' /\ NoReset' /\ RevokesSpent'
  BY <1>1, <1>2 DEF CalmBody, CallsAreAwaited, NoReset, RevokesSpent
<1>8. Born'
  BY <1>1, <1>2, <1>3, <1>4 DEF CalmBody, Born
<1>9. Matches'
  <2>1. session'[t] # "active"
    BY <1>4 DEF Revoked
  <2>2. ASSUME NEW u \in Tokens \ {t}, session[u] = "active", token[u] = "spent"
        PROVE  (\E q \in Reqs : Revokes(q, u)') \/ Over(u)'
    <3>1. ASSUME NEW q \in Reqs, Revokes(q, u)
          PROVE  Revokes(q, u)'
      BY <1>1, <1>3, <3>1 DEF Revokes
    <3>. QED  BY <2>2, <3>1 DEF CalmBody, Matches, OverStays
  <2>. QED  BY <1>2, <1>3, <1>4, <2>1, <2>2 DEF CalmBody, Matches
<1>10. Replaced'
  BY <1>1, <1>2 DEF CalmBody, Replaced, Replaces, CookieTyped, OverStays
<1>. QED  BY <1>6, <1>7, <1>8, <1>9, <1>10 DEF CalmBody

LEMMA CalmIssue ==
    ASSUME AuthTypeOK, KindsOK, CookieTyped, CalmBody, OverStays, NEW r \in Reqs, Issue(r), UNCHANGED <<cookie, by>>
    PROVE  CalmBody'
<1>1. PICK t \in Tokens :
        /\ token[t] = "unborn" /\ token' = [token EXCEPT ![t] = "active"]
        /\ req' = [req EXCEPT ![r].pc = "session", ![r].new = t]
  BY DEF Issue
<1>2. /\ token \in [Tokens -> {"unborn", "active", "spent"}] /\ token'[t] = "active"
      /\ \A u \in Tokens \ {t} : token'[u] = token[u]
  BY <1>1 DEF AuthTypeOK
<1>3. /\ \A q \in Reqs \ {r} : req'[q] = req[q]
      /\ req'[r].kind = req[r].kind /\ req'[r].tok = req[r].tok
      /\ req'[r].pc = "session" /\ req'[r].new = t
  BY <1>1 DEF AuthTypeOK, Request
<1>4. req[r].pc = "issue" /\ UNCHANGED session
  BY DEF Issue
<1>5. cookie # t /\ \A q \in Reqs : req[q].tok # t
  BY <1>1, TokensAssumption DEF CalmBody, Born
<1>6. \A q \in Reqs \ {r} : (Carries(q)' <=> Carries(q)) /\ (Carries(q) => req[q].new # t)
  BY <1>1, <1>3 DEF CalmBody, NewIsOurs, Holds, Carries
<1>7. Holds(r)'
  BY <1>2, <1>3, <1>5, <1>6 DEF Holds
<1>8. ASSUME NEW q \in Reqs \ {r}, Carries(q)'
      PROVE  Holds(q)'
  <2>1. Holds(q) /\ req[q].new # t
    BY <1>6, <1>8 DEF CalmBody, NewIsOurs
  <2>. QED  BY <1>2, <1>3, <1>6, <2>1 DEF Holds
<1>9. CallsAreAwaited' /\ NoReset' /\ RevokesSpent'
  <2>1. CallsAreAwaited' /\ NoReset'
    BY <1>3, <1>4 DEF CalmBody, CallsAreAwaited, NoReset
  <2>2. \A u \in Tokens : token[u] = "spent" => token'[u] = "spent"
    BY <1>1, <1>2
  <2>3. ASSUME NEW q \in Reqs, req'[q].pc = "revoke"
        PROVE  q # r /\ req[q].pc = "revoke" /\ req'[q].tok = req[q].tok
    BY <1>3, <2>3
  <2>4. RevokesSpent'
    BY <2>2, <2>3 DEF CalmBody, RevokesSpent
  <2>. QED  BY <2>1, <2>4
<1>10. /\ \A q \in Reqs : /\ req'[q].kind = req[q].kind /\ req'[q].tok = req[q].tok
                          /\ req[q].tok \in Tokens \cup {None}
                          /\ req'[q].pc = IF q = r THEN "session" ELSE req[q].pc
       /\ \A u \in Tokens : /\ token'[u] = "unborn" => token[u] = "unborn"
                            /\ token'[u] = "spent" <=> token[u] = "spent"
       /\ cookie' \in Tokens \cup {None} /\ cookie' = cookie
  BY <1>1, <1>2, <1>3 DEF AuthTypeOK, Request, CookieTyped
<1>11. Born'
  BY <1>4, <1>10 DEF CalmBody, Born
<1>12. Matches'
  BY <1>4, <1>10 DEF CalmBody, Matches, Revokes, OverStays
<1>13. Replaced'
  BY <1>4, <1>10 DEF CalmBody, Replaced, Replaces, CookieTyped, OverStays
<1>. QED  BY <1>7, <1>8, <1>9, <1>11, <1>12, <1>13 DEF CalmBody, NewIsOurs

LEMMA CalmSave ==
    ASSUME AuthTypeOK, KindsOK, CookieTyped, CalmBody, OverStays, NEW r \in Reqs, SaveSession(r),
           UNCHANGED <<cookie, by>>
    PROVE  CalmBody'
<1>1. \A q \in Reqs :
        /\ req'[q].kind = req[q].kind /\ req'[q].tok = req[q].tok /\ req'[q].new = req[q].new
        /\ req'[q].pc = IF q = r THEN "ok" ELSE req[q].pc
  BY GotoIs DEF SaveSession
<1>2. req[r].pc = "session" /\ req[r].kind \in {"refresh", "login"} /\ UNCHANGED token
  BY DEF SaveSession, KindsOK
<1>3. PICK t \in Tokens : t = req[r].new /\ token[t] = "active"
  BY <1>2 DEF CalmBody, NewIsOurs, Holds, Carries
<1>4. session'[t] = "active" /\ \A u \in Tokens \ {t} : session'[u] = session[u]
  BY <1>3 DEF SaveSession, AuthTypeOK
<1>5. \A q \in Reqs : Carries(q)' <=> Carries(q)
  BY <1>1, <1>2 DEF Carries
<1>6. NewIsOurs'
  BY <1>1, <1>2, <1>5 DEF CalmBody, NewIsOurs, Holds
<1>7. CallsAreAwaited' /\ NoReset' /\ RevokesSpent'
  BY <1>1, <1>2 DEF CalmBody, CallsAreAwaited, NoReset, RevokesSpent
<1>8. Born'
  BY <1>1, <1>2, <1>3, <1>4 DEF CalmBody, Born
<1>9. Matches'
  BY <1>1, <1>2, <1>3, <1>4 DEF CalmBody, Matches, Revokes, OverStays
<1>10. Replaced'
  BY <1>1, <1>2 DEF CalmBody, Replaced, Replaces, CookieTyped, OverStays
<1>. QED  BY <1>6, <1>7, <1>8, <1>9, <1>10 DEF CalmBody

LEMMA CalmServe ==
    ASSUME TabInv, CalmBody, OverStays, NEW r \in Reqs, Statement(r) \/ Refuse(r), UNCHANGED <<cookie, by>>
    PROVE  CalmBody'
<1>1. AuthTypeOK /\ KindsOK /\ RotatedIsSpent /\ CookieTyped
  BY DEF TabInv, AuthInv, PagesOK, TabsTyped, CookieTyped
<1>2. CASE FindToken(r)
  <2>1. req[r].pc = "find" /\ \E pc \in {"rotate", "failed"} : Goto(r, pc)
    BY <1>2 DEF FindToken
  <2>. QED  BY <1>1, <1>2, <2>1, CalmGoto DEF FindToken, Replaces
<1>3. CASE Rotate(r)
  <2>1. /\ req[r].pc = "rotate" /\ req[r].tok \in Tokens /\ req[r].kind = "refresh"
        /\ UNCHANGED session
    BY <1>1, <1>3 DEF Rotate, RotatedIsSpent, KindsOK
  <2>2. PICK t \in Tokens : t = req[r].tok
    BY <2>1
  <2>3. CASE Goto(r, "failed") /\ UNCHANGED token
    BY <1>1, <2>1, <2>3, CalmGoto DEF Replaces
  <2>4. CASE token' = [token EXCEPT ![t] = "spent"] /\ Goto(r, "revoke")
    BY <1>1, <2>1, <2>2, <2>4, CalmSpend
  <2>. QED  BY <1>3, <2>2, <2>3, <2>4 DEF Rotate
<1>4. CASE RevokeSession(r) \/ Issue(r) \/ SaveSession(r)
  <2>1. CASE RevokeSession(r) /\ req[r].kind = "logout"
    <3>1. /\ req[r].pc = "revoke" /\ Goto(r, "failed") /\ UNCHANGED <<token, session>>
          /\ ~Replaces(r)
      BY <2>1 DEF RevokeSession, Replaces
    <3>. QED  BY <1>1, <2>1, <3>1, CalmGoto
  <2>2. CASE RevokeSession(r) /\ req[r].kind = "refresh"
    BY <1>1, <2>2, CalmRevoke
  <2>. QED  BY <1>1, <1>4, <2>1, <2>2, CalmIssue, CalmSave DEF RevokeSession
<1>5. CASE Spend(r)
  <2>1. req[r].pc = "spend" /\ req[r].kind = "logout" /\ UNCHANGED session
    BY <1>1, <1>5 DEF Spend, RotatedIsSpent
  <2>2. CASE req[r].tok = None
    BY <1>1, <1>5, <2>1, <2>2, CalmGoto DEF Spend, Replaces
  <2>3. CASE req[r].tok # None
    <3>1. PICK t \in Tokens : t = req[r].tok
      BY <1>1, <2>3 DEF AuthTypeOK, Request
    <3>2. token[t] \in {"active", "spent"}
      BY <1>1, <2>3, <3>1 DEF CalmBody, Born, AuthTypeOK
    <3>3. Spent(token[t]) = "spent"
      BY <3>2 DEF Spent
    <3>4. token' = [token EXCEPT ![t] = "spent"] /\ Goto(r, "revoke")
      BY <1>5, <2>3, <3>1, <3>3 DEF Spend
    <3>5. token[t] = "active" => Over(t)'
      BY <1>5, <2>1, <3>1, <3>4, LogoutEndsLine DEF Spend, TabInv
    <3>. QED  BY <1>1, <2>1, <3>1, <3>4, <3>5, CalmSpend
  <2>. QED  BY <2>2, <2>3
<1>6. CASE SpendAll(r) \/ RevokeAll(r)
  BY <1>1, <1>6 DEF SpendAll, RevokeAll, KindsOK, CalmBody, NoReset
<1>7. CASE Refuse(r)
  <2>1. /\ Goto(r, "failed") /\ UNCHANGED <<token, session>>
        /\ req[r].pc = "find" \/ (req[r].pc = "issue" /\ req[r].kind = "login")
    BY <1>7 DEF Refuse
  <2>. QED  BY <1>1, <2>1, CalmGoto DEF Replaces
<1>. QED  BY <1>2, <1>3, <1>4, <1>5, <1>6, <1>7 DEF Statement

LEMMA CalmStart ==
    ASSUME TabInv, CalmBody, OverStays, NEW i \in Tabs, NEW kind \in {"login", "refresh", "logout"},
           Start(i, kind), UNCHANGED cookie
    PROVE  CalmBody'
<1>1. PICK r \in Reqs : Receive(r, kind, cookie) /\ by' = [by EXCEPT ![r] = i]
  BY DEF Start
<1>2. AuthTypeOK /\ by \in [Reqs -> Tabs \cup {None}] /\ None \notin Tabs
  BY TabsAssumption DEF TabInv, AuthInv, PagesOK, TabsTyped
<1>3. /\ req[r].pc = "idle" /\ req[r].kind = "none"
      /\ req'[r].kind = kind /\ req'[r].pc \in {"issue", "find", "spend"} /\ req'[r].tok = cookie
      /\ \A q \in Reqs \ {r} : req'[q] = req[q]
      /\ UNCHANGED <<token, session>>
  BY <1>1, <1>2, ReceiveIs DEF Entry
<1>4. by'[r] = i /\ \A q \in Reqs \ {r} : by'[q] = by[q]
  BY <1>1, <1>2
<1>5. \A q \in Reqs : Carries(q)' => Carries(q) /\ q # r
  BY <1>3 DEF Carries
<1>6. NewIsOurs'
  BY <1>3, <1>5 DEF CalmBody, NewIsOurs, Holds
<1>7. CallsAreAwaited' /\ NoReset' /\ RevokesSpent'
  BY <1>2, <1>3, <1>4 DEF CalmBody, CallsAreAwaited, NoReset, RevokesSpent
<1>8. Born'
  BY <1>3 DEF CalmBody, Born
<1>9. Matches'
  BY <1>3 DEF CalmBody, Matches, Revokes, OverStays
<1>10. Replaced'
  <2>1. cookie = None \/ cookie \in Tokens
    BY DEF TabInv, PagesOK, TabsTyped
  <2>2. ASSUME cookie # None, token[cookie] = "spent"
        PROVE  (\E q \in Reqs : Replaces(q)') \/ Over(cookie)'
    <3>1. CASE Over(cookie)
      BY <2>1, <2>2, <3>1 DEF OverStays
    <3>2. CASE \E q \in Reqs : Replaces(q)
      BY <1>3, <3>2 DEF Replaces
    <3>. QED  BY <2>2, <3>1, <3>2 DEF CalmBody, Replaced
  <2>. QED  BY <1>3, <2>2 DEF Replaced
<1>. QED  BY <1>6, <1>7, <1>8, <1>9, <1>10 DEF CalmBody

LEMMA CalmAnswer ==
    ASSUME TabInv, CalmBody, OverStays, NEW r \in Reqs, Answered(r), cookie' = SetCookie(r),
           \A q \in Reqs \ {r} : req[q].pc # "idle" => by'[q] # None
    PROVE  CalmBody'
<1>1. AuthTypeOK
  BY DEF TabInv, AuthInv
<1>2. /\ req[r].pc \in {"ok", "failed"}
      /\ req'[r].kind = "none" /\ req'[r].pc = "idle" /\ req'[r].tok = None
      /\ \A q \in Reqs \ {r} : req'[q] = req[q]
      /\ UNCHANGED <<token, line, session>>
  BY <1>1, AnsweredIs
<1>3. \/ /\ Carries(r) /\ cookie' = req[r].new
      \/ /\ ~Carries(r) /\ cookie' = None
      \/ /\ ~Carries(r) /\ UNCHANGED cookie
         /\ ~Replaces(r)
  BY <1>2 DEF SetCookie, Carries, Replaces
<1>4. \A q \in Reqs : Carries(q)' => Carries(q) /\ q # r
  BY <1>2 DEF Carries
<1>5. NewIsOurs'
  <2>1. ASSUME NEW q \in Reqs, Carries(q)'
        PROVE  Holds(q)'
    <3>1. q # r /\ Carries(q) /\ Holds(q)
      BY <1>4, <2>1 DEF CalmBody, NewIsOurs
    <3>2. None \notin Tokens
      BY TokensAssumption
    <3>3. cookie' # req[q].new
      BY <1>3, <3>1, <3>2 DEF Holds
    <3>. QED  BY <1>2, <1>4, <3>1, <3>2, <3>3 DEF Holds
  <2>. QED  BY <2>1 DEF NewIsOurs
<1>6. CallsAreAwaited' /\ NoReset' /\ RevokesSpent'
  BY <1>2 DEF CalmBody, CallsAreAwaited, NoReset, RevokesSpent
<1>7. Carries(r) => req[r].new \in Tokens /\ token[req[r].new] = "active"
  BY DEF CalmBody, NewIsOurs, Holds
<1>8. Born'
  BY <1>2, <1>3, <1>7 DEF CalmBody, Born
<1>9. Matches'
  BY <1>2 DEF CalmBody, Matches, Revokes, OverStays
<1>10. Replaced'
  <2>1. cookie = None \/ cookie \in Tokens
    BY DEF TabInv, PagesOK, TabsTyped
  <2>2. ASSUME UNCHANGED cookie, ~Replaces(r), cookie # None, token[cookie] = "spent"
        PROVE  (\E q \in Reqs : Replaces(q)') \/ Over(cookie)'
    <3>1. CASE Over(cookie)
      BY <2>1, <2>2, <3>1 DEF OverStays
    <3>2. CASE \E q \in Reqs : Replaces(q)
      BY <1>2, <2>2, <3>2 DEF Replaces
    <3>. QED  BY <2>2, <3>1, <3>2 DEF CalmBody, Replaced
  <2>. QED  BY <1>2, <1>3, <1>7, <2>2 DEF Replaced
<1>. QED  BY <1>5, <1>6, <1>8, <1>9, <1>10 DEF CalmBody

LEMMA CalmPage ==
    ASSUME TabInv, CalmBody, OverStays, UNCHANGED <<authVars, cookie>>,
           \A q \in Reqs : req[q].pc # "idle" => by'[q] # None
    PROVE  CalmBody'
<1>1. UNCHANGED <<token, session, req, cookie>>
  BY DEF authVars
<1>2. CallsAreAwaited' /\ NoReset' /\ RevokesSpent' /\ Born'
  BY <1>1 DEF CalmBody, CallsAreAwaited, NoReset, RevokesSpent, Born
<1>3. NewIsOurs'
  BY <1>1 DEF CalmBody, NewIsOurs, Holds, Carries
<1>4. \A t \in Tokens : token[t] = "spent" /\ Over(t) => Over(t)'
  BY DEF OverStays
<1>5. Matches'
  BY <1>1, <1>4 DEF CalmBody, Matches, Revokes
<1>6. Replaced'
  <2>1. cookie = None \/ cookie \in Tokens
    BY DEF TabInv, PagesOK, TabsTyped
  <2>2. cookie # None /\ token[cookie] = "spent" /\ Over(cookie) => Over(cookie)'
    BY <1>1, <1>4, <2>1
  <2>. QED  BY <1>1, <2>2 DEF CalmBody, Replaced, Replaces
<1>. QED  BY <1>2, <1>3, <1>5, <1>6 DEF CalmBody

LEMMA CalmInvStep == TabInv /\ CalmInv /\ [Next]_vars => CalmInv'
<1>. SUFFICES ASSUME TabInv, CalmInv, [Next]_vars, Calm' PROVE CalmBody'
  BY DEF CalmInv
<1>0. OverStays
  <2>1. CookieTyped
    BY DEF TabInv, PagesOK, TabsTyped, CookieTyped
  <2>. QED  BY <2>1, TabStep, LineStaysEnded DEF TabInv
<1>1. resets \in Nat /\ faults \in Nat
  BY TabsAssumption DEF TabInv, PagesOK, TabsTyped
<1>2. ~Fault /\ ~ResetPassword
  BY <1>1 DEF Calm, Fault, ResetPassword
<1>3. ASSUME NEW r \in Reqs, Serve(r), ~Fault PROVE UNCHANGED <<faults, resets, cookie, by>>
  BY <1>3 DEF Serve, tabVars
<1>4. UNCHANGED <<resets, faults>>
  BY <1>2, <1>3
     DEF Next, vars, tabVars, Answer, RefreshOk, RefreshFailed, LoginAnswered, LogoutAnswered,
         OrphanAnswered, Reload, Leave, Mount, MeAnswers, RetryAnswers, CallRefreshes, Login, Logout
<1>5. CalmBody
  BY <1>4 DEF CalmInv, Calm
<1>6. CallsAreAwaited
  BY <1>5 DEF CalmBody
<1>7. CASE UNCHANGED vars
  BY <1>0, <1>5, <1>6, <1>7, CalmPage DEF vars, tabVars, CallsAreAwaited
<1>8. ASSUME NEW r \in Reqs, Serve(r) PROVE CalmBody'
  BY <1>0, <1>2, <1>3, <1>5, <1>8, CalmServe DEF Serve
<1>9. ASSUME NEW r \in Reqs, Answer(r) PROVE CalmBody'
  <2>1. by \in [Reqs -> Tabs \cup {None}]
    BY DEF TabInv, PagesOK, TabsTyped
  <2>2. Answered(r)
    BY <1>9 DEF Answer, RefreshOk, RefreshFailed, LoginAnswered, LogoutAnswered, OrphanAnswered,
                Arrives
  <2>3. ~OrphanAnswered(r)
    BY <1>6, <2>2 DEF OrphanAnswered, Answered, CallsAreAwaited
  <2>4. cookie' = SetCookie(r)
    BY <1>2, <1>9, <2>3
       DEF Answer, RefreshOk, RefreshFailed, LoginAnswered, LogoutAnswered, SetCookie
  <2>5. ASSUME NEW q \in Reqs \ {r}, req[q].pc # "idle"
        PROVE  by'[q] # None
    <3>1. by[q] # None
      BY <1>6, <2>5 DEF CallsAreAwaited
    <3>2. CASE by' = [by EXCEPT ![r] = None]
      BY <2>1, <3>1, <3>2
    <3>3. CASE Leave(by[r], r)
      <4>1. by[q] # by[r]
        BY <1>2, <3>3 DEF Leave
      <4>. QED  BY <3>1, <3>3, <4>1 DEF Leave
    <3>. QED  BY <1>9, <2>3, <3>2, <3>3
                DEF Answer, RefreshOk, RefreshFailed, LoginAnswered, LogoutAnswered, Arrives
  <2>. QED  BY <1>0, <1>5, <2>2, <2>4, <2>5, CalmAnswer
<1>10. ASSUME NEW i \in Tabs, NEW kind \in {"login", "refresh", "logout"}, UNCHANGED cookie,
              Start(i, kind)
       PROVE  CalmBody'
  BY <1>0, <1>5, <1>10, CalmStart
<1>11. ASSUME NEW i \in Tabs, UNCHANGED cookie, Join(i) PROVE CalmBody'
  <2>1. CASE UNCHANGED <<authVars, by>>
    BY <1>0, <1>5, <1>6, <1>11, <2>1, CalmPage DEF CallsAreAwaited
  <2>2. CASE Start(i, "refresh")
    BY <1>10, <1>11, <2>2
  <2>. QED  BY <1>11, <2>1, <2>2 DEF Join
<1>12. ASSUME NEW i \in Tabs, Reload(i) PROVE CalmBody'
  <2>1. UNCHANGED <<authVars, cookie>> /\ Leave(i, None)
    BY <1>12 DEF Reload
  <2>2. \A q \in Reqs : q # None /\ (q \in Reqs \ {None} => by[q] # i)
    BY <1>2, <2>1, TokensAssumption DEF Leave
  <2>3. \A q \in Reqs : by'[q] = by[q]
    BY <2>1, <2>2 DEF Leave
  <2>. QED  BY <1>0, <1>5, <1>6, <2>1, <2>3, CalmPage DEF CallsAreAwaited
<1>13. ASSUME NEW i \in Tabs,
              \/ Mount(i) \/ MeAnswers(i) \/ RetryAnswers(i)
              \/ CallRefreshes(i) \/ Login(i) \/ Logout(i)
       PROVE  CalmBody'
  <2>1. UNCHANGED cookie
    BY <1>13 DEF Mount, MeAnswers, RetryAnswers, CallRefreshes, Login, Logout
  <2>2. CASE UNCHANGED <<authVars, by>>
    BY <1>0, <1>5, <1>6, <2>1, <2>2, CalmPage DEF CallsAreAwaited
  <2>3. \/ UNCHANGED <<authVars, by>> \/ Join(i)
        \/ Start(i, "login") \/ Start(i, "logout")
    BY <1>13 DEF Mount, MeAnswers, RetryAnswers, CallRefreshes, Login, Logout
  <2>. QED  BY <1>10, <1>11, <2>1, <2>2, <2>3
<1>. QED  BY <1>2, <1>7, <1>8, <1>9, <1>12, <1>13 DEF Next

LEMMA CalmHolds == Spec => []CalmInv
<1>1. Init => CalmInv
  <2>. SUFFICES ASSUME Init PROVE CalmBody
    BY DEF CalmInv
  <2>1. /\ \A r \in Reqs : req[r].pc = "idle" /\ req[r].kind = "none" /\ req[r].tok = None
        /\ \A t \in Tokens : session[t] = "none"
        /\ cookie = None
    BY DEF Init, AuthInit, Free
  <2>. QED  BY <2>1 DEF CalmBody, CallsAreAwaited, NoReset, Born, NewIsOurs, Carries,
                        RevokesSpent, Matches, Replaced
<1>. QED  BY <1>1, TabInvHolds, CalmInvStep, PTL DEF Spec

\* While no statement fails but the one a logout cannot run, and no password is
\* reset, a session ends with its token: what a refresh has left half done it is
\* about to finish, and a session that outlives its token belongs to a line that a
\* logout has ended, which nobody prolongs again.
THEOREM SessionEndsWithToken == Spec => []SessionMatchesToken
<1>1. CalmInv => SessionMatchesToken
  BY DEF CalmInv, Calm, CalmBody, Matches, Revokes, Over, SessionMatchesToken
<1>. QED  BY <1>1, CalmHolds, PTL

\* Under the same conditions the browser keeps a spent token only until the refresh
\* that spent it is answered, however many tabs present it, or when a logout has
\* ended the line of the token.
THEOREM SpentCookieIsReplaced == Spec => []CookieIsReplaced
<1>1. CalmInv => CookieIsReplaced
  BY DEF CalmInv, Calm, CalmBody, Replaced, Replaces, Over, CookieIsReplaced
<1>. QED  BY <1>1, CalmHolds, PTL
=============================================================================
