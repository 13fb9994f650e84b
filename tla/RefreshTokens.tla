--------------------------- MODULE RefreshTokens ----------------------------
(***************************************************************************)
(* The refresh tokens and sessions of one user (AuthService): requests     *)
(* interleave at every statement on the database, present any token any    *)
(* number of times, and may end at any statement.                          *)
(*                                                                         *)
(* A login starts a line of tokens, which every refresh prolongs by one.   *)
(***************************************************************************)
EXTENDS Naturals, FiniteSets

CONSTANTS Tokens, Reqs, None

ASSUME TokensAssumption == None \notin Tokens \cup Reqs

VARIABLES
    token,      \* rows of refresh_tokens: is_active
    line,       \* the token of the login that a token descends from
    session,    \* rows of sessions: status, by refresh token
    req         \* requests under way

authVars == <<token, line, session, req>>

Kind == {"login", "refresh", "logout", "reset"}
PC == {"idle", "find", "rotate", "revoke", "issue", "session", "spend", "spendAll",
       "revokeAll", "ok", "failed"}
Request == [kind : Kind \cup {"none"}, pc : PC, tok : Tokens \cup {None},
            new : Tokens \cup {None}]
Free == [kind |-> "none", pc |-> "idle", tok |-> None, new |-> None]
Entry == [login |-> "issue", refresh |-> "find", logout |-> "spend", reset |-> "spendAll"]
Running(r) == req[r].pc \notin {"idle", "ok", "failed"}

AuthTypeOK ==
    /\ token \in [Tokens -> {"unborn", "active", "spent"}]
    /\ line \in [Tokens -> Tokens \cup {None}]
    /\ session \in [Tokens -> {"none", "active", "revoked"}]
    /\ req \in [Reqs -> Request]

AuthInit ==
    /\ token = [t \in Tokens |-> "unborn"]
    /\ line = [t \in Tokens |-> None]
    /\ session = [t \in Tokens |-> "none"]
    /\ req = [r \in Reqs |-> Free]

Goto(r, pc) == req' = [req EXCEPT ![r].pc = pc]

Receive(r, kind, t) ==
    /\ req[r] = Free
    /\ req' = [req EXCEPT ![r] = [Free EXCEPT !.kind = kind, !.pc = Entry[kind], !.tok = t]]
    /\ UNCHANGED <<token, line, session>>

Answered(r) ==
    /\ req[r].pc \in {"ok", "failed"}
    /\ req' = [req EXCEPT ![r] = Free]
    /\ UNCHANGED <<token, line, session>>

----------------------------------------------------------------------------
\* refresh: the row is read, then the update asks again that it is active.
FindToken(r) ==
    /\ req[r].pc = "find"
    /\ LET t == req[r].tok
       IN  Goto(r, IF t # None /\ token[t] = "active" THEN "rotate" ELSE "failed")
    /\ UNCHANGED <<token, line, session>>

\* Mutant: the update trusts what was read.
RotateMutant(r) ==
    /\ req[r].pc = "rotate"
    /\ token' = [token EXCEPT ![req[r].tok] = "spent"]
    /\ Goto(r, "revoke")
    /\ UNCHANGED <<line, session>>

Rotate(r) ==
    /\ req[r].pc = "rotate"
    /\ IF token[req[r].tok] = "active"
         THEN token' = [token EXCEPT ![req[r].tok] = "spent"] /\ Goto(r, "revoke")
         ELSE Goto(r, "failed") /\ UNCHANGED token
    /\ UNCHANGED <<line, session>>

Revoked(s) == IF s = "active" THEN "revoked" ELSE s

\* Mutant: the new session is saved and the old one left as it is.
RevokeSessionMutant(r) ==
    /\ req[r].pc = "revoke"
    /\ Goto(r, IF req[r].kind = "refresh" THEN "issue" ELSE "failed")
    /\ UNCHANGED <<token, line, session>>

\* A refresh names the session by the id of its token.  A logout names it by the
\* hash, a column of refresh_tokens, which an update of sessions cannot reach: the
\* statement throws, whatever the rows are.
RevokeSession(r) ==
    /\ req[r].pc = "revoke"
    /\ \/ /\ req[r].kind = "refresh"
          /\ session' = [session EXCEPT ![req[r].tok] = Revoked(@)]
          /\ Goto(r, "issue")
       \/ /\ req[r].kind = "logout"
          /\ Goto(r, "failed")
          /\ UNCHANGED session
    /\ UNCHANGED <<token, line>>

\* issueTokens, for refresh, login, signup and the OAuth callbacks.
Issue(r) ==
    /\ req[r].pc = "issue"
    /\ \E t \in Tokens :
         /\ token[t] = "unborn"
         /\ token' = [token EXCEPT ![t] = "active"]
         /\ line' = [line EXCEPT ![t] = IF req[r].kind = "refresh" THEN line[req[r].tok] ELSE t]
         /\ req' = [req EXCEPT ![r].pc = "session", ![r].new = t]
    /\ UNCHANGED session

SaveSession(r) ==
    /\ req[r].pc = "session"
    /\ session' = [session EXCEPT ![req[r].new] = "active"]
    /\ Goto(r, "ok")
    /\ UNCHANGED <<token, line>>

----------------------------------------------------------------------------
\* logout and the revocations of resetPassword
Spent(s) == IF s = "active" THEN "spent" ELSE s

Spend(r) ==
    /\ req[r].pc = "spend"
    /\ IF req[r].tok = None THEN Goto(r, "ok") /\ UNCHANGED token
       ELSE token' = [token EXCEPT ![req[r].tok] = Spent(@)] /\ Goto(r, "revoke")
    /\ UNCHANGED <<line, session>>

SpendAll(r) ==
    /\ req[r].pc = "spendAll"
    /\ token' = [t \in Tokens |-> Spent(token[t])]
    /\ Goto(r, "revokeAll")
    /\ UNCHANGED <<line, session>>

RevokeAll(r) ==
    /\ req[r].pc = "revokeAll"
    /\ session' = [t \in Tokens |-> Revoked(session[t])]
    /\ Goto(r, "ok")
    /\ UNCHANGED <<token, line>>

\* A refusal before the first write (credentials, expiry), or an exception or the
\* death of the replica at any statement.
Refuse(r) ==
    /\ \/ req[r].pc = "find"
       \/ req[r].pc = "issue" /\ req[r].kind = "login"
    /\ Goto(r, "failed")
    /\ UNCHANGED <<token, line, session>>

Fail(r) == Running(r) /\ Goto(r, "failed") /\ UNCHANGED <<token, line, session>>

Statement(r) ==
    \/ FindToken(r) \/ Rotate(r) \/ RevokeSession(r) \/ Issue(r) \/ SaveSession(r)
    \/ Spend(r) \/ SpendAll(r) \/ RevokeAll(r)

AuthNext ==
    \E r \in Reqs :
        \/ Statement(r) \/ Refuse(r) \/ Fail(r) \/ Answered(r)
        \/ \E kind \in Kind, t \in Tokens \cup {None} : Receive(r, kind, t)

AuthSpec == AuthInit /\ [][AuthNext]_authVars

----------------------------------------------------------------------------
\* A line has one heir at most, however many requests present the same token:
\* the rotation is a compare-and-set, and a request between its rotation and its
\* insert holds the right to the next token alone.
Heirs(l) == {t \in Tokens : token[t] = "active" /\ line[t] = l}
Rotating(l) ==
    {r \in Reqs : req[r].kind = "refresh" /\ req[r].pc \in {"revoke", "issue"}
                  /\ line[req[r].tok] = l}

\* Nothing is left of a line that could prolong it.
LineEnded(l) == Heirs(l) = {} /\ Rotating(l) = {}

OneHeir == \A l \in Tokens : \A t, u \in Heirs(l) : t = u
=============================================================================
