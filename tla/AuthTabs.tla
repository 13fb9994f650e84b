------------------------------ MODULE AuthTabs ------------------------------
(***************************************************************************)
(* The tabs of one browser on top of RefreshTokens.  They share the cookie *)
(* with the refresh token; each keeps its access token in memory, runs at  *)
(* most one refresh at a time (refreshSession), retries a 401 once         *)
(* (apiFetch) and works out its status (AuthProvider).  Answers arrive in  *)
(* any order, and set the cookie when they arrive.                         *)
(***************************************************************************)
EXTENDS RefreshTokens

CONSTANTS
    Tabs,
    MaxBoots,       \* bound: bootstraps of a tab at once
    MaxResets,      \* bound: password resets
    MaxFaults       \* bound: failures, and answers lost with their page

ASSUME TabsAssumption ==
    /\ None \notin Tabs
    /\ MaxBoots \in Nat \ {0} /\ {MaxResets, MaxFaults} \subseteq Nat

VARIABLES
    cookie,     \* the refresh cookie
    by,         \* the tab that awaits a request
    mem,        \* inMemoryAccessToken, present or not
    status,     \* AuthProvider
    boots,      \* bootstraps under way, by what they await
    resets, faults

tabVars == <<cookie, by, mem, status, boots, resets, faults>>
vars == <<authVars, tabVars>>

Boots == [refresh : 0 .. MaxBoots, me : 0 .. MaxBoots, refused : 0 .. MaxBoots,
          retry : 0 .. MaxBoots]
NoBoots == [refresh |-> 0, me |-> 0, refused |-> 0, retry |-> 0]
BootsOf(i) == boots[i].refresh + boots[i].me + boots[i].refused + boots[i].retry

TypeOK ==
    /\ AuthTypeOK
    /\ cookie \in Tokens \cup {None}
    /\ by \in [Reqs -> Tabs \cup {None}]
    /\ mem \in [Tabs -> BOOLEAN]
    /\ status \in [Tabs -> {"loading", "authenticated", "unauthenticated"}]
    /\ boots \in [Tabs -> Boots]
    /\ resets \in 0 .. MaxResets /\ faults \in 0 .. MaxFaults

Init ==
    /\ AuthInit
    /\ cookie = None
    /\ by = [r \in Reqs |-> None]
    /\ mem = [i \in Tabs |-> FALSE]
    /\ status = [i \in Tabs |-> "unauthenticated"]
    /\ boots = [i \in Tabs |-> NoBoots]
    /\ resets = 0 /\ faults = 0

Fault == faults < MaxFaults /\ faults' = faults + 1

----------------------------------------------------------------------------
\* Requests of a tab.  One that may issue a token starts while there is one left.
Flight(i) == {r \in Reqs : by[r] = i /\ req[r].kind = "refresh"}
Issuing == {r \in Reqs : Running(r) /\ req[r].kind \in {"refresh", "login"}
                         /\ req[r].pc # "session"}
TokenLeft == Cardinality({t \in Tokens : token[t] = "unborn"}) > Cardinality(Issuing)

Start(i, kind) ==
    /\ kind \in {"refresh", "login"} => TokenLeft
    /\ \E r \in Reqs : Receive(r, kind, cookie) /\ by' = [by EXCEPT ![r] = i]

\* Mutant: the promise of the refresh under way is not looked at.
JoinMutant(i) == Start(i, "refresh")

\* refreshSessionOnceDetailed: the refresh under way, or a new one.
Join(i) == IF Flight(i) # {} THEN UNCHANGED <<authVars, by>> ELSE Start(i, "refresh")

\* Mutant: the answer of a refresh carries the access token alone.
SetCookieMutant(r) ==
    IF req[r].pc # "ok" THEN cookie
    ELSE CASE req[r].kind = "login" -> req[r].new
           [] req[r].kind = "logout" -> None
           [] OTHER -> cookie

\* What the cookie is once the answer has arrived.
SetCookie(r) ==
    IF req[r].pc # "ok" THEN cookie
    ELSE CASE req[r].kind \in {"refresh", "login"} -> req[r].new
           [] req[r].kind = "logout" -> None
           [] OTHER -> cookie

----------------------------------------------------------------------------
\* Pages come and go, with the access token: the requests of the old page, those
\* that have just been answered apart, are nobody's and their answers may be lost.
Leave(i, answered) ==
    /\ mem' = [mem EXCEPT ![i] = FALSE]
    /\ status' = [status EXCEPT ![i] = "loading"]
    /\ boots' = [boots EXCEPT ![i] = NoBoots]
    /\ by' = [r \in Reqs |-> IF by[r] = i THEN None ELSE by[r]]
    /\ IF \E r \in Reqs \ {answered} : by[r] = i THEN Fault ELSE UNCHANGED faults

Reload(i) ==
    /\ status[i] # "loading"
    /\ Leave(i, None)
    /\ UNCHANGED <<authVars, cookie, resets>>

\* The bootstrap of a page that has no access token.
Mount(i) ==
    /\ status[i] = "loading" /\ boots[i] = NoBoots
    /\ boots' = [boots EXCEPT ![i].refresh = 1]
    /\ Join(i)
    /\ UNCHANGED <<cookie, mem, status, resets, faults>>

\* Mutant: a bootstrap that is refused asks for a refresh and goes on.
MeAnswersMutant(i) ==
    /\ boots[i].me > 0
    /\ \/ /\ status' = [status EXCEPT ![i] = "authenticated"]
          /\ boots' = [boots EXCEPT ![i].me = @ - 1]
          /\ UNCHANGED <<authVars, by>>
       \/ /\ boots' = [boots EXCEPT ![i].refused = @ + 1]
          /\ Join(i)
          /\ UNCHANGED status
    /\ UNCHANGED <<cookie, mem, resets, faults>>

\* fetchAuthMe of a bootstrap, whose 401 asks for a refresh and one retry.
MeAnswers(i) ==
    /\ boots[i].me > 0
    /\ \/ /\ status' = [status EXCEPT ![i] = "authenticated"]
          /\ boots' = [boots EXCEPT ![i].me = @ - 1]
          /\ UNCHANGED <<authVars, by, faults>>
       \/ /\ boots' = [boots EXCEPT ![i].me = @ - 1, ![i].refused = @ + 1]
          /\ Join(i)
          /\ UNCHANGED <<status, faults>>
       \/ /\ Fault
          /\ status' = [status EXCEPT ![i] = "unauthenticated"]
          /\ boots' = [boots EXCEPT ![i].me = @ - 1]
          /\ UNCHANGED <<authVars, by>>
    /\ UNCHANGED <<cookie, mem, resets>>

RetryAnswers(i) ==
    /\ boots[i].retry > 0
    /\ boots' = [boots EXCEPT ![i].retry = @ - 1]
    /\ \E s \in {"authenticated", "unauthenticated"} : status' = [status EXCEPT ![i] = s]
    /\ UNCHANGED <<authVars, cookie, by, mem, resets, faults>>

\* Any other call of the page meets a 401 or an expiring token.
CallRefreshes(i) ==
    /\ status[i] = "authenticated" /\ Flight(i) = {}
    /\ Join(i)
    /\ UNCHANGED <<cookie, mem, status, boots, resets, faults>>

Login(i) ==
    /\ status[i] = "unauthenticated"
    /\ \A r \in Reqs : by[r] = i => req[r].kind # "login"
    /\ Start(i, "login")
    /\ UNCHANGED <<cookie, mem, status, boots, resets, faults>>

\* logout does not wait for the answer.
Logout(i) ==
    /\ status[i] = "authenticated"
    /\ Start(i, "logout")
    /\ mem' = [mem EXCEPT ![i] = FALSE]
    /\ status' = [status EXCEPT ![i] = "unauthenticated"]
    /\ UNCHANGED <<cookie, boots, resets, faults>>

\* Somebody follows the link of a forgotten password.
ResetPassword ==
    /\ resets < MaxResets
    /\ resets' = resets + 1
    /\ \E r \in Reqs : Receive(r, "reset", None)
    /\ UNCHANGED <<cookie, by, mem, status, boots, faults>>

----------------------------------------------------------------------------
\* Answers

Arrives(r, kind) ==
    /\ req[r].kind = kind
    /\ Answered(r)
    /\ by' = [by EXCEPT ![r] = None]

\* setStoredSession wakes every caller of the promise and starts a bootstrap.
RefreshOk(r) ==
    LET i == by[r]
    IN  /\ i # None /\ req[r].pc = "ok"
        /\ BootsOf(i) < MaxBoots
        /\ Arrives(r, "refresh")
        /\ cookie' = SetCookie(r)
        /\ mem' = [mem EXCEPT ![i] = TRUE]
        /\ boots' = [boots EXCEPT ![i] =
                       [refresh |-> 0, me |-> @.me + @.refresh + 1,
                        refused |-> 0, retry |-> @.retry + @.refused]]
        /\ UNCHANGED <<status, resets, faults>>

\* A refusal, an exception, or an answer that is lost: clearStoredSession.
RefreshFailed(r) ==
    LET i == by[r]
    IN  /\ i # None
        /\ \/ req[r].pc = "failed" /\ UNCHANGED faults
           \/ req[r].pc = "ok" /\ Fault
        /\ Arrives(r, "refresh")
        /\ mem' = [mem EXCEPT ![i] = FALSE]
        /\ status' = [status EXCEPT ![i] = "unauthenticated"]
        /\ boots' = [boots EXCEPT ![i].refresh = 0, ![i].refused = 0]
        /\ UNCHANGED <<cookie, resets>>

\* The page of the login gives way to /app.
LoginAnswered(r) ==
    LET i == by[r]
    IN  /\ i # None
        /\ req[r].kind = "login"
        /\ Answered(r)
        /\ cookie' = SetCookie(r)
        /\ IF req[r].pc = "ok" THEN Leave(i, r)
           ELSE /\ by' = [by EXCEPT ![r] = None]
                /\ UNCHANGED <<mem, status, boots, faults>>
        /\ UNCHANGED resets

\* clearRefreshCookie follows the await of a logout that throws unless the request
\* had no cookie: SetCookie clears what another tab has been given since.
LogoutAnswered(r) ==
    /\ by[r] # None
    /\ Arrives(r, "logout")
    /\ cookie' = SetCookie(r)
    /\ UNCHANGED <<mem, status, boots, resets, faults>>

\* The browser may still take the cookie of an answer whose page is gone.
OrphanAnswered(r) ==
    /\ by[r] = None
    /\ Answered(r)
    /\ cookie' \in {cookie, SetCookie(r)}
    /\ UNCHANGED <<by, mem, status, boots, resets, faults>>

----------------------------------------------------------------------------
Serve(r) ==
    \/ (Statement(r) \/ Refuse(r)) /\ UNCHANGED tabVars
    \/ Fault /\ Fail(r) /\ UNCHANGED <<cookie, by, mem, status, boots, resets>>

Answer(r) ==
    RefreshOk(r) \/ RefreshFailed(r) \/ LoginAnswered(r) \/ LogoutAnswered(r) \/ OrphanAnswered(r)

Next ==
    \/ \E r \in Reqs : Serve(r) \/ Answer(r)
    \/ \E i \in Tabs : \/ Reload(i) \/ Mount(i) \/ MeAnswers(i) \/ RetryAnswers(i)
                       \/ CallRefreshes(i) \/ Login(i) \/ Logout(i)
    \/ ResetPassword

Spec == Init /\ [][Next]_vars

----------------------------------------------------------------------------
\* A session is revoked with its token: the two updates of a refresh come in pairs,
\* whatever runs between them, so that a session which outlives its token is the
\* last of a line that nothing prolongs any more, and which a logout has ended.  A
\* password reset and a handler that fails may leave one without the other.
SessionMatchesToken ==
    resets = 0 /\ faults = 0 =>
        \A t \in Tokens :
            /\ session[t] = "revoked" => token[t] = "spent"
            /\ session[t] = "active" /\ token[t] = "spent" =>
                 \/ \E r \in Reqs : /\ req[r].kind = "refresh" /\ req[r].pc = "revoke"
                                   /\ req[r].tok = t
                 \/ LineEnded(line[t])

\* However two tabs race, the browser is not left with a spent token while the line
\* of the token goes on: the refresh that spent it is still to replace the cookie.
\* What the browser keeps of a line that has ended is the token of a logout.
CookieIsReplaced ==
    resets = 0 /\ faults = 0 /\ cookie # None /\ token[cookie] = "spent" =>
        \/ \E r \in Reqs : /\ req[r].kind = "refresh" /\ req[r].tok = cookie
                          /\ req[r].pc \in {"revoke", "issue", "session", "ok"}
        \/ LineEnded(line[cookie])

\* Whoever waits for the refresh of its tab waits for one that is under way, and
\* there is one at most.
WaitersHaveFlight ==
    \A i \in Tabs :
        /\ boots[i].refresh + boots[i].refused > 0 => Flight(i) # {}
        /\ Cardinality(Flight(i)) <= 1
=============================================================================
