------------------------------ MODULE Sessions ------------------------------
(***************************************************************************)
(* The sessions of one user: refresh tokens in the database (AuthService), *)
(* the cookie that carries one, and the page that signs in, refreshes,     *)
(* signs out and keeps a socket open (auth.slice, the axios interceptors,  *)
(* socket.middleware).                                                     *)
(*                                                                         *)
(* A step of a request is one query of the service.  The bcrypt calls      *)
(* between two queries touch nothing.  A browser is one cookie jar with    *)
(* one page; several of its requests can be under way, because every call  *)
(* that gets a 401 refreshes on its own.                                   *)
(***************************************************************************)
EXTENDS Naturals, FiniteSets

CONSTANTS
  Browsers,   \* cookie jars
  Slots,      \* requests under way
  Links,      \* links to reset the password
  MaxTokens,  \* bound on the refresh tokens ever created
  MaxResets,  \* bound on the submissions of the reset form
  MaxMishaps  \* bound on replies lost and queries rejected

ASSUME TokensAssumption == MaxTokens \in Nat \ {0}
ASSUME LimitsAssumption == MaxResets \in Nat /\ MaxMishaps \in Nat

VARIABLES
  token,    \* database: refresh_tokens
  password, \* database: how often the password has been replaced
  link,     \* database: password_reset_tokens
  cookie,   \* per browser: the refresh_token cookie
  page,     \* per browser: what the page in it holds
  request,  \* the requests under way
  minted,   \* how many refresh tokens exist
  resets, mishaps,
  causes,   \* history: what has disturbed the sessions
  reused    \* history: reuse of a refresh token has been detected

database == <<token, password, link, minted>>
budget   == <<resets, mishaps>>
vars     == <<database, cookie, page, request, budget, causes, reused>>

NoToken == 0
Tokens  == 1..MaxTokens
Legacy  == 1             \* the token that was created before tokens had a jti
MaxSockets == 2          \* bound on the open sockets of one page that are told apart

Causes == {"overlap", "lost", "failed", "reset", "replaced"}
Kinds  == {"login", "mount", "retry", "logout"}
Labels == {"read", "cascade", "create", "revokeOld", "markUsed", "setPassword",
           "revokeAll", "reply", "refused"}

Token == [state   : {"none", "live", "revoked"},
          proof   : Nat,       \* the password its login gave
          escaped : BOOLEAN]   \* its request had passed its check when a reset revoked all

Request == [pc      : Labels,
            kind    : Kinds,
            browser : Browsers,
            old     : 0..MaxTokens,  \* the cookie it was sent with
            new     : 0..MaxTokens,  \* the token it has created
            proof   : Nat,
            escaped : BOOLEAN,
            heard   : BOOLEAN]       \* the page still waits for the reply

Reset == [pc : Labels, kind : {"reset"}, link : Links, heard : {FALSE}]

Page == [open    : BOOLEAN,          \* the application has mounted
         user    : BOOLEAN,          \* auth.accessToken is set
         sockets : 0..MaxSockets,    \* sockets that are open or try to be
         current : BOOLEAN,          \* the middleware holds a socket ...
         ready   : BOOLEAN]          \* ... which is connected

Blank == [open |-> FALSE, user |-> FALSE, sockets |-> 0, current |-> FALSE, ready |-> FALSE]

Idle == [pc |-> "idle"]

Init ==
  /\ token = [t \in Tokens |-> [state   |-> IF t = Legacy THEN "live" ELSE "none",
                                proof   |-> 0, escaped |-> FALSE]]
  /\ password = 0 /\ minted = 1
  /\ link = [l \in Links |-> "none"]
  /\ \E b \in Browsers : cookie = [c \in Browsers |-> IF c = b THEN Legacy ELSE NoToken]
  /\ page = [b \in Browsers |-> Blank]
  /\ request = [s \in Slots |-> Idle]
  /\ resets = 0 /\ mishaps = 0
  /\ causes = {} /\ reused = FALSE

-----------------------------------------------------------------------------
(* What the pages send.                                                      *)

At(s, kinds, label) == request[s].pc = label /\ request[s].kind \in kinds

Goto(s, label) == request' = [request EXCEPT ![s].pc = label]

\* The requests of b under way; the reset form has no part in the session of its browser.
Of(b) == {s \in Slots : /\ request[s].pc # "idle" /\ request[s].kind # "reset"
                         /\ request[s].browser = b}

Fresh(kind, b, presented) ==
  [pc |-> "read", kind |-> kind, browser |-> b, old |-> presented, new |-> NoToken,
   proof |-> password, escaped |-> FALSE, heard |-> TRUE]

\* A request with the cookie of b joins the ones in pending.
Send(s, b, kind, pending) ==
  /\ request[s].pc = "idle"
  /\ request' = [pending EXCEPT ![s] = Fresh(kind, b, cookie[b])]
  /\ causes' = IF Of(b) # {} THEN causes \union {"overlap"} ELSE causes

\* The login form, with the password of the day.
SubmitLogin(s, b) ==
  /\ page[b].open /\ ~page[b].user
  /\ Send(s, b, "login", request)
  /\ UNCHANGED <<database, cookie, page, budget, reused>>

\* The application mounts in a new page, or in one reloaded: nobody waits for what the old
\* one had asked for.
OpenPage(s, b) ==
  /\ page' = [page EXCEPT ![b] = [Blank EXCEPT !.open = TRUE]]
  /\ Send(s, b, "mount", [r \in Slots |-> IF r \in Of(b) THEN [request[r] EXCEPT !.heard = FALSE]
                                                         ELSE request[r]])
  /\ UNCHANGED <<database, cookie, budget, reused>>

\* A call is answered 401 because the access token has expired. Nothing joins the
\* refreshes of two such calls.
Unauthorized(s, b) ==
  /\ page[b].user
  /\ Send(s, b, "retry", request)
  /\ UNCHANGED <<database, cookie, page, budget, reused>>

ClickLogout(s, b) ==
  /\ page[b].user
  /\ Send(s, b, "logout", request)
  /\ UNCHANGED <<database, cookie, page, budget, reused>>

\* requestPasswordReset: the row is inserted and the link is mailed.
ForgotPassword(l) ==
  /\ link[l] = "none"
  /\ link' = [link EXCEPT ![l] = "sent"]
  /\ UNCHANGED <<token, password, minted, cookie, page, request, budget, causes, reused>>

\* The reset form. It can be submitted again with the same link.
SubmitReset(s, l) ==
  /\ link[l] # "none" /\ resets < MaxResets
  /\ resets' = resets + 1
  /\ request[s].pc = "idle"
  /\ request' = [request EXCEPT ![s] =
       [pc |-> "read", kind |-> "reset", link |-> l, heard |-> FALSE]]
  /\ UNCHANGED <<database, cookie, page, mishaps, causes, reused>>

-----------------------------------------------------------------------------
(* The service. Each action is the code from one query's answer to the next  *)
(* query's.                                                                  *)

Refreshes == {"mount", "retry"}

Live == {t \in Tokens : token[t].state = "live"}

Revoked(ts) == [t \in Tokens |-> IF t \in ts THEN [token[t] EXCEPT !.state = "revoked"] ELSE token[t]]

\* login: the password is compared with the one read here.
ReadUser(s) ==
  /\ At(s, {"login"}, "read")
  /\ Goto(s, IF request[s].proof = password THEN "create" ELSE "refused")
  /\ UNCHANGED <<database, cookie, page, budget, causes, reused>>

\* parseToken: the tokens that name their row.
HasJti(t) == t \in Tokens \ {Legacy}

\* What refresh does next with the token it was given.
AfterLookup(t) ==
  CASE t = NoToken -> "refused"
    [] t = Legacy  -> IF t \in Live THEN "revokeOld" ELSE "refused"
    [] HasJti(t)   -> IF t \in Live THEN "create" ELSE "cascade"

\* refresh: the row is looked up, by jti or among the ones without.
ReadToken(s) ==
  /\ At(s, Refreshes, "read")
  /\ LET t == request[s].old IN
     request' = [request EXCEPT ![s].pc = AfterLookup(t),
                                ![s].proof   = IF t = NoToken THEN @ ELSE token[t].proof,
                                ![s].escaped = IF t = NoToken THEN @ ELSE token[t].escaped]
  /\ UNCHANGED <<database, cookie, page, budget, causes, reused>>

\* Reuse detected: every token of the user is revoked.
Cascade(s) ==
  /\ At(s, Refreshes, "cascade")
  /\ token' = Revoked(Live)
  /\ reused' = TRUE
  /\ Goto(s, "refused")
  /\ UNCHANGED <<password, link, minted, cookie, page, budget, causes>>

\* createRefreshToken. With a jti the old token is revoked after this, without one before.
CreateToken(s) ==
  /\ At(s, {"login"} \union Refreshes, "create") /\ minted < MaxTokens
  /\ minted' = minted + 1
  /\ token' = [token EXCEPT ![minted + 1] =
       [state |-> "live", proof |-> request[s].proof, escaped |-> request[s].escaped]]
  /\ request' = [request EXCEPT ![s].new = minted + 1,
       ![s].pc = IF request[s].kind = "login" \/ request[s].old = Legacy THEN "reply" ELSE "revokeOld"]
  /\ UNCHANGED <<password, link, cookie, page, budget, causes, reused>>

RevokeOld_JtiStays(s) ==
  /\ At(s, Refreshes, "revokeOld")
  /\ token' = Revoked({request[s].old} \cap {Legacy})
  /\ Goto(s, IF request[s].old = Legacy THEN "create" ELSE "reply")
  /\ UNCHANGED <<password, link, minted, cookie, page, budget, causes, reused>>

RevokeOld_OfUser(s) ==
  /\ At(s, Refreshes, "revokeOld")
  /\ token' = Revoked(Live)
  /\ Goto(s, IF request[s].old = Legacy THEN "create" ELSE "reply")
  /\ UNCHANGED <<password, link, minted, cookie, page, budget, causes, reused>>

\* The token that was presented is revoked: a legacy one before the new one is created.
RevokeOld(s) ==
  /\ At(s, Refreshes, "revokeOld")
  /\ token' = Revoked({request[s].old})
  /\ Goto(s, IF request[s].old = Legacy THEN "create" ELSE "reply")
  /\ UNCHANGED <<password, link, minted, cookie, page, budget, causes, reused>>

\* logout, with or without a cookie.
RevokeCookie(s) ==
  /\ At(s, {"logout"}, "read")
  /\ token' = Revoked({request[s].old} \ {NoToken})
  /\ Goto(s, "reply")
  /\ UNCHANGED <<password, link, minted, cookie, page, budget, causes, reused>>

\* resetPassword: the link is looked up, ...
FindLink(s) ==
  /\ At(s, {"reset"}, "read")
  /\ Goto(s, IF link[request[s].link] = "sent" THEN "markUsed" ELSE "refused")
  /\ UNCHANGED <<database, cookie, page, budget, causes, reused>>

\* ... marked as used, ...
MarkUsed(s) ==
  /\ At(s, {"reset"}, "markUsed")
  /\ link' = [link EXCEPT ![request[s].link] = "used"]
  /\ Goto(s, "setPassword")
  /\ UNCHANGED <<token, password, minted, cookie, page, budget, causes, reused>>

SetPassword(s) ==
  /\ At(s, {"reset"}, "setPassword")
  /\ password' = password + 1
  /\ Goto(s, "revokeAll")
  /\ UNCHANGED <<token, link, minted, cookie, page, budget, causes, reused>>

RevokeAll_WithJti(s) ==
  /\ At(s, {"reset"}, "revokeAll")
  /\ token' = Revoked(Live \ {Legacy})
  /\ Goto(s, "reply")
  /\ causes' = causes \union {"reset"}
  /\ UNCHANGED <<password, link, minted, cookie, page, budget, reused>>

\* ... and with the new password in place every session is ended. The requests that have
\* passed their check and not created their token yet are the ones that escape.
RevokeAll(s) ==
  /\ At(s, {"reset"}, "revokeAll")
  /\ token' = Revoked(Live)
  /\ request' = [r \in Slots |->
       IF r = s THEN [request[r] EXCEPT !.pc = "reply"]
       ELSE IF At(r, {"login"} \union Refreshes, "create") \/ At(r, Refreshes, "revokeOld")
         THEN [request[r] EXCEPT !.escaped = TRUE] ELSE request[r]]
  /\ causes' = causes \union {"reset"}
  /\ UNCHANGED <<password, link, minted, cookie, page, budget, reused>>

\* A query is rejected: what the request has written stays. Nothing here is a transaction.
QueryFails(s) ==
  /\ request[s].pc \notin {"idle", "reply", "refused"} /\ mishaps < MaxMishaps
  /\ mishaps' = mishaps + 1
  /\ Goto(s, "refused")
  /\ causes' = causes \union {"failed"}
  /\ UNCHANGED <<database, cookie, page, resets, reused>>

-----------------------------------------------------------------------------
(* The reply reaches the page.                                               *)

\* connectSocket: a socket that is still connecting is not closed, only replaced.
Connected(p) ==
  IF p.ready THEN [p EXCEPT !.user = TRUE]
  ELSE [p EXCEPT !.user = TRUE, !.current = TRUE,
                 !.sockets = IF @ < MaxSockets THEN @ + 1 ELSE @]

\* logout of the slice, and disconnectSocket for it.
SignedOut(p) ==
  [p EXCEPT !.user = FALSE, !.current = FALSE, !.ready = FALSE,
            !.sockets = IF p.current THEN @ - 1 ELSE @]

Failed_KeepsSocket(p, kind) == IF kind = "login" THEN p ELSE [p EXCEPT !.user = FALSE]

\* The page after a reply that is no success. A refused refresh on mount empties the slice
\* without the logout that closes the socket; a logout that fails signs out all the same.
Failed(p, kind) ==
  CASE kind \in {"retry", "logout"} -> SignedOut(p)
    [] kind = "mount"              -> [p EXCEPT !.user = FALSE]
    [] kind = "login"              -> p

Succeeded(p, kind) ==
  CASE kind \in {"login"} \union Refreshes -> Connected(p)
    [] kind = "logout"                     -> SignedOut(p)

Finish(s) == request' = [request EXCEPT ![s] = Idle]

\* A 2xx reply: the cookie it sets, or clears, and what the page makes of it.
Answer(s) ==
  /\ request[s].pc = "reply"
  /\ LET r == request[s] IN
     IF r.heard
       THEN /\ page' = [page EXCEPT ![r.browser] = Succeeded(@, r.kind)]
            /\ cookie' = [cookie EXCEPT ![r.browser] = r.new]
            /\ causes' = IF r.kind \in {"login"} \union Refreshes
                            /\ page[r.browser].current /\ ~page[r.browser].ready
                         THEN causes \union {"replaced"} ELSE causes
       ELSE UNCHANGED <<page, cookie, causes>>
  /\ Finish(s)
  /\ UNCHANGED <<database, budget, reused>>

Refuse(s) ==
  /\ request[s].pc = "refused"
  /\ LET r == request[s] IN
     page' = IF r.heard THEN [page EXCEPT ![r.browser] = Failed(@, r.kind)] ELSE page
  /\ Finish(s)
  /\ UNCHANGED <<database, cookie, budget, causes, reused>>

\* The connection is lost: the page takes it for a failure, the service goes on.
LoseReply(s) ==
  /\ request[s].pc # "idle" /\ request[s].heard /\ mishaps < MaxMishaps
  /\ mishaps' = mishaps + 1
  /\ request' = [request EXCEPT ![s].heard = FALSE]
  /\ page' = [page EXCEPT ![request[s].browser] = Failed(@, request[s].kind)]
  /\ causes' = causes \union {"lost"}
  /\ UNCHANGED <<database, cookie, resets, reused>>

SocketConnects(b) ==
  /\ page[b].current /\ ~page[b].ready
  /\ page' = [page EXCEPT ![b].ready = TRUE]
  /\ UNCHANGED <<database, cookie, request, budget, causes, reused>>

\* The transport is lost; socket.io reconnects by itself.
SocketDrops(b) ==
  /\ page[b].ready
  /\ page' = [page EXCEPT ![b].ready = FALSE]
  /\ UNCHANGED <<database, cookie, request, budget, causes, reused>>

Service(s) ==
  \/ ReadUser(s) \/ ReadToken(s) \/ Cascade(s) \/ CreateToken(s) \/ RevokeOld(s)
  \/ RevokeCookie(s) \/ FindLink(s) \/ MarkUsed(s) \/ SetPassword(s) \/ RevokeAll(s)
  \/ QueryFails(s)

Next ==
  \/ \E s \in Slots :
       \/ Service(s) \/ Answer(s) \/ Refuse(s) \/ LoseReply(s)
       \/ \E b \in Browsers : SubmitLogin(s, b) \/ OpenPage(s, b) \/ Unauthorized(s, b)
                              \/ ClickLogout(s, b)
       \/ \E l \in Links : SubmitReset(s, l)
  \/ \E l \in Links : ForgotPassword(l)
  \/ \E b \in Browsers : SocketConnects(b) \/ SocketDrops(b)

Spec == Init /\ [][Next]_vars

-----------------------------------------------------------------------------

SessionsTypeOK ==
  /\ token \in [Tokens -> Token] /\ minted \in Tokens
  /\ password \in Nat /\ link \in [Links -> {"none", "sent", "used"}]
  /\ cookie \in [Browsers -> 0..MaxTokens]
  /\ page \in [Browsers -> Page]
  /\ request \in [Slots -> Request \union Reset \union {Idle}]
  /\ resets \in 0..MaxResets /\ mishaps \in 0..MaxMishaps
  /\ causes \subseteq Causes /\ reused \in BOOLEAN

Quiet(b) == Of(b) = {}

\* While each browser has one request at a time and nothing is lost, rejected or reset, the
\* cookie of a page that is signed in is a live token, and between requests there is no
\* live token besides the cookies: rotation, logout and refusal leave none behind.
SessionsMatchCookies ==
  causes \subseteq {"replaced"} =>
    /\ \A b \in Browsers : page[b].user /\ Quiet(b) => cookie[b] \in Live
    /\ (\A b \in Browsers : Quiet(b)) => Live \subseteq {cookie[b] : b \in Browsers}

\* Reuse of a token is detected, and all sessions are revoked for it, only after requests
\* of one browser overlapped, a reply was lost, a query was rejected or a password was reset:
\* the service can never conclude that a token was stolen.
ReuseHasACause == reused => causes \cap {"overlap", "lost", "failed", "reset"} # {}

\* Once a reset has run to its end, no session lives that was opened with an old password,
\* but for the requests that had passed their check when it revoked the tokens, and nothing is
\* claimed once any query has been rejected: the revocation itself may be the one.
ResetEndsSessions ==
  \A t \in Live : \/ token[t].proof = password \/ token[t].escaped \/ "failed" \in causes
                  \/ \E s \in Slots : At(s, {"reset"}, "revokeAll")

\* A page without a user has no socket open and one with a user has one, unless requests
\* overlapped or a socket was replaced before it was connected.
SocketFollowsUser ==
  causes \cap {"overlap", "replaced"} = {} =>
    \A b \in Browsers : page[b].sockets = (IF page[b].user THEN 1 ELSE 0)
=============================================================================
