---------------------------- MODULE SessionsProofs ----------------------------
(***************************************************************************)
(* Theorems about Sessions, for any browsers, links, requests and bounds:  *)
(* what a reset of the password ends, that a page has a socket exactly     *)
(* while it has a user, and that undisturbed sessions are the cookies.     *)
(*                                                                         *)
(* The inductive invariant is OwnInv. SessionInv is about resets,          *)
(* SocketInv about pages, and CalmInv, which holds while nothing disturbs  *)
(* the sessions, follows each request with the tokens it holds.            *)
(***************************************************************************)
EXTENDS Sessions, TLAPS

RequestsTyped == request \in [Slots -> Request \union Reset \union {Idle}]

Typed ==
  /\ token \in [Tokens -> Token] /\ minted \in Tokens
  /\ password \in Nat /\ link \in [Links -> {"none", "sent", "used"}]
  /\ cookie \in [Browsers -> 0..MaxTokens]
  /\ RequestsTyped

\* Nothing has gone wrong with a reset, and none is about to revoke all tokens.
Settled == "failed" \notin causes /\ \A s \in Slots : ~At(s, {"reset"}, "revokeAll")

\* The requests that go on to create a token, or have passed the check that lets them.
Entitled(r) ==
  \/ r.kind \in {"login"} \union Refreshes /\ r.pc = "create"
  \/ r.kind \in Refreshes /\ r.pc = "revokeOld" /\ r.old = Legacy

SessionInv ==
  /\ Typed
  /\ Settled =>
       /\ \A t \in Live : token[t].proof = password \/ token[t].escaped
       /\ \A s \in Slots : request[s] # Idle /\ Entitled(request[s]) =>
            request[s].proof = password \/ request[s].escaped

Requests == Request \union Reset \union {Idle}

\* What lets a token live, or a request go on, in a database that is settled.
Good(x) == x.proof = password \/ x.escaped

LEMMA SessionInit == Init => SessionInv
<1> SUFFICES ASSUME Init PROVE SessionInv
  OBVIOUS
<1>1. \A s \in Slots : request[s] = Idle
  BY DEF Init
<1>2. Typed
  <2>1. token \in [Tokens -> Token]
    BY TokensAssumption DEF Init, Tokens, Token, Legacy
  <2>2. minted \in Tokens /\ Legacy \in 0..MaxTokens /\ NoToken \in 0..MaxTokens
    BY TokensAssumption DEF Init, Tokens, Legacy, NoToken
  <2>3. QED
    BY <2>1, <2>2 DEF Init, Typed, RequestsTyped
<1>3. \A t \in Tokens : token[t].proof = password
  BY DEF Init
<1>4. QED
  BY <1>1, <1>2, <1>3 DEF SessionInv, Live

\* The requests of Slots are labelled, or idle.
LEMMA Labelled ==
  ASSUME SessionInv, NEW s \in Slots
  PROVE  /\ request[s] \in Requests
         /\ request[s] = Idle <=> request[s].pc = "idle"
         /\ request[s] # Idle => request[s] \in Request \union Reset /\ request[s].pc \in Labels
<1>1. request[s] \in Requests
  BY DEF SessionInv, Typed, RequestsTyped, Requests
<1>2. \A r \in Request : r.pc \in Labels
  BY DEF Request
<1>3. \A r \in Reset : r.pc \in Labels
  BY DEF Reset
<1>4. Idle.pc = "idle" /\ "idle" \notin Labels
  BY DEF Idle, Labels
<1>5. QED
  BY <1>1, <1>2, <1>3, <1>4 DEF Requests

\* One request moves; tokens may be revoked or made for it, and a request that goes on to a
\* token is one that did before or has just passed its check.
LEMMA OneRequest ==
  ASSUME SessionInv, NEW s \in Slots, NEW r \in Requests, request' = [request EXCEPT ![s] = r],
         token' \in [Tokens -> Token], minted' \in Tokens, link' \in [Links -> {"none", "sent", "used"}],
         cookie' \in [Browsers -> 0..MaxTokens],
         password' = password, causes \subseteq causes',
         ~At(s, {"reset"}, "revokeAll"),
         Settled => \A t \in Live' :
           \/ /\ t \in Live /\ token'[t].proof = token[t].proof
              /\ token'[t].escaped = token[t].escaped
           \/ Good(token'[t]),
         r # Idle /\ Entitled(r) =>
           \/ /\ request[s] # Idle /\ Entitled(request[s])
              /\ r.proof = request[s].proof /\ r.escaped = request[s].escaped
           \/ Settled => Good(r)
  PROVE  SessionInv'
<1>1. request'[s] = r /\ \A u \in Slots : u # s => request'[u] = request[u]
  BY DEF SessionInv, Typed, RequestsTyped
<1>2. Typed'
  BY <1>1 DEF SessionInv, Typed, RequestsTyped, Requests
<1>3. Settled' => Settled
  BY <1>1 DEF Settled, At
<1>4. Settled => \A t \in Live' : token'[t].proof = password \/ token'[t].escaped
  BY DEF SessionInv, Good
<1>5. Settled => \A u \in Slots : request'[u] # Idle /\ Entitled(request'[u]) =>
        request'[u].proof = password \/ request'[u].escaped
  BY <1>1 DEF SessionInv, Good
<1>6. QED
  BY <1>2, <1>3, <1>4, <1>5 DEF SessionInv

\* The same when no token is touched.
LEMMA OneRequestOnly ==
  ASSUME SessionInv, NEW s \in Slots, NEW r \in Requests, request' = [request EXCEPT ![s] = r],
         UNCHANGED <<token, password, minted>>, link' \in [Links -> {"none", "sent", "used"}],
         cookie' \in [Browsers -> 0..MaxTokens], causes \subseteq causes',
         ~At(s, {"reset"}, "revokeAll"),
         r # Idle /\ Entitled(r) =>
           \/ /\ request[s] # Idle /\ Entitled(request[s])
              /\ r.proof = request[s].proof /\ r.escaped = request[s].escaped
           \/ Settled => Good(r)
  PROVE  SessionInv'
<1>1. \A t \in Live' : t \in Live /\ token'[t] = token[t]
  BY DEF Live
<1>2. QED
  BY <1>1, OneRequest DEF SessionInv, Typed

LEMMA GotoRecord ==
  ASSUME SessionInv, NEW s \in Slots, NEW label \in Labels, Goto(s, label), request[s] # Idle
  PROVE  \E r \in Requests :
           /\ request' = [request EXCEPT ![s] = r] /\ r # Idle
           /\ r.pc = label /\ r.kind = request[s].kind
           /\ request[s] \in Request => r \in Request /\ r.old = request[s].old
                /\ r.proof = request[s].proof /\ r.escaped = request[s].escaped
<1> DEFINE r == [request[s] EXCEPT !.pc = label]
<1>1. request' = [request EXCEPT ![s] = r]
  BY DEF Goto, SessionInv, Typed, RequestsTyped
<1>2. CASE request[s] \in Request
  <2>1. r \in Request
    BY <1>2 DEF Request
  <2>2. QED
    BY <1>1, <1>2, <2>1 DEF Request, Requests, Idle, Labels
<1>3. CASE request[s] \in Reset
  <2>1. r \in Reset /\ request[s] \notin Request
    BY <1>3 DEF Reset, Request, Kinds
  <2>2. QED
    BY <1>1, <1>3, <2>1 DEF Reset, Requests, Idle, Labels
<1>4. QED
  BY <1>2, <1>3, Labelled

\* A request goes on by its label alone, to one that lets it create nothing.
LEMMA GoesOn ==
  ASSUME SessionInv, NEW s \in Slots, NEW label \in Labels \ {"create", "revokeOld"}, Goto(s, label),
         request[s].pc \in Labels, ~At(s, {"reset"}, "revokeAll"),
         UNCHANGED <<token, password, minted, cookie>>, link' \in [Links -> {"none", "sent", "used"}],
         causes \subseteq causes'
  PROVE  SessionInv'
<1>1. request[s] # Idle
  BY Labelled DEF Idle, Labels
<1>2. PICK r \in Requests : request' = [request EXCEPT ![s] = r] /\ r # Idle /\ r.pc = label
  BY <1>1, GotoRecord
<1>3. ~Entitled(r)
  BY <1>2 DEF Entitled
<1>4. cookie' \in [Browsers -> 0..MaxTokens]
  BY DEF SessionInv, Typed
<1>5. QED
  BY <1>2, <1>3, <1>4, OneRequestOnly

-----------------------------------------------------------------------------
(* The pages.                                                                *)

LEMMA PagesKeep ==
  ASSUME SessionInv, NEW s \in Slots,
         \/ \E b \in Browsers : SubmitLogin(s, b) \/ OpenPage(s, b) \/ Unauthorized(s, b) \/ ClickLogout(s, b)
         \/ \E l \in Links : SubmitReset(s, l)
  PROVE  SessionInv'
<1>1. \A b \in Browsers, kind \in Kinds :
        Fresh(kind, b, cookie[b]) \in Request /\ ~Entitled(Fresh(kind, b, cookie[b]))
  <2> TAKE b \in Browsers, kind \in Kinds
  <2>1. /\ cookie[b] \in 0..MaxTokens /\ NoToken \in 0..MaxTokens /\ password \in Nat
        /\ "read" \in Labels
    BY TokensAssumption DEF SessionInv, Typed, NoToken, Labels
  <2>2. Fresh(kind, b, cookie[b]) \in Request
    BY <2>1 DEF Fresh, Request
  <2>3. QED
    BY <2>2 DEF Fresh, Entitled
<1>2. ASSUME NEW b \in Browsers, NEW kind \in Kinds, Send(s, b, kind, request),
             UNCHANGED <<database, cookie>>
      PROVE SessionInv'
  <2>1. /\ request[s].pc = "idle" /\ request' = [request EXCEPT ![s] = Fresh(kind, b, cookie[b])]
        /\ causes \subseteq causes' /\ UNCHANGED <<token, password, minted, link, cookie>>
    BY <1>2 DEF Send, database
  <2>2. ~At(s, {"reset"}, "revokeAll") /\ Fresh(kind, b, cookie[b]) \in Requests
    BY <1>1, <2>1 DEF At, Requests
  <2>3. QED
    BY <1>1, <2>1, <2>2, OneRequestOnly DEF SessionInv, Typed
<1>3. CASE \E b \in Browsers : SubmitLogin(s, b) \/ Unauthorized(s, b) \/ ClickLogout(s, b)
  BY <1>2, <1>3 DEF SubmitLogin, Unauthorized, ClickLogout, Kinds
<1>4. ASSUME NEW b \in Browsers, OpenPage(s, b) PROVE SessionInv'
  <2> DEFINE kept == [r \in Slots |-> IF r \in Of(b) THEN [request[r] EXCEPT !.heard = FALSE] ELSE request[r]]
             f == Fresh("mount", b, cookie[b])
  <2>1. /\ request[s].pc = "idle" /\ request' = [kept EXCEPT ![s] = f]
        /\ causes \subseteq causes' /\ UNCHANGED <<token, password, minted, link, cookie>>
    BY <1>4 DEF OpenPage, Send, database
  <2>2. f \in Request /\ ~Entitled(f)
    BY <1>1 DEF Kinds
  <2>3. ASSUME NEW u \in Slots, u \in Of(b)
        PROVE  /\ kept[u] \in Request /\ request[u] \in Request
               /\ kept[u].pc = request[u].pc /\ kept[u].kind = request[u].kind
               /\ kept[u].old = request[u].old
               /\ kept[u].proof = request[u].proof /\ kept[u].escaped = request[u].escaped
    <3>1. request[u] \in Request
      BY <2>3, Labelled DEF Of, Reset, Idle
    <3>2. QED
      BY <2>3, <3>1 DEF Request
  <2>4. \A u \in Slots : u \notin Of(b) => kept[u] = request[u]
    OBVIOUS
  <2>5. request'[s] = f /\ \A u \in Slots : u # s => request'[u] = kept[u]
    BY <2>1
  <2> HIDE DEF kept, f
  <2>6. RequestsTyped'
    <3>1. \A u \in Slots : request'[u] \in Request \union Reset \union {Idle}
      BY <2>2, <2>3, <2>4, <2>5, Labelled DEF Requests
    <3>2. request' = [u \in Slots |-> request'[u]]
      BY <2>1 DEF kept
    <3>3. QED
      BY <3>1, <3>2 DEF RequestsTyped
  <2>7. Settled' => Settled
    <3>1. \A u \in Slots : At(u, {"reset"}, "revokeAll") => u \notin Of(b) /\ u # s
      BY <2>1 DEF At, Of
    <3>2. QED
      BY <2>1, <2>4, <2>5, <3>1 DEF Settled, At
  <2>8. Live' = Live
    BY <2>1 DEF Live
  <2>9. ASSUME NEW u \in Slots, request'[u] # Idle, Entitled(request'[u]), Settled
        PROVE  request'[u].proof = password \/ request'[u].escaped
    <3>1. u # s
      BY <2>2, <2>5, <2>9
    <3>2. CASE u \in Of(b)
      <4>1. request[u] # Idle /\ Entitled(request[u])
        BY <2>3, <2>5, <2>9, <3>1, <3>2 DEF Entitled, Of, Idle
      <4>2. QED
        BY <2>3, <2>5, <2>9, <3>1, <3>2, <4>1 DEF SessionInv
    <3>3. CASE u \notin Of(b)
      BY <2>4, <2>5, <2>9, <3>1, <3>3 DEF SessionInv
    <3>4. QED
      BY <3>2, <3>3
  <2>10. QED
    BY <2>1, <2>6, <2>7, <2>8, <2>9 DEF SessionInv, Typed
<1>5. ASSUME NEW l \in Links, SubmitReset(s, l) PROVE SessionInv'
  <2> DEFINE r == [pc |-> "read", kind |-> "reset", link |-> l, heard |-> FALSE]
  <2>1. /\ request[s].pc = "idle" /\ request' = [request EXCEPT ![s] = r]
        /\ UNCHANGED <<token, password, minted, link, cookie, causes>>
    BY <1>5 DEF SubmitReset, database
  <2>2. r \in Requests /\ ~Entitled(r) /\ ~At(s, {"reset"}, "revokeAll")
    BY <2>1 DEF Requests, Reset, Labels, Entitled, At
  <2>3. QED
    BY <2>1, <2>2, OneRequestOnly DEF SessionInv, Typed
<1>6. QED
  BY <1>3, <1>4, <1>5

-----------------------------------------------------------------------------
(* The service.                                                              *)

LEMMA RevokedTokens ==
  ASSUME SessionInv, NEW ts, token' = Revoked(ts)
  PROVE  /\ token' \in [Tokens -> Token]
         /\ \A t \in Live' : t \in Live \ ts /\ token'[t] = token[t]
<1>1. token \in [Tokens -> Token]
  BY DEF SessionInv, Typed
<1>2. \A t \in Tokens : [token[t] EXCEPT !.state = "revoked"] \in Token
                       /\ [token[t] EXCEPT !.state = "revoked"].state = "revoked"
  BY <1>1 DEF Token
<1>3. \A t \in Tokens : token'[t] \in Token
  BY <1>1, <1>2 DEF Revoked
<1>4. token' \in [Tokens -> Token]
  BY <1>3 DEF Revoked
<1>5. \A t \in Tokens : t \in ts => token'[t].state = "revoked"
  BY <1>2 DEF Revoked
<1>6. QED
  BY <1>4, <1>5 DEF Revoked, Live

LEMMA NoTokenNotLive == NoToken \notin Live
  BY DEF NoToken, Live, Tokens

\* What the lookup of a token leads to.
LEMMA LookupLabels ==
  ASSUME NEW t \in 0..MaxTokens
  PROVE  /\ AfterLookup(t) \in {"refused", "revokeOld", "create", "cascade"}
         /\ AfterLookup(t) = "create" => t \in Live /\ t # Legacy
         /\ AfterLookup(t) = "revokeOld" => t \in Live /\ t = Legacy
         /\ t \in Live => AfterLookup(t) \in {"revokeOld", "create"}
         /\ t = NoToken <=> t \notin Tokens
         /\ t = NoToken => AfterLookup(t) = "refused"
<1>1. NoToken # Legacy /\ (t = NoToken <=> t \notin Tokens) /\ NoToken \notin Live
  BY TokensAssumption, NoTokenNotLive DEF NoToken, Legacy, Tokens
<1>2. CASE t = NoToken
  <2>1. AfterLookup(t) = "refused"
    BY <1>1, <1>2 DEF AfterLookup, HasJti
  <2>2. QED
    BY <1>1, <1>2, <2>1
<1>3. CASE t = Legacy
  <2>1. AfterLookup(t) = IF t \in Live THEN "revokeOld" ELSE "refused"
    BY <1>1, <1>3 DEF AfterLookup, HasJti
  <2>2. QED
    BY <1>1, <1>3, <2>1
<1>4. CASE t # NoToken /\ t # Legacy
  <2>1. HasJti(t)
    BY <1>1, <1>4 DEF HasJti
  <2>2. AfterLookup(t) = IF t \in Live THEN "create" ELSE "cascade"
    BY <1>4, <2>1 DEF AfterLookup
  <2>3. QED
    BY <1>1, <1>4, <2>2
<1>5. QED
  BY <1>2, <1>3, <1>4

\* What ReadToken makes of a request.
ReadRecord(q, r) ==
  /\ q.pc = "read" /\ q.kind \in Refreshes /\ q.old \in 0..MaxTokens
  /\ r.pc = AfterLookup(q.old) /\ r.kind = q.kind /\ r.browser = q.browser /\ r.heard = q.heard
  /\ r.old = q.old /\ r.new = q.new
  /\ q.old # NoToken => r.proof = token[q.old].proof /\ r.escaped = token[q.old].escaped

LEMMA ReadTokenRecord ==
  ASSUME SessionInv, NEW s \in Slots, ReadToken(s)
  PROVE  /\ request[s] \in Request
         /\ \E r \in Request : request' = [request EXCEPT ![s] = r] /\ ReadRecord(request[s], r)
<1> DEFINE q == request[s]
           t == q.old
           proof == IF t = NoToken THEN q.proof ELSE token[t].proof
           escaped == IF t = NoToken THEN q.escaped ELSE token[t].escaped
           r == [q EXCEPT !.pc = AfterLookup(t), !.proof = proof, !.escaped = escaped]
<1>1. q \in Request /\ q.pc = "read" /\ q.kind \in Refreshes
  BY Labelled DEF ReadToken, At, Refreshes, Requests, Request, Reset, Idle
<1>2. t \in 0..MaxTokens /\ (t # NoToken => t \in Tokens)
  BY <1>1, TokensAssumption DEF Request, Tokens, NoToken
<1>3. AfterLookup(t) \in Labels
  BY <1>2, LookupLabels DEF Labels
<1>4. proof \in Nat /\ escaped \in BOOLEAN
  <2>1. t # NoToken => token[t] \in Token
    BY <1>2 DEF SessionInv, Typed
  <2>2. QED
    BY <1>1, <2>1 DEF Token, Request
<1>5. r \in Request /\ ReadRecord(q, r)
  BY <1>1, <1>2, <1>3, <1>4 DEF Request, ReadRecord
<1>6. request' = [request EXCEPT ![s] = r]
  <2>1. request = [u \in Slots |-> request[u]]
    BY DEF SessionInv, Typed, RequestsTyped
  <2>2. q = [pc |-> q.pc, kind |-> q.kind, browser |-> q.browser, old |-> q.old, new |-> q.new,
             proof |-> q.proof, escaped |-> q.escaped, heard |-> q.heard]
    BY <1>1 DEF Request
  <2> DEFINE f == [request EXCEPT ![s].pc = AfterLookup(t), ![s].proof = proof, ![s].escaped = escaped]
  <2>3. request' = f
    BY DEF ReadToken
  <2>4. f = [request EXCEPT ![s] = r]
    BY <2>1, <2>2
  <2>5. QED
    BY <2>3, <2>4
<1>7. QED
  BY <1>1, <1>5, <1>6

LEMMA ReadTokenKeeps ==
  ASSUME SessionInv, NEW s \in Slots, ReadToken(s)
  PROVE  SessionInv'
<1>1. PICK r \in Request : request' = [request EXCEPT ![s] = r] /\ ReadRecord(request[s], r)
  BY ReadTokenRecord
<1>2. request[s].old \in 0..MaxTokens /\ r.pc = AfterLookup(request[s].old) /\ request[s].pc = "read"
  BY <1>1 DEF ReadRecord
<1>3. Entitled(r) => request[s].old \in Live
  BY <1>2, LookupLabels DEF Entitled
<1>4. Entitled(r) /\ Settled => Good(r)
  BY <1>1, <1>3, NoTokenNotLive DEF SessionInv, Good, ReadRecord
<1>5. r \in Requests /\ UNCHANGED <<token, password, minted, link, cookie, causes>>
      /\ ~At(s, {"reset"}, "revokeAll")
  BY <1>2 DEF Requests, ReadToken, database, At
<1>6. link' \in [Links -> {"none", "sent", "used"}] /\ cookie' \in [Browsers -> 0..MaxTokens]
  BY <1>5 DEF SessionInv, Typed
<1>7. QED
  BY <1>1, <1>4, <1>5, <1>6, OneRequestOnly

LEMMA ReadUserKeeps ==
  ASSUME SessionInv, NEW s \in Slots, ReadUser(s)
  PROVE  SessionInv'
<1>1. request[s] \in Request /\ request[s] # Idle /\ request[s].kind = "login" /\ request[s].pc = "read"
  BY Labelled DEF ReadUser, At, Requests, Reset, Idle
<1>2. CASE request[s].proof = password
  <2>1. PICK r \in Requests : request' = [request EXCEPT ![s] = r] /\ r.proof = request[s].proof
    BY <1>1, <1>2, GotoRecord DEF ReadUser, Labels
  <2>2. QED
    BY <1>1, <1>2, <2>1, OneRequestOnly DEF ReadUser, database, At, Good, SessionInv, Typed
<1>3. CASE request[s].proof # password
  BY <1>1, <1>3, GoesOn DEF ReadUser, database, At, Labels, SessionInv, Typed
<1>4. QED
  BY <1>2, <1>3

\* A request revokes tokens and goes on.
LEMMA RevokingKeeps ==
  ASSUME SessionInv, NEW s \in Slots, NEW ts, NEW label \in Labels \ {"revokeOld"},
         token' = Revoked(ts), Goto(s, label), request[s].pc \in Labels, request[s].pc # "revokeAll",
         label = "create" => request[s] \in Request /\ Entitled(request[s]),
         UNCHANGED <<password, link, minted, cookie>>, causes \subseteq causes'
  PROVE  SessionInv'
<1>1. request[s] # Idle
  BY Labelled DEF Idle, Labels
<1>2. PICK r \in Requests :
        /\ request' = [request EXCEPT ![s] = r] /\ r # Idle /\ r.pc = label
        /\ request[s] \in Request => r.proof = request[s].proof /\ r.escaped = request[s].escaped
  BY <1>1, GotoRecord
<1>3. Entitled(r) => label = "create"
  BY <1>2 DEF Entitled
<1>4. token' \in [Tokens -> Token] /\ \A t \in Live' : t \in Live /\ token'[t] = token[t]
  BY RevokedTokens
<1>5. ~At(s, {"reset"}, "revokeAll") /\ minted' \in Tokens /\ link' \in [Links -> {"none", "sent", "used"}]
      /\ cookie' \in [Browsers -> 0..MaxTokens]
  BY DEF At, SessionInv, Typed
<1>6. QED
  BY <1>1, <1>2, <1>3, <1>4, <1>5, OneRequest

LEMMA RevocationsKeep ==
  ASSUME SessionInv, NEW s \in Slots, Cascade(s) \/ RevokeOld(s) \/ RevokeCookie(s)
  PROVE  SessionInv'
<1>1. CASE Cascade(s)
  BY <1>1, RevokingKeeps DEF Cascade, At, Labels
<1>2. CASE RevokeOld(s)
  <2>1. request[s] \in Request /\ request[s].pc = "revokeOld" /\ request[s].kind \in Refreshes
    BY <1>2, Labelled DEF RevokeOld, At, Refreshes, Requests, Reset, Idle
  <2>2. request[s].old = Legacy => Entitled(request[s])
    BY <2>1 DEF Entitled
  <2>3. QED
    BY <1>2, <2>1, <2>2, RevokingKeeps DEF RevokeOld, Labels
<1>3. CASE RevokeCookie(s)
  BY <1>3, RevokingKeeps DEF RevokeCookie, At, Labels
<1>4. QED
  BY <1>1, <1>2, <1>3

\* What CreateToken makes of a request and of the table.
CreateRecord(q, r, x) ==
  /\ q.pc = "create" /\ q.kind \in {"login"} \union Refreshes
  /\ r.pc = IF q.kind = "login" \/ q.old = Legacy THEN "reply" ELSE "revokeOld"
  /\ r.new = minted + 1 /\ minted + 1 \in Tokens
  /\ r.kind = q.kind /\ r.browser = q.browser /\ r.heard = q.heard /\ r.old = q.old
  /\ x.state = "live" /\ x.proof = q.proof /\ x.escaped = q.escaped

LEMMA CreateTokenRecord ==
  ASSUME SessionInv, NEW s \in Slots, CreateToken(s)
  PROVE  /\ request[s] \in Request /\ minted' = minted + 1
         /\ UNCHANGED <<password, link, cookie, causes>>
         /\ \E r \in Request, x \in Token :
              /\ request' = [request EXCEPT ![s] = r] /\ token' = [token EXCEPT ![minted + 1] = x]
              /\ CreateRecord(request[s], r, x)
<1> DEFINE q == request[s]
           n == minted + 1
           next == IF q.kind = "login" \/ q.old = Legacy THEN "reply" ELSE "revokeOld"
           r == [q EXCEPT !.new = n, !.pc = next]
           x == [state |-> "live", proof |-> q.proof, escaped |-> q.escaped]
<1>1. q \in Request /\ q.pc = "create" /\ q.kind \in {"login"} \union Refreshes
  BY Labelled DEF CreateToken, At, Refreshes, Requests, Reset, Idle
<1>2. n \in Tokens /\ n \in 0..MaxTokens
  BY TokensAssumption DEF CreateToken, SessionInv, Typed, Tokens
<1>3. x \in Token
  BY <1>1 DEF Request, Token
<1>4. r \in Request /\ CreateRecord(q, r, x)
  BY <1>1, <1>2 DEF Request, Labels, CreateRecord
<1>5. request' = [request EXCEPT ![s] = r]
  <2>1. request = [u \in Slots |-> request[u]]
    BY DEF SessionInv, Typed, RequestsTyped
  <2>2. QED
    BY <2>1 DEF CreateToken
<1>6. token' = [token EXCEPT ![n] = x] /\ minted' = n
      /\ UNCHANGED <<password, link, cookie, causes>>
  BY DEF CreateToken
<1>7. QED
  BY <1>1, <1>3, <1>4, <1>5, <1>6

LEMMA CreateTokenKeeps ==
  ASSUME SessionInv, NEW s \in Slots, CreateToken(s)
  PROVE  SessionInv'
<1>1. PICK r \in Request, x \in Token :
        /\ request' = [request EXCEPT ![s] = r] /\ token' = [token EXCEPT ![minted + 1] = x]
        /\ CreateRecord(request[s], r, x)
  BY CreateTokenRecord
<1>2. minted + 1 \in Tokens /\ minted' = minted + 1
  BY <1>1, CreateTokenRecord DEF CreateRecord
<1>3. token' \in [Tokens -> Token]
  BY <1>1, <1>2 DEF SessionInv, Typed
<1>4. token'[minted + 1] = x /\ \A t \in Tokens : t # minted + 1 => token'[t] = token[t]
  BY <1>1, <1>2 DEF SessionInv, Typed
<1>5. Settled => Good(x)
  <2>1. request[s] # Idle /\ Entitled(request[s]) /\ x.proof = request[s].proof /\ x.escaped = request[s].escaped
    BY <1>1 DEF CreateRecord, Entitled, Idle
  <2>2. QED
    BY <2>1 DEF SessionInv, Good
<1>6. Settled => \A t \in Live' :
         \/ t \in Live /\ token'[t].proof = token[t].proof /\ token'[t].escaped = token[t].escaped
         \/ Good(token'[t])
  BY <1>4, <1>5 DEF Live
<1>7. ~Entitled(r)
  BY <1>1 DEF Entitled, CreateRecord
<1>8. r \in Requests /\ ~At(s, {"reset"}, "revokeAll") /\ minted' \in Tokens
       /\ link' \in [Links -> {"none", "sent", "used"}] /\ cookie' \in [Browsers -> 0..MaxTokens]
       /\ password' = password /\ causes \subseteq causes'
  BY <1>1, <1>2, CreateTokenRecord DEF Requests, At, SessionInv, Typed, CreateRecord
<1>9. QED
  BY <1>1, <1>3, <1>6, <1>7, <1>8, OneRequest

\* A reset that is under way.
LEMMA ResetsKeep ==
  ASSUME SessionInv, NEW s \in Slots, FindLink(s) \/ MarkUsed(s) \/ SetPassword(s)
  PROVE  SessionInv'
<1>1. CASE FindLink(s)
  BY <1>1, GoesOn DEF FindLink, database, At, Labels, SessionInv, Typed
<1>2. CASE MarkUsed(s)
  <2>1. link' \in [Links -> {"none", "sent", "used"}]
    BY <1>2 DEF MarkUsed, SessionInv, Typed
  <2>2. QED
    BY <1>2, <2>1, GoesOn DEF MarkUsed, At, Labels
<1>3. CASE SetPassword(s)
  <2>1. request[s] # Idle /\ request[s].kind = "reset"
    BY <1>3, Labelled DEF SetPassword, At, Idle
  <2>2. PICK r \in Requests : request' = [request EXCEPT ![s] = r] /\ r.pc = "revokeAll" /\ r.kind = "reset"
    BY <1>3, <2>1, GotoRecord DEF SetPassword, Labels
  <2>3. ~Settled'
    BY <2>2 DEF SessionInv, Typed, RequestsTyped, Settled, At
  <2>4. Typed'
    BY <1>3, <2>2 DEF SetPassword, SessionInv, Typed, RequestsTyped, Requests
  <2>5. QED
    BY <2>3, <2>4 DEF SessionInv
<1>4. QED
  BY <1>1, <1>2, <1>3

LEMMA RevokeAllKeeps ==
  ASSUME SessionInv, NEW s \in Slots, RevokeAll(s)
  PROVE  SessionInv'
<1>1. request[s] \in Reset /\ token' = Revoked(Live)
      /\ UNCHANGED <<password, link, minted, cookie>>
  BY Labelled DEF RevokeAll, At, Requests, Request, Kinds, Idle
<1>2. Live' = {} /\ token' \in [Tokens -> Token]
  BY <1>1, RevokedTokens
<1>3. request'[s] \in Reset /\ request'[s].kind = "reset"
  BY <1>1 DEF RevokeAll, Reset, Labels
<1>4. ASSUME NEW u \in Slots, u # s
      PROVE  request'[u] \in Requests /\ (request'[u] # Idle /\ Entitled(request'[u]) => request'[u].escaped)
  <2> DEFINE counted == At(u, {"login"} \union Refreshes, "create") \/ At(u, Refreshes, "revokeOld")
  <2>1. CASE counted
    <3>1. request[u] \in Request
      BY <2>1, Labelled DEF At, Refreshes, Requests, Reset, Idle
    <3>2. request'[u] = [request[u] EXCEPT !.escaped = TRUE]
      BY <1>4, <2>1 DEF RevokeAll
    <3>3. QED
      BY <3>1, <3>2 DEF Request, Requests
  <2>2. CASE ~counted
    <3>1. request'[u] = request[u]
      BY <1>4, <2>2 DEF RevokeAll
    <3>2. QED
      BY <2>2, <3>1, Labelled DEF At, Entitled
  <2>3. QED
    BY <2>1, <2>2
<1>5. RequestsTyped'
  <2>1. request' = [u \in Slots |-> request'[u]]
    BY DEF RevokeAll
  <2>2. QED
    BY <1>3, <1>4, <2>1 DEF RequestsTyped, Requests
<1>6. ~Entitled(request'[s])
  BY <1>3 DEF Entitled, Refreshes
<1>7. QED
  BY <1>1, <1>2, <1>4, <1>5, <1>6 DEF SessionInv, Typed

-----------------------------------------------------------------------------
(* Replies.                                                                  *)

LEMMA QueryFailsKeeps ==
  ASSUME SessionInv, NEW s \in Slots, QueryFails(s)
  PROVE  SessionInv'
<1>1. request[s] # Idle
  BY Labelled DEF QueryFails
<1>2. PICK r \in Requests : request' = [request EXCEPT ![s] = r]
  BY <1>1, GotoRecord DEF QueryFails, Labels
<1>3. ~Settled'
  BY DEF QueryFails, Settled
<1>4. Typed'
  BY <1>2 DEF QueryFails, database, SessionInv, Typed, RequestsTyped, Requests
<1>5. QED
  BY <1>3, <1>4 DEF SessionInv

LEMMA RepliesKeep ==
  ASSUME SessionInv, NEW s \in Slots, Answer(s) \/ Refuse(s) \/ LoseReply(s)
  PROVE  SessionInv'
<1>1. Idle \in Requests
  BY DEF Requests
<1>2. CASE Answer(s)
  <2>1. cookie' \in [Browsers -> 0..MaxTokens]
    <3>1. CASE request[s].heard
      <4>1. request[s] \in Request
        BY <1>2, <3>1, Labelled DEF Answer, Requests, Reset, Idle
      <4>2. QED
        BY <1>2, <3>1, <4>1 DEF Answer, Request, SessionInv, Typed
    <3>2. CASE ~request[s].heard
      BY <1>2, <3>2 DEF Answer, SessionInv, Typed
    <3>3. QED
      BY <3>1, <3>2
  <2>2. causes \subseteq causes'
    BY <1>2 DEF Answer
  <2>3. QED
    BY <1>1, <1>2, <2>1, <2>2, OneRequestOnly DEF Answer, Finish, database, At, SessionInv, Typed
<1>3. CASE Refuse(s)
  BY <1>1, <1>3, OneRequestOnly DEF Refuse, Finish, database, At, SessionInv, Typed
<1>4. CASE LoseReply(s)
  <2> DEFINE r == [request[s] EXCEPT !.heard = FALSE]
  <2>1. request[s] \in Request /\ request[s] # Idle
    BY <1>4, Labelled DEF LoseReply, Requests, Reset, Idle
  <2>2. /\ r \in Request /\ r.pc = request[s].pc /\ r.kind = request[s].kind /\ r.old = request[s].old
        /\ r.proof = request[s].proof /\ r.escaped = request[s].escaped
    BY <2>1 DEF Request
  <2>3. request' = [request EXCEPT ![s] = r]
    BY <1>4 DEF LoseReply, SessionInv, Typed, RequestsTyped
  <2>4. ~At(s, {"reset"}, "revokeAll")
    BY <2>1 DEF At, Request, Kinds
  <2>5. Entitled(r) => Entitled(request[s])
    BY <2>2 DEF Entitled
  <2>6. r \in Requests /\ causes \subseteq causes' /\ UNCHANGED <<token, password, minted, link, cookie>>
    BY <1>4, <2>2 DEF Requests, LoseReply, database
  <2>7. link' \in [Links -> {"none", "sent", "used"}] /\ cookie' \in [Browsers -> 0..MaxTokens]
    BY <2>6 DEF SessionInv, Typed
  <2> HIDE DEF r
  <2>8. QED
    BY <2>1, <2>2, <2>3, <2>4, <2>5, <2>6, <2>7, OneRequestOnly
<1>5. QED
  BY <1>2, <1>3, <1>4

LEMMA SessionInductive == SessionInv /\ [Next]_vars => SessionInv'
<1> SUFFICES ASSUME SessionInv, [Next]_vars PROVE SessionInv'
  OBVIOUS
<1>1. ASSUME UNCHANGED <<token, password, minted, cookie, request, causes>>,
             link' \in [Links -> {"none", "sent", "used"}]
      PROVE  SessionInv'
  BY <1>1 DEF SessionInv, Typed, RequestsTyped, Settled, At, Live
<1>2. ASSUME NEW l \in Links, ForgotPassword(l) PROVE SessionInv'
  BY <1>1, <1>2 DEF ForgotPassword, SessionInv, Typed
<1>3. ASSUME NEW b \in Browsers, SocketConnects(b) \/ SocketDrops(b) PROVE SessionInv'
  BY <1>1, <1>3 DEF SocketConnects, SocketDrops, database, SessionInv, Typed
<1>4. CASE UNCHANGED vars
  BY <1>1, <1>4 DEF vars, database, SessionInv, Typed
<1>5. ASSUME NEW s \in Slots, Service(s) PROVE SessionInv'
  BY <1>5, ReadUserKeeps, ReadTokenKeeps, RevocationsKeep, CreateTokenKeeps, ResetsKeep,
     RevokeAllKeeps, QueryFailsKeeps DEF Service
<1>6. QED
  BY <1>2, <1>3, <1>4, <1>5, PagesKeep, RepliesKeep DEF Next

\* Once a reset of the password has run to its end no session lives that was opened with an old
\* one, but for requests that had passed their check: for any number of browsers, links and
\* requests in any order (resetPassword against login and refresh).
THEOREM ResetEnds == Spec => []ResetEndsSessions
<1>1. SessionInv => ResetEndsSessions
  BY DEF SessionInv, Settled, ResetEndsSessions
<1>2. QED
  BY SessionInit, SessionInductive, <1>1, PTL DEF Spec

-----------------------------------------------------------------------------
(* The page and its socket.                                                  *)

PageOK(p) == p \in Page /\ (p.current => p.sockets > 0)

\* The sockets of a page that holds the one it has opened.
Tidy(p) ==
  /\ p.sockets = IF p.user THEN 1 ELSE 0
  /\ p.current = p.user
  /\ p.ready => p.current

Single(b) == \A s, u \in Of(b) : s = u

Undisturbed == causes \cap {"overlap", "replaced"} = {}

SocketInv ==
  /\ \A b \in Browsers : PageOK(page[b])
  /\ page \in [Browsers -> Page] /\ causes \subseteq Causes
  /\ Undisturbed => \A b \in Browsers :
       /\ Single(b) /\ Tidy(page[b])
       /\ \A s \in Of(b) : request[s].heard /\ request[s].kind = "mount" => ~page[b].user

-----------------------------------------------------------------------------
(* The tokens of a browser whose requests nothing disturbs.                  *)

Calm == causes \subseteq {"replaced"}

\* The tokens a browser has, or is about to be given.
Mine(b) == {cookie[b]} \union {request[s].new : s \in Of(b)}

\* What a request has done to the token it was sent with, and what it has created.
Stage(r) ==
  /\ r.heard
  /\ r.pc \in {"read", "create", "refused"} => r.new = NoToken
  /\ r.kind \in {"retry", "logout"} /\ r.pc = "read" => r.old \in Live
  /\ r.kind = "mount" /\ r.pc = "read" => r.old \in Live \union {NoToken}
  /\ r.kind = "login" => r.old = NoToken /\ r.pc \in {"read", "create", "reply", "refused"}
  /\ r.kind = "logout" => r.pc \in {"read", "reply"} /\ r.new = NoToken
  /\ r.kind \in Refreshes => r.pc \in {"read", "create", "revokeOld", "reply", "refused"}
  /\ r.pc = "refused" => r.old = NoToken /\ r.kind \in {"login", "mount"}
  /\ r.kind \in Refreshes /\ r.pc = "create" => r.old # NoToken /\ (r.old \in Live <=> r.old # Legacy)
  /\ r.pc = "revokeOld" =>
       /\ r.old \in Live /\ r.new # r.old
       /\ IF r.old = Legacy THEN r.new = NoToken ELSE r.new \in Live
  /\ r.pc = "reply" => r.old \notin Live /\ (r.kind # "logout" => r.new \in Live)

\* Between requests the cookie is a live token, or there is none.
AtRest(b) ==
  /\ cookie[b] \in Live \union {NoToken}
  /\ page[b].user => cookie[b] \in Live
  /\ page[b].open /\ ~page[b].user => cookie[b] = NoToken

Orderly(b) ==
  /\ Single(b)
  /\ Of(b) = {} => AtRest(b)
  /\ \A s \in Of(b) : Stage(request[s]) /\ request[s].old = cookie[b]
  /\ \A s \in Of(b) : request[s].kind = "login" => ~page[b].user

CalmInv ==
  /\ ~reused
  /\ \A b \in Browsers : Orderly(b)
  /\ \A b, c \in Browsers : b # c => Mine(b) \cap Mine(c) \subseteq {NoToken}
  /\ \A b \in Browsers : \A t \in Mine(b) : t <= minted
  /\ Live \subseteq UNION {Mine(b) : b \in Browsers}

OwnInv == SessionInv /\ SocketInv /\ (Calm => CalmInv)

-----------------------------------------------------------------------------
(* What the steps of a service leave of a request.                           *)

\* A request keeps what it was sent with: who asked, for what, and with which token.
Kept(u) ==
  /\ request'[u].pc = "idle" <=> request[u].pc = "idle"
  /\ request'[u].kind = request[u].kind
  /\ request[u] \in Request =>
       /\ request'[u] \in Request
       /\ request'[u].browser = request[u].browser
       /\ request'[u].old = request[u].old
       /\ request'[u].heard = request[u].heard

LEMMA GotoKeeps ==
  ASSUME SessionInv, NEW s \in Slots, NEW label \in Labels, Goto(s, label), request[s].pc \in Labels,
         NEW u \in Slots
  PROVE  Kept(u)
<1>1. request[s] # Idle /\ label # "idle" /\ request[s].pc # "idle"
  BY DEF Idle, Labels
<1>2. u # s => request'[u] = request[u]
  BY DEF Goto, SessionInv, Typed, RequestsTyped
<1>3. request'[s] = [request[s] EXCEPT !.pc = label]
  BY DEF Goto, SessionInv, Typed, RequestsTyped
<1>4. CASE u # s
  BY <1>2, <1>4 DEF Kept
<1>5. CASE request[s] \in Request
  <2>1. request'[s] \in Request
    BY <1>3, <1>5 DEF Request
  <2>2. QED
    BY <1>1, <1>3, <1>4, <1>5, <2>1 DEF Kept, Request
<1>6. CASE request[s] \in Reset
  <2>1. request[s] \notin Request
    BY <1>6 DEF Reset, Request, Kinds
  <2>2. QED
    BY <1>1, <1>3, <1>4, <1>6, <2>1 DEF Kept, Reset
<1>7. QED
  BY <1>1, <1>5, <1>6, Labelled

LEMMA ReplacedKeeps ==
  ASSUME SessionInv, NEW s \in Slots, NEW r \in Request, request' = [request EXCEPT ![s] = r],
         request[s] \in Request, r.kind = request[s].kind, r.browser = request[s].browser,
         r.old = request[s].old, r.heard = request[s].heard, NEW u \in Slots
  PROVE  Kept(u)
<1>1. request'[s] = r /\ (u # s => request'[u] = request[u])
  BY DEF SessionInv, Typed, RequestsTyped
<1>2. r.pc # "idle" /\ request[s].pc # "idle"
  BY DEF Request, Labels
<1>3. QED
  BY <1>1, <1>2 DEF Kept

LEMMA ServiceKeeps ==
  ASSUME SessionInv, NEW s \in Slots, Service(s)
  PROVE  /\ \A u \in Slots : Kept(u)
         /\ UNCHANGED <<page, cookie>>
         /\ causes \subseteq causes' /\ causes' \subseteq causes \union {"reset", "failed"}
<1>1. UNCHANGED <<page, cookie>> /\ causes \subseteq causes' /\ causes' \subseteq causes \union {"reset", "failed"}
  BY DEF Service, ReadUser, ReadToken, Cascade, CreateToken, RevokeOld, RevokeCookie, FindLink, MarkUsed,
         SetPassword, RevokeAll, QueryFails, database
<1>2. \A label \in Labels : Goto(s, label) /\ request[s].pc \in Labels => \A u \in Slots : Kept(u)
  BY GotoKeeps
<1>3. CASE ReadUser(s) \/ Cascade(s) \/ RevokeOld(s) \/ RevokeCookie(s) \/ FindLink(s) \/ MarkUsed(s) \/ SetPassword(s)
  <2>1. request[s].pc \in Labels
    BY <1>3 DEF ReadUser, Cascade, RevokeOld, RevokeCookie, FindLink, MarkUsed, SetPassword, At, Labels
  <2>2. \E label \in Labels : Goto(s, label)
    BY <1>3 DEF ReadUser, Cascade, RevokeOld, RevokeCookie, FindLink, MarkUsed, SetPassword, Labels
  <2>3. QED
    BY <1>1, <1>2, <2>1, <2>2
<1>4. CASE QueryFails(s)
  <2>1. request[s].pc \in Labels /\ Goto(s, "refused") /\ "refused" \in Labels
    BY <1>4, Labelled DEF QueryFails, Idle, Labels
  <2>2. QED
    BY <1>1, <1>2, <2>1
<1>5. CASE ReadToken(s)
  <2>1. PICK r \in Request : request' = [request EXCEPT ![s] = r] /\ request[s] \in Request
          /\ r.kind = request[s].kind /\ r.browser = request[s].browser
          /\ r.old = request[s].old /\ r.heard = request[s].heard
    BY <1>5, ReadTokenRecord DEF ReadRecord
  <2>2. QED
    BY <1>1, <2>1, ReplacedKeeps
<1>6. CASE CreateToken(s)
  <2>1. PICK r \in Request : request' = [request EXCEPT ![s] = r] /\ request[s] \in Request
          /\ r.kind = request[s].kind /\ r.browser = request[s].browser
          /\ r.old = request[s].old /\ r.heard = request[s].heard
    BY <1>6, CreateTokenRecord DEF CreateRecord
  <2>2. QED
    BY <1>1, <2>1, ReplacedKeeps
<1>7. CASE RevokeAll(s)
  <2>1. ASSUME NEW u \in Slots PROVE Kept(u)
    <3>1. CASE u = s
      <4>1. request[u] \in Reset /\ request'[u] = [request[u] EXCEPT !.pc = "reply"]
        BY <1>7, <3>1, Labelled DEF RevokeAll, At, Requests, Request, Kinds, Idle
      <4>2. request[u] \notin Request /\ request[u].pc # "idle"
        BY <4>1 DEF Reset, Request, Kinds, Labels
      <4>3. QED
        BY <4>1, <4>2 DEF Kept, Reset
    <3>2. CASE u # s /\ (At(u, {"login"} \union Refreshes, "create") \/ At(u, Refreshes, "revokeOld"))
      <4>1. request[u] \in Request
        BY <3>2, Labelled DEF At, Refreshes, Requests, Reset, Idle
      <4>2. request'[u] = [request[u] EXCEPT !.escaped = TRUE]
        BY <1>7, <3>2 DEF RevokeAll
      <4>3. QED
        BY <4>1, <4>2 DEF Kept, Request
    <3>3. CASE u # s /\ ~(At(u, {"login"} \union Refreshes, "create") \/ At(u, Refreshes, "revokeOld"))
      <4>1. request'[u] = request[u]
        BY <1>7, <3>3 DEF RevokeAll
      <4>2. QED
        BY <4>1 DEF Kept
    <3>4. QED
      BY <3>1, <3>2, <3>3
  <2>2. QED
    BY <1>1, <2>1
<1>8. QED
  BY <1>3, <1>4, <1>5, <1>6, <1>7 DEF Service

-----------------------------------------------------------------------------
(* The socket.                                                               *)

Mounted == [Blank EXCEPT !.open = TRUE]

\* What a reply makes of a page.
LEMMA PageOperators ==
  ASSUME NEW p, PageOK(p)
  PROVE  /\ PageOK(Connected(p)) /\ Connected(p).user /\ Connected(p).open = p.open
         /\ PageOK(SignedOut(p)) /\ ~SignedOut(p).user /\ SignedOut(p).open = p.open
         /\ PageOK([p EXCEPT !.user = FALSE]) /\ PageOK(Mounted) /\ Mounted.open /\ ~Mounted.user
         /\ Tidy(Mounted)
         /\ Tidy(p) => Tidy(SignedOut(p)) /\ (~p.user => Tidy([p EXCEPT !.user = FALSE]))
         /\ Tidy(p) /\ (p.current => p.ready) => Tidy(Connected(p))
<1>1. /\ p.open \in BOOLEAN /\ p.user \in BOOLEAN /\ p.current \in BOOLEAN /\ p.ready \in BOOLEAN
      /\ p.sockets \in 0..2 /\ (p.current => p.sockets > 0) /\ p \in Page
  BY DEF PageOK, Page, MaxSockets
<1>2. PageOK(Connected(p)) /\ Connected(p).user /\ Connected(p).open = p.open
      /\ (Tidy(p) /\ (p.current => p.ready) => Tidy(Connected(p)))
  <2>1. CASE p.ready
    <3> DEFINE q == [p EXCEPT !.user = TRUE]
    <3>1. /\ q.user = TRUE /\ q.open = p.open /\ q.current = p.current /\ q.ready = p.ready
          /\ q.sockets = p.sockets /\ q \in Page
      BY <1>1 DEF Page
    <3>2. Connected(p) = q
      BY <2>1 DEF Connected
    <3> HIDE DEF q
    <3>3. QED
      BY <1>1, <2>1, <3>1, <3>2 DEF PageOK, Tidy
  <2>2. CASE ~p.ready
    <3> DEFINE n == IF p.sockets < 2 THEN p.sockets + 1 ELSE p.sockets
               q == [p EXCEPT !.user = TRUE, !.current = TRUE, !.sockets = n]
    <3>1. n \in 0..2 /\ n > 0 /\ (p.sockets = 0 => n = 1)
      BY <1>1
    <3>2. Connected(p) = q
      BY <2>2 DEF Connected, MaxSockets
    <3> HIDE DEF n
    <3>3. /\ q.user = TRUE /\ q.open = p.open /\ q.current = TRUE /\ q.ready = p.ready
          /\ q.sockets = n /\ q \in Page
      BY <1>1, <3>1 DEF Page, MaxSockets
    <3> HIDE DEF q
    <3>4. QED
      BY <1>1, <2>2, <3>1, <3>2, <3>3 DEF PageOK, Tidy
  <2>3. QED
    BY <2>1, <2>2
<1>3. PageOK(SignedOut(p)) /\ ~SignedOut(p).user /\ SignedOut(p).open = p.open
      /\ (Tidy(p) => Tidy(SignedOut(p)))
  <2> DEFINE n == IF p.current THEN p.sockets - 1 ELSE p.sockets
             q == [p EXCEPT !.user = FALSE, !.current = FALSE, !.ready = FALSE, !.sockets = n]
  <2>1. n \in 0..2 /\ (Tidy(p) => n = 0)
    BY <1>1 DEF Tidy
  <2>2. SignedOut(p) = q
    BY DEF SignedOut
  <2> HIDE DEF n
  <2>3. /\ q.user = FALSE /\ q.open = p.open /\ q.current = FALSE /\ q.ready = FALSE
        /\ q.sockets = n /\ q \in Page
    BY <1>1, <2>1 DEF Page, MaxSockets
  <2> HIDE DEF q
  <2>4. QED
    BY <2>1, <2>2, <2>3 DEF PageOK, Tidy
<1>4. PageOK([p EXCEPT !.user = FALSE]) /\ (Tidy(p) /\ ~p.user => Tidy([p EXCEPT !.user = FALSE]))
  <2> DEFINE q == [p EXCEPT !.user = FALSE]
  <2>1. /\ q.user = FALSE /\ q.open = p.open /\ q.current = p.current /\ q.ready = p.ready
        /\ q.sockets = p.sockets /\ q \in Page
    BY <1>1 DEF Page
  <2> HIDE DEF q
  <2>2. PageOK(q) /\ (Tidy(p) /\ ~p.user => Tidy(q))
    BY <1>1, <2>1 DEF PageOK, Tidy
  <2>3. QED
    BY <2>2 DEF q
<1>5. PageOK(Mounted) /\ Tidy(Mounted) /\ Mounted.open /\ ~Mounted.user
  <2>1. /\ Mounted.user = FALSE /\ Mounted.open = TRUE /\ Mounted.current = FALSE
        /\ Mounted.ready = FALSE /\ Mounted.sockets = 0 /\ Mounted \in Page
    <3>1. /\ Blank \in Page /\ Blank.user = FALSE /\ Blank.sockets = 0 /\ Blank.current = FALSE
          /\ Blank.ready = FALSE
      BY DEF Blank, Page, MaxSockets
    <3>2. QED
      BY <3>1 DEF Mounted, Page
  <2>2. QED
    BY <2>1 DEF PageOK, Tidy
<1>6. QED
  BY <1>2, <1>3, <1>4, <1>5

LEMMA ReplyPages ==
  ASSUME NEW p, PageOK(p), NEW kind \in Kinds
  PROVE  /\ PageOK(Failed(p, kind)) /\ PageOK(Succeeded(p, kind))
         /\ Tidy(p) /\ (kind = "mount" => ~p.user) => Tidy(Failed(p, kind))
         /\ Tidy(p) /\ (kind # "logout" /\ p.current => p.ready) => Tidy(Succeeded(p, kind))
         /\ Failed(p, kind).user => p.user
<1>1. CASE kind = "login"
  <2>1. Failed(p, kind) = p /\ Succeeded(p, kind) = Connected(p)
    BY <1>1 DEF Failed, Succeeded, Refreshes
  <2>2. QED
    BY <1>1, <2>1, PageOperators
<1>2. CASE kind = "mount"
  <2>1. Failed(p, kind) = [p EXCEPT !.user = FALSE] /\ Succeeded(p, kind) = Connected(p)
    BY <1>2 DEF Failed, Succeeded, Refreshes
  <2>2. ~[p EXCEPT !.user = FALSE].user
    BY DEF PageOK, Page
  <2>3. QED
    BY <1>2, <2>1, <2>2, PageOperators
<1>3. CASE kind = "retry"
  <2>1. Failed(p, kind) = SignedOut(p) /\ Succeeded(p, kind) = Connected(p)
    BY <1>3 DEF Failed, Succeeded, Refreshes
  <2>2. QED
    BY <1>3, <2>1, PageOperators
<1>4. CASE kind = "logout"
  <2>1. Failed(p, kind) = SignedOut(p) /\ Succeeded(p, kind) = SignedOut(p)
    BY <1>4 DEF Failed, Succeeded, Refreshes
  <2>2. QED
    BY <1>4, <2>1, PageOperators
<1>5. QED
  BY <1>1, <1>2, <1>3, <1>4 DEF Kinds

\* The page of b becomes p; the requests of the other browsers stay, or end.
LEMMA SocketStep ==
  ASSUME SocketInv, NEW b \in Browsers, NEW p, PageOK(p), page' = [page EXCEPT ![b] = p],
         causes \subseteq causes', causes' \subseteq Causes,
         \A c \in Browsers \ {b}, s \in Slots :
           s \in Of(c)' => /\ s \in Of(c) /\ request'[s].kind = request[s].kind
                           /\ request'[s].heard => request[s].heard,
         Undisturbed' =>
           /\ Tidy(p) /\ Single(b)'
           /\ \A s \in Of(b)' : request'[s].heard /\ request'[s].kind = "mount" => ~p.user
  PROVE  SocketInv'
<1>1. page'[b] = p /\ \A c \in Browsers : c # b => page'[c] = page[c]
  BY DEF SocketInv
<1>2. (\A c \in Browsers : PageOK(page'[c])) /\ page' \in [Browsers -> Page]
  BY <1>1 DEF SocketInv, PageOK
<1>3. Undisturbed' => Undisturbed
  BY DEF Undisturbed
<1>4. ASSUME Undisturbed', NEW c \in Browsers
      PROVE  /\ Single(c)' /\ Tidy(page'[c])
             /\ \A s \in Of(c)' : request'[s].heard /\ request'[s].kind = "mount" => ~page'[c].user
  <2>1. CASE c = b
    BY <1>1, <1>4, <2>1
  <2>2. CASE c # b
    <3>1. \A s \in Of(c)' : s \in Slots
      BY DEF Of
    <3>2. Single(c) /\ Tidy(page[c])
          /\ \A s \in Of(c) : request[s].heard /\ request[s].kind = "mount" => ~page[c].user
      BY <1>3, <1>4 DEF SocketInv
    <3>3. \A s \in Of(c)' : s \in Of(c)
      BY <2>2, <3>1
    <3>4. Single(c)'
      BY <3>2, <3>3 DEF Single
    <3>5. QED
      BY <1>1, <2>2, <3>1, <3>2, <3>4
  <2>3. QED
    BY <2>1, <2>2
<1>5. QED
  BY <1>2, <1>4 DEF SocketInv

\* No page changes.
LEMMA SocketKeeps ==
  ASSUME SocketInv, page' = page, causes \subseteq causes', causes' \subseteq Causes,
         \A c \in Browsers, s \in Slots :
           s \in Of(c)' => /\ s \in Of(c) /\ request'[s].kind = request[s].kind
                           /\ request'[s].heard => request[s].heard
  PROVE  SocketInv'
<1>1. Undisturbed' => Undisturbed
  BY DEF Undisturbed
<1>2. ASSUME Undisturbed', NEW c \in Browsers
      PROVE  /\ Single(c)' /\ Tidy(page'[c])
             /\ \A s \in Of(c)' : request'[s].heard /\ request'[s].kind = "mount" => ~page'[c].user
  <2>1. \A s \in Of(c)' : s \in Slots
    BY DEF Of
  <2>2. Single(c) /\ Tidy(page[c])
        /\ \A s \in Of(c) : request[s].heard /\ request[s].kind = "mount" => ~page[c].user
    BY <1>1, <1>2 DEF SocketInv
  <2>3. \A s \in Of(c)' : s \in Of(c)
    BY <2>1
  <2>4. Single(c)'
    BY <2>2, <2>3 DEF Single
  <2>5. QED
    BY <2>1, <2>2, <2>4
<1>3. QED
  BY <1>2 DEF SocketInv

\* Whose a request is, and that one that ends or becomes idle is nobody's.
LEMMA OfRequest ==
  ASSUME SessionInv, NEW s \in Slots, NEW c
  PROVE  s \in Of(c) <=> request[s] \in Request /\ request[s].browser = c
<1>1. Idle.pc = "idle" /\ Idle \notin Request
  BY DEF Idle, Request, Labels
<1>2. \A r \in Request : r.pc # "idle" /\ r.kind # "reset"
  BY DEF Request, Labels, Kinds
<1>3. \A r \in Reset : r.kind = "reset"
  BY DEF Reset
<1>4. QED
  BY <1>1, <1>2, <1>3, Labelled DEF Of, Requests

LEMMA OfKept ==
  ASSUME SessionInv, NEW s \in Slots, Kept(s), NEW c
  PROVE  /\ s \in Of(c)' <=> s \in Of(c)
         /\ s \in Of(c) => /\ request'[s].kind = request[s].kind /\ request'[s].heard = request[s].heard
                           /\ request'[s].old = request[s].old
<1>1. CASE request[s] \in Request
  BY <1>1, OfRequest DEF Kept, Of
<1>2. CASE request[s] \notin Request
  <2>1. s \notin Of(c) /\ (request[s] = Idle \/ request[s] \in Reset)
    BY <1>2, OfRequest, Labelled DEF Requests
  <2>2. request[s] = Idle => request'[s].pc = "idle"
    BY DEF Kept, Idle
  <2>3. request[s] \in Reset => request'[s].kind = "reset"
    BY DEF Kept, Reset
  <2>4. QED
    BY <2>1, <2>2, <2>3 DEF Of
<1>3. QED
  BY <1>1, <1>2

\* The requests of b when one more is sent.
LEMMA Sending ==
  ASSUME SessionInv, NEW s \in Slots, NEW b \in Browsers, NEW kind \in Kinds,
         Send(s, b, kind, request)
  PROVE  /\ request' = [request EXCEPT ![s] = Fresh(kind, b, cookie[b])] /\ request[s].pc = "idle"
         /\ Fresh(kind, b, cookie[b]) \in Request
         /\ Of(b)' = Of(b) \union {s} /\ s \notin Of(b)
         /\ \A c : c # b => Of(c)' = Of(c) /\ s \notin Of(c)
         /\ \A u \in Slots : u # s => request'[u] = request[u]
         /\ request'[s] = Fresh(kind, b, cookie[b])
         /\ Of(b) # {} => "overlap" \in causes'
         /\ causes \subseteq causes' /\ causes' \subseteq causes \union {"overlap"}
<1>1. /\ request' = [request EXCEPT ![s] = Fresh(kind, b, cookie[b])] /\ request[s].pc = "idle"
      /\ Of(b) # {} => "overlap" \in causes'
      /\ causes \subseteq causes' /\ causes' \subseteq causes \union {"overlap"}
  BY DEF Send
<1>2. Fresh(kind, b, cookie[b]) \in Request
  <2>1. /\ cookie[b] \in 0..MaxTokens /\ NoToken \in 0..MaxTokens /\ password \in Nat
        /\ "read" \in Labels
    BY TokensAssumption DEF SessionInv, Typed, NoToken, Labels
  <2>2. QED
    BY <2>1 DEF Fresh, Request
<1>3. request'[s] = Fresh(kind, b, cookie[b]) /\ \A u \in Slots : u # s => request'[u] = request[u]
  BY <1>1 DEF SessionInv, Typed, RequestsTyped
<1>4. /\ request'[s].pc = "read" /\ request'[s].kind # "reset" /\ request'[s].browser = b
  BY <1>3 DEF Fresh, Kinds
<1>5. Of(b)' = Of(b) \union {s} /\ \A c : s \notin Of(c)
  BY <1>1, <1>3, <1>4 DEF Of
<1>6. \A c : c # b => Of(c)' = Of(c)
  BY <1>3, <1>4, <1>5 DEF Of
<1>7. QED
  BY <1>1, <1>2, <1>3, <1>5, <1>6

\* A new page: what the old one has under way is no longer heard.
LEMMA Opening ==
  ASSUME SessionInv, NEW s \in Slots, NEW b \in Browsers, OpenPage(s, b)
  PROVE  /\ \A c, u : c # b /\ u \in Of(c)' => u \in Of(c) /\ u # s /\ request'[u] = request[u]
         /\ \A c, u : c # b /\ u \in Of(c) => u \in Of(c)'
         /\ request'[s] = Fresh("mount", b, cookie[b]) /\ s \in Of(b)'
         /\ Of(b) # {} => "overlap" \in causes'
         /\ \A u \in Of(b)' : u = s \/ u \in Of(b)
         /\ causes \subseteq causes' /\ causes' \subseteq causes \union {"overlap"}
<1> DEFINE kept == [r \in Slots |-> IF r \in Of(b) THEN [request[r] EXCEPT !.heard = FALSE] ELSE request[r]]
<1>1. /\ request' = [kept EXCEPT ![s] = Fresh("mount", b, cookie[b])] /\ request[s].pc = "idle"
      /\ Of(b) # {} => "overlap" \in causes'
      /\ causes \subseteq causes' /\ causes' \subseteq causes \union {"overlap"}
  BY DEF OpenPage, Send
<1>2. request'[s] = Fresh("mount", b, cookie[b]) /\ \A u \in Slots : u # s => request'[u] = kept[u]
  BY <1>1
<1>3. /\ request'[s].pc = "read" /\ request'[s].kind # "reset" /\ request'[s].browser = b
  BY <1>2 DEF Fresh
<1>4. \A u \in Slots : u \notin Of(b) => kept[u] = request[u]
  OBVIOUS
<1>5. \A u \in Slots : u \in Of(b) =>
        kept[u].pc = request[u].pc /\ kept[u].kind = request[u].kind /\ kept[u].browser = b
  <2> SUFFICES ASSUME NEW u \in Slots, u \in Of(b)
               PROVE kept[u].pc = request[u].pc /\ kept[u].kind = request[u].kind /\ kept[u].browser = b
    OBVIOUS
  <2>1. request[u] \in Request /\ request[u].browser = b
    BY OfRequest
  <2>2. QED
    BY <2>1 DEF Request
<1> HIDE DEF kept
<1>6. \A c : s \notin Of(c)
  BY <1>1 DEF Of
<1>7. \A c, u : c # b /\ u \in Of(c) => u \notin Of(b) /\ u \in Slots /\ u # s
  BY <1>6 DEF Of
<1>8. \A c, u : c # b /\ u \in Of(c) => u \in Of(c)' /\ request'[u] = request[u]
  BY <1>2, <1>4, <1>7 DEF Of
<1>9. \A c, u : c # b /\ u \in Of(c)' => u \in Slots /\ u # s /\ u \notin Of(b)
  BY <1>2, <1>3, <1>5 DEF Of
<1>10. \A c, u : c # b /\ u \in Of(c)' => u \in Of(c)
  BY <1>2, <1>4, <1>9 DEF Of
<1>11. \A u \in Of(b)' : u = s \/ u \in Of(b)
  BY <1>2, <1>4 DEF Of
<1>12. s \in Of(b)'
  BY <1>3 DEF Of
<1>13. QED
  BY <1>1, <1>2, <1>7, <1>8, <1>10, <1>11, <1>12

LEMMA SocketInit == Init => SocketInv
<1> SUFFICES ASSUME Init PROVE SocketInv
  OBVIOUS
<1>1. PageOK(Blank) /\ Tidy(Blank)
  BY DEF PageOK, Tidy, Blank, Page, MaxSockets
<1>2. page \in [Browsers -> Page] /\ \A b \in Browsers : page[b] = Blank
  BY <1>1 DEF Init, PageOK
<1>3. \A b \in Browsers : Of(b) = {}
  BY DEF Init, Of, Idle
<1>4. causes = {}
  BY DEF Init
<1>5. QED
  BY <1>1, <1>2, <1>3, <1>4 DEF SocketInv, Single

LEMMA SocketOfSent ==
  ASSUME SessionInv, SocketInv, NEW s \in Slots, NEW b \in Browsers, NEW kind \in Kinds \ {"mount"},
         Send(s, b, kind, request), page' = page
  PROVE  SocketInv'
<1>1. page' = [page EXCEPT ![b] = page[b]] /\ PageOK(page[b])
  BY DEF SocketInv
<1>2. causes \subseteq causes' /\ causes' \subseteq Causes
  BY Sending DEF SocketInv, Causes
<1>3. ASSUME NEW c \in Browsers \ {b}, NEW u \in Slots, u \in Of(c)'
      PROVE  u \in Of(c) /\ request'[u] = request[u]
  BY <1>3, Sending
<1>4. ASSUME Undisturbed'
      PROVE  /\ Tidy(page[b]) /\ Single(b)'
             /\ \A u \in Of(b)' : request'[u].heard /\ request'[u].kind = "mount" => ~page[b].user
  <2>1. Of(b)' = {s} /\ Undisturbed
    BY <1>2, <1>4, Sending DEF Undisturbed
  <2>2. request'[s] = Fresh(kind, b, cookie[b])
    BY Sending
  <2>3. request'[s].kind # "mount"
    BY <2>2 DEF Fresh
  <2>4. QED
    BY <2>1, <2>3 DEF SocketInv, Single
<1>5. QED
  BY <1>1, <1>2, <1>3, <1>4, SocketStep

LEMMA SocketOfOpened ==
  ASSUME SessionInv, SocketInv, NEW s \in Slots, NEW b \in Browsers, OpenPage(s, b)
  PROVE  SocketInv'
<1>1. page' = [page EXCEPT ![b] = Mounted]
  BY DEF OpenPage, Mounted
<1>2. PageOK(Mounted) /\ Tidy(Mounted) /\ ~Mounted.user
  BY PageOperators DEF SocketInv
<1>3. causes \subseteq causes' /\ causes' \subseteq Causes
  BY Opening DEF SocketInv, Causes
<1>4. ASSUME NEW c \in Browsers \ {b}, NEW u \in Slots, u \in Of(c)'
      PROVE  u \in Of(c) /\ request'[u] = request[u]
  BY <1>4, Opening
<1>5. ASSUME Undisturbed' PROVE Single(b)'
  <2>1. \A u \in Of(b)' : u = s
    BY <1>5, Opening DEF Undisturbed
  <2>2. QED
    BY <2>1 DEF Single
<1>6. QED
  BY <1>1, <1>2, <1>3, <1>4, <1>5, SocketStep

\* A request of b ends, and the page of b becomes p.
LEMMA SocketOfReply ==
  ASSUME SessionInv, SocketInv, NEW s \in Slots, request[s] \in Request, NEW b, b = request[s].browser,
         NEW p, PageOK(p), page' = [page EXCEPT ![b] = p], Finish(s),
         causes \subseteq causes', causes' \subseteq Causes, Undisturbed' => Tidy(p)
  PROVE  SocketInv'
<1>1. b \in Browsers /\ s \in Of(b)
  BY OfRequest DEF Request
<1>2. request'[s] = Idle /\ \A u \in Slots : u # s => request'[u] = request[u]
  BY DEF Finish, SessionInv, Typed, RequestsTyped
<1>3. \A c, u : u \in Of(c)' => u \in Of(c) /\ request'[u] = request[u] /\ u # s
  BY <1>2 DEF Of, Idle
<1>4. ASSUME Undisturbed' PROVE Of(b)' = {}
  <2>1. Single(b)
    BY <1>1, <1>4 DEF SocketInv, Undisturbed
  <2>2. \A u : u \notin Of(b)'
    BY <1>1, <1>3, <2>1 DEF Single
  <2>3. QED
    BY <2>2
<1>5. Undisturbed' => Single(b)'
  BY <1>4 DEF Single
<1>6. QED
  BY <1>1, <1>3, <1>4, <1>5, SocketStep

LEMMA SocketOfReplies ==
  ASSUME SessionInv, SocketInv, NEW s \in Slots, Answer(s) \/ Refuse(s) \/ LoseReply(s)
  PROVE  SocketInv'
<1> DEFINE r == request[s]
<1>1. r \in Requests /\ (r \in Request => r.browser \in Browsers /\ r.kind \in Kinds /\ s \in Of(r.browser))
  BY Labelled, OfRequest DEF Request
<1>2. (Answer(s) \/ Refuse(s) \/ LoseReply(s)) /\ r.heard => r \in Request
  BY Labelled DEF Answer, Refuse, LoseReply, Requests, Reset, Idle
<1>3. ASSUME Answer(s) \/ Refuse(s), ~r.heard PROVE SocketInv'
  <2>1. page' = page /\ causes' = causes /\ Finish(s)
    BY <1>3 DEF Answer, Refuse
  <2>2. request'[s] = Idle /\ \A u \in Slots : u # s => request'[u] = request[u]
    BY <2>1 DEF Finish, SessionInv, Typed, RequestsTyped
  <2>3. \A c, u : u \in Of(c)' => u \in Of(c) /\ request'[u] = request[u]
    BY <2>2 DEF Of, Idle
  <2>4. QED
    BY <2>1, <2>3, SocketKeeps DEF SocketInv
<1>4. ASSUME Answer(s), r.heard PROVE SocketInv'
  <2> DEFINE p == page[r.browser]
  <2>1. /\ page' = [page EXCEPT ![r.browser] = Succeeded(p, r.kind)] /\ Finish(s)
        /\ causes \subseteq causes' /\ causes' \subseteq causes \union {"replaced"}
        /\ r.kind # "logout" /\ p.current /\ ~p.ready => "replaced" \in causes'
    BY <1>1, <1>2, <1>4 DEF Answer, Kinds, Refreshes, SocketInv
  <2>2. PageOK(p) /\ PageOK(Succeeded(p, r.kind)) /\ r \in Request
    BY <1>1, <1>2, <1>4, ReplyPages DEF SocketInv
  <2>3. Undisturbed' => Undisturbed /\ (r.kind # "logout" /\ p.current => p.ready)
    BY <2>1 DEF Undisturbed
  <2>4. Undisturbed => Tidy(p)
    BY <1>1, <1>2, <1>4 DEF SocketInv
  <2>5. Undisturbed' => Tidy(Succeeded(p, r.kind))
    BY <1>1, <2>2, <2>3, <2>4, ReplyPages
  <2>6. causes' \subseteq Causes
    BY <2>1 DEF SocketInv, Causes
  <2> HIDE DEF p
  <2>7. QED
    BY <2>1, <2>2, <2>5, <2>6, SocketOfReply
<1>5. ASSUME Refuse(s), r.heard PROVE SocketInv'
  <2> DEFINE p == page[r.browser]
  <2>1. page' = [page EXCEPT ![r.browser] = Failed(p, r.kind)] /\ Finish(s) /\ causes' = causes
    BY <1>1, <1>2, <1>5 DEF Refuse, SocketInv
  <2>2. PageOK(p) /\ PageOK(Failed(p, r.kind)) /\ r \in Request
    BY <1>1, <1>2, <1>5, ReplyPages DEF SocketInv
  <2>3. Undisturbed => Tidy(p) /\ (r.kind = "mount" => ~p.user)
    BY <1>1, <1>2, <1>5 DEF SocketInv
  <2>4. Undisturbed' => Tidy(Failed(p, r.kind))
    BY <1>1, <2>1, <2>2, <2>3, ReplyPages DEF Undisturbed
  <2>5. causes' \subseteq Causes
    BY <2>1 DEF SocketInv
  <2> HIDE DEF p
  <2>6. QED
    BY <2>1, <2>2, <2>4, <2>5, SocketOfReply
<1>6. ASSUME LoseReply(s) PROVE SocketInv'
  <2>0. PICK b \in Browsers : b = r.browser
    BY <1>1, <1>2, <1>6 DEF LoseReply
  <2> DEFINE p == page[b]
             q == [r EXCEPT !.heard = FALSE]
  <2>1. /\ page' = [page EXCEPT ![b] = Failed(p, r.kind)] /\ r.heard
        /\ request' = [request EXCEPT ![s] = q] /\ causes' = causes \union {"lost"}
    BY <1>1, <1>2, <1>6, <2>0 DEF LoseReply, SocketInv, SessionInv, Typed, RequestsTyped
  <2>2. PageOK(p) /\ PageOK(Failed(p, r.kind)) /\ r \in Request /\ b \in Browsers
    BY <1>1, <1>2, <1>6, <2>1, ReplyPages DEF SocketInv
  <2>3. /\ q.heard = FALSE /\ q.kind = r.kind /\ q.browser = b /\ q.old = r.old /\ q \in Request
    BY <2>0, <2>2 DEF Request
  <2>4. request'[s] = q /\ \A u \in Slots : u # s => request'[u] = request[u]
    BY <2>1 DEF SessionInv, Typed, RequestsTyped
  <2> HIDE DEF q
  <2>5. \A u \in Slots, c \in Browsers : u \in Of(c)' <=> u \in Of(c)
    <3>1. q.pc # "idle" /\ q.kind # "reset" /\ r.pc # "idle" /\ r.kind # "reset"
      BY <2>2, <2>3 DEF Request, Labels, Kinds
    <3>2. r.browser = b
      BY <2>0
    <3>3. \A c : s \in Of(c)' <=> s \in Of(c)
      BY <2>3, <2>4, <3>1, <3>2 DEF Of
    <3>4. \A c, u : u # s => (u \in Of(c)' <=> u \in Of(c))
      BY <2>4 DEF Of
    <3>5. QED
      BY <3>3, <3>4
  <2>6. \A u \in Slots : request'[u].heard => request[u].heard /\ u # s
    BY <2>3, <2>4
  <2>7. \A u \in Slots : request'[u].kind = request[u].kind
    BY <2>3, <2>4
  <2>8. Undisturbed' => Undisturbed
    BY <2>1 DEF Undisturbed
  <2>9. Undisturbed => Tidy(p) /\ Single(b) /\ (r.kind = "mount" => ~p.user) /\ s \in Of(b)
    BY <1>1, <1>2, <1>6, <2>0, <2>1, <2>2 DEF SocketInv
  <2>10. Undisturbed => Tidy(Failed(p, r.kind))
    BY <1>1, <2>2, <2>9, ReplyPages
  <2>11. ASSUME Undisturbed' PROVE Single(b)' /\ \A u \in Of(b)' : u = s
    <3>1. \A u \in Of(b)' : u \in Slots
      BY DEF Of
    <3>2. \A u \in Of(b)' : u = s
      BY <2>2, <2>5, <2>8, <2>9, <2>11, <3>1 DEF Single
    <3>3. QED
      BY <3>2 DEF Single
  <2>12. causes \subseteq causes' /\ causes' \subseteq Causes
    BY <2>1 DEF SocketInv, Causes
  <2>13. \A u \in Of(b)' : Undisturbed' => ~request'[u].heard
    BY <2>3, <2>4, <2>11
  <2> HIDE DEF p
  <2>14. \A c \in Browsers \ {b}, u \in Slots :
           u \in Of(c)' => /\ u \in Of(c) /\ request'[u].kind = request[u].kind
                           /\ request'[u].heard => request[u].heard
    BY <2>5, <2>6, <2>7
  <2>15. QED
    BY <2>1, <2>2, <2>8, <2>10, <2>11, <2>12, <2>13, <2>14, SocketStep
<1>7. QED
  BY <1>3, <1>4, <1>5, <1>6

LEMMA SocketOfTransport ==
  ASSUME SessionInv, SocketInv, NEW b \in Browsers, SocketConnects(b) \/ SocketDrops(b)
  PROVE  SocketInv'
<1> DEFINE p == page[b]
<1>1. PageOK(p) /\ request' = request /\ causes' = causes
  BY DEF SocketConnects, SocketDrops, SocketInv
<1>2. PICK ready \in BOOLEAN : page' = [page EXCEPT ![b] = [p EXCEPT !.ready = ready]] /\ (ready => p.current)
  <2>1. CASE SocketConnects(b)
    <3>1. page' = [page EXCEPT ![b] = [p EXCEPT !.ready = TRUE]] /\ p.current
      BY <2>1 DEF SocketConnects, SocketInv
    <3>2. QED
      BY <3>1
  <2>2. CASE SocketDrops(b)
    <3>1. page' = [page EXCEPT ![b] = [p EXCEPT !.ready = FALSE]]
      BY <2>2 DEF SocketDrops, SocketInv
    <3>2. QED
      BY <3>1
  <2>3. QED
    BY <2>1, <2>2
<1> DEFINE q == [p EXCEPT !.ready = ready]
<1>3. /\ q \in Page /\ q.ready = ready /\ q.user = p.user /\ q.current = p.current /\ q.sockets = p.sockets
  BY <1>1 DEF PageOK, Page
<1>4. Undisturbed => /\ Tidy(p) /\ Single(b)
                     /\ \A s \in Of(b) : request[s].heard /\ request[s].kind = "mount" => ~p.user
  BY DEF SocketInv
<1>5. page' = [page EXCEPT ![b] = q]
  BY <1>2
<1> HIDE DEF p, q
<1>6. PageOK(q) /\ (Undisturbed => Tidy(q))
  BY <1>1, <1>2, <1>3, <1>4 DEF PageOK, Tidy
<1>7. \A c : Of(c)' = Of(c)
  BY <1>1 DEF Of
<1>8. Undisturbed' <=> Undisturbed
  BY <1>1 DEF Undisturbed
<1>9. Undisturbed' => /\ Single(b)'
                      /\ \A s \in Of(b)' : request'[s].heard /\ request'[s].kind = "mount" => ~q.user
  BY <1>1, <1>3, <1>4, <1>7, <1>8 DEF Single
<1>10. causes \subseteq causes' /\ causes' \subseteq Causes
  BY <1>1 DEF SocketInv
<1>11. QED
  BY <1>1, <1>5, <1>6, <1>7, <1>8, <1>9, <1>10, SocketStep

LEMMA SocketInductive == SessionInv /\ SocketInv /\ [Next]_vars => SocketInv'
<1> SUFFICES ASSUME SessionInv, SocketInv, [Next]_vars PROVE SocketInv'
  OBVIOUS
<1>1. ASSUME UNCHANGED <<page, causes, request>> PROVE SocketInv'
  <2>1. \A c : Of(c)' = Of(c)
    BY <1>1 DEF Of
  <2>2. QED
    BY <1>1, <2>1, SocketKeeps DEF SocketInv
<1>2. CASE UNCHANGED vars \/ \E l \in Links : ForgotPassword(l)
  BY <1>1, <1>2 DEF vars, ForgotPassword
<1>3. ASSUME NEW s \in Slots, Service(s) PROVE SocketInv'
  <2>1. /\ \A u \in Slots : Kept(u)
        /\ page' = page /\ causes \subseteq causes' /\ causes' \subseteq Causes
    BY <1>3, ServiceKeeps DEF SocketInv, Causes
  <2>2. \A c \in Browsers, u \in Slots :
          u \in Of(c)' => /\ u \in Of(c) /\ request'[u].kind = request[u].kind
                          /\ request'[u].heard => request[u].heard
    BY <2>1, OfKept
  <2>3. QED
    BY <2>1, <2>2, SocketKeeps
<1>4. ASSUME NEW s \in Slots, NEW l \in Links, SubmitReset(s, l) PROVE SocketInv'
  <2>1. /\ page' = page /\ causes' = causes
        /\ request'[s].kind = "reset" /\ \A u \in Slots : u # s => request'[u] = request[u]
    BY <1>4 DEF SubmitReset, SessionInv, Typed, RequestsTyped
  <2>2. \A c, u : u \in Of(c)' => u \in Of(c) /\ request'[u] = request[u]
    BY <2>1 DEF Of
  <2>3. QED
    BY <2>1, <2>2, SocketKeeps DEF SocketInv
<1>5. ASSUME NEW s \in Slots, NEW b \in Browsers, SubmitLogin(s, b) \/ Unauthorized(s, b) \/ ClickLogout(s, b)
      PROVE  SocketInv'
  <2>1. page' = page /\ \E kind \in Kinds \ {"mount"} : Send(s, b, kind, request)
    BY <1>5 DEF SubmitLogin, Unauthorized, ClickLogout, Kinds
  <2>2. QED
    BY <2>1, SocketOfSent
<1>6. QED
  BY <1>2, <1>3, <1>4, <1>5, SocketOfOpened, SocketOfReplies, SocketOfTransport DEF Next

\* Whatever the order of logins, refreshes, logouts, lost replies and reconnections, a page has
\* one socket exactly while it has a user, unless its requests overlapped or a socket was
\* replaced before it was connected (socket.middleware against the thunks of auth.slice).
THEOREM SocketFollows == Spec => []SocketFollowsUser
<1>1. SocketInv => SocketFollowsUser
  BY DEF SocketInv, Undisturbed, SocketFollowsUser, Tidy
<1>2. QED
  BY SessionInit, SessionInductive, SocketInit, SocketInductive, <1>1, PTL DEF Spec

-----------------------------------------------------------------------------
(* The tokens while nothing disturbs the sessions.                           *)

LEMMA MineTyped ==
  ASSUME SessionInv, NEW b \in Browsers
  PROVE  /\ Mine(b) \subseteq 0..MaxTokens /\ minted \in Nat
         /\ \A s \in Of(b) : /\ s \in Slots /\ request[s] \in Request /\ request[s].browser = b
                              /\ request[s].new \in 0..MaxTokens
<1>1. \A s \in Of(b) : s \in Slots /\ request[s] \in Request /\ request[s].browser = b
  BY OfRequest DEF Of
<1>2. cookie[b] \in 0..MaxTokens /\ minted \in Nat
  BY TokensAssumption DEF SessionInv, Typed, Tokens
<1>3. \A s \in Of(b) : request[s].new \in 0..MaxTokens
  BY <1>1 DEF Request
<1>4. QED
  BY <1>1, <1>2, <1>3 DEF Mine

\* Nothing of a browser changes that its tokens depend on.
LEMMA OthersOrderly ==
  ASSUME SessionInv, CalmInv, NEW c \in Browsers, Of(c)' = Of(c), cookie'[c] = cookie[c],
         page'[c].user = page[c].user, page'[c].open = page[c].open,
         \A s \in Of(c) : request'[s] = request[s],
         \A t \in Mine(c) : t \in Live' <=> t \in Live
  PROVE  Orderly(c)' /\ Mine(c)' = Mine(c)
<1>1. Mine(c)' = Mine(c)
  BY DEF Mine
<1>2. Orderly(c)
  BY DEF CalmInv
<1>3. Single(c)'
  BY <1>2 DEF Orderly, Single
<1>4. Of(c)' = {} => AtRest(c)'
  BY <1>2 DEF Orderly, AtRest, Mine
<1>5. ASSUME NEW s \in Of(c)'
      PROVE  Stage(request[s])' /\ request'[s].old = cookie'[c]
             /\ (request'[s].kind = "login" => ~page'[c].user)
  <2>1. /\ request'[s] = request[s] /\ Stage(request[s]) /\ request[s].old = cookie[c]
        /\ request[s].kind = "login" => ~page[c].user
    BY <1>2, <1>5 DEF Orderly
  <2>2. request[s].old \in Mine(c) /\ request[s].new \in Mine(c)
    BY <2>1 DEF Mine
  <2>3. (request[s].old \in Live' <=> request[s].old \in Live)
        /\ (request[s].new \in Live' <=> request[s].new \in Live)
    BY <2>2
  <2>4. PICK r : r = request[s]
    OBVIOUS
  <2>5. Stage(r)'
    BY <2>1, <2>3, <2>4 DEF Stage
  <2>6. QED
    BY <2>1, <2>4, <2>5
<1>6. QED
  BY <1>1, <1>3, <1>4, <1>5 DEF Orderly

\* A step that no browser's tokens depend on.
LEMMA Unaffected ==
  ASSUME SessionInv, CalmInv, UNCHANGED <<cookie, minted, reused>>, Live' = Live,
         \A c \in Browsers : /\ Of(c)' = Of(c)
                             /\ page'[c].user = page[c].user /\ page'[c].open = page[c].open
                             /\ \A s \in Of(c) : request'[s] = request[s]
  PROVE  CalmInv'
<1>1. \A c \in Browsers : Orderly(c)' /\ Mine(c)' = Mine(c)
  BY OthersOrderly
<1>2. QED
  BY <1>1 DEF CalmInv

\* A step of the browser b, whose tokens become others.
LEMMA BrowserStep ==
  ASSUME SessionInv, CalmInv, NEW b \in Browsers, reused' = reused, minted' \in Nat, minted' >= minted,
         Orderly(b)',
         \A c \in Browsers \ {b} : /\ Of(c)' = Of(c) /\ cookie'[c] = cookie[c] /\ page'[c] = page[c]
                                   /\ \A s \in Of(c) : request'[s] = request[s],
         \A t \in 0..minted : t \notin Mine(b) => (t \in Live' <=> t \in Live),
         \A t \in Mine(b)' : t \in Mine(b) \/ t = NoToken \/ (t \in Nat /\ t > minted /\ t <= minted'),
         \A t \in Live' : t \in Live \/ t \in Mine(b)',
         \A t \in Mine(b) : t \in Live' => t \in Mine(b)',
         NoToken \notin Live'
  PROVE  CalmInv'
<1>1. \A c \in Browsers : Mine(c) \subseteq 0..minted
  BY MineTyped, TokensAssumption DEF CalmInv
<1>2. ASSUME NEW c \in Browsers \ {b} PROVE Orderly(c)' /\ Mine(c)' = Mine(c)
  <2>1. \A t \in Mine(c) : t \in Live' <=> t \in Live
    <3> TAKE t \in Mine(c)
    <3>1. CASE t \in Mine(b)
      <4>1. t = NoToken
        BY <3>1 DEF CalmInv
      <4>2. QED
        BY <4>1, NoTokenNotLive
    <3>2. CASE t \notin Mine(b)
      BY <1>1, <3>2
    <3>3. QED
      BY <3>1, <3>2
  <2>2. QED
    BY <2>1, OthersOrderly
<1>3. ASSUME NEW c \in Browsers \ {b} PROVE Mine(b)' \cap Mine(c)' \subseteq {NoToken}
  <2> SUFFICES ASSUME NEW t \in Mine(b)', t \in Mine(c) PROVE t = NoToken
    BY <1>2
  <2>1. t \in Nat /\ t <= minted /\ minted \in Nat
    BY <1>1, MineTyped
  <2>2. CASE t \in Mine(b)
    BY <2>2 DEF CalmInv
  <2>3. CASE t \notin Mine(b)
    BY <2>1, <2>3
  <2>4. QED
    BY <2>2, <2>3
<1>4. \A c, d \in Browsers : c # d => Mine(c)' \cap Mine(d)' \subseteq {NoToken}
  <2> TAKE c, d \in Browsers
  <2>1. CASE c # b /\ d # b
    BY <1>2, <2>1 DEF CalmInv
  <2>2. QED
    BY <1>3, <2>1
<1>5. ASSUME NEW c \in Browsers, NEW t \in Mine(c)' PROVE t <= minted'
  <2>1. minted \in Nat /\ NoToken <= minted'
    BY MineTyped DEF NoToken
  <2>2. CASE t \in Mine(c)
    BY <1>1, <2>1, <2>2
  <2>3. CASE t \notin Mine(c)
    BY <1>2, <2>1, <2>3
  <2>4. QED
    BY <2>2, <2>3
<1>6. ASSUME NEW t \in Live' PROVE \E c \in Browsers : t \in Mine(c)'
  <2>1. CASE t \in Mine(b)'
    BY <2>1
  <2>2. CASE t \notin Mine(b)'
    <3>1. PICK c \in Browsers : t \in Mine(c)
      BY <2>2 DEF CalmInv
    <3>2. c # b
      BY <2>2, <3>1
    <3>3. QED
      BY <1>2, <3>1, <3>2
  <2>3. QED
    BY <2>1, <2>2
<1>7. \A c \in Browsers : Orderly(c)'
  BY <1>2
<1>8. ~reused'
  BY DEF CalmInv
<1>9. Live' \subseteq UNION {Mine(c)' : c \in Browsers}
  BY <1>6
<1>10. QED
  BY <1>4, <1>5, <1>7, <1>8, <1>9 DEF CalmInv

\* A request of a browser moves on at the service.
LEMMA RequestStep ==
  ASSUME SessionInv, CalmInv, NEW s \in Slots, NEW r \in Request, request[s] \in Request,
         request' = [request EXCEPT ![s] = r],
         r.kind = request[s].kind, r.browser = request[s].browser, r.old = request[s].old,
         UNCHANGED <<cookie, page, reused>>, minted' \in Nat, minted' >= minted,
         \A t \in 0..minted : t \notin {request[s].old, request[s].new} => (t \in Live' <=> t \in Live),
         r.new \in {request[s].new, NoToken} \/ (r.new > minted /\ r.new <= minted'),
         \A t \in Live' : t \in Live \/ t = r.new,
         request[s].new \in Live' => request[s].new = r.new,
         NoToken \notin Live',
         Stage(request[s]) => Stage(r)'
  PROVE  CalmInv'
<1>1. PICK b \in Browsers : b = request[s].browser
  BY DEF Request
<1>2. s \in Of(b) /\ \A c : c # b => s \notin Of(c)
  BY <1>1, OfRequest
<1>3. request'[s] = r /\ \A u \in Slots : u # s => request'[u] = request[u]
  BY DEF SessionInv, Typed, RequestsTyped
<1>4. \A c : Of(c)' = Of(c)
  <2>1. \A q \in Request : q.pc # "idle" /\ q.kind # "reset"
    BY DEF Request, Labels, Kinds
  <2>2. \A c : s \in Of(c)' <=> s \in Of(c)
    BY <1>3, <2>1 DEF Of
  <2>3. \A c, u : u # s => (u \in Of(c)' <=> u \in Of(c))
    BY <1>3 DEF Of
  <2>4. \A c, u : u \in Of(c)' <=> u \in Of(c)
    BY <2>2, <2>3
  <2>5. \A c : Of(c)' \subseteq Slots /\ Of(c) \subseteq Slots
    BY DEF Of
  <2>6. QED
    BY <2>4, <2>5
<1>5. Orderly(b)
  BY DEF CalmInv
<1>6. Of(b) = {s}
  BY <1>2, <1>5 DEF Orderly, Single
<1>7. Mine(b) = {cookie[b], request[s].new} /\ Mine(b)' = {cookie[b], r.new}
  BY <1>3, <1>4, <1>6 DEF Mine
<1>8. Stage(request[s]) /\ request[s].old = cookie[b] /\ (request[s].kind = "login" => ~page[b].user)
  BY <1>2, <1>5 DEF Orderly
<1>9. Orderly(b)'
  <2>1. Single(b)' /\ Of(b)' # {}
    BY <1>4, <1>6 DEF Single
  <2>2. Stage(r)' /\ r.old = cookie'[b] /\ (r.kind = "login" => ~page'[b].user)
    BY <1>8
  <2>3. \A u \in Of(b)' : request'[u] = r
    BY <1>3, <1>4, <1>6
  <2>4. \A u \in Of(b)' : Stage(request[u])' 
    BY <2>2, <2>3 DEF Stage
  <2>5. QED
    BY <2>1, <2>2, <2>3, <2>4 DEF Orderly
<1>10. \A c \in Browsers \ {b} : /\ Of(c)' = Of(c) /\ cookie'[c] = cookie[c] /\ page'[c] = page[c]
                                 /\ \A u \in Of(c) : request'[u] = request[u]
  BY <1>2, <1>3, <1>4 DEF Of
<1>11. r.new \in Nat
  BY DEF Request
<1>12. QED
  BY <1>7, <1>8, <1>9, <1>10, <1>11, BrowserStep

LEMMA CalmInit == Init => CalmInv
<1> SUFFICES ASSUME Init PROVE CalmInv
  OBVIOUS
<1>1. \A b : Of(b) = {}
  BY DEF Init, Of, Idle
<1>2. PICK a \in Browsers : cookie = [c \in Browsers |-> IF c = a THEN Legacy ELSE NoToken]
  BY DEF Init
<1>3. Live = {Legacy} /\ Legacy = 1 /\ NoToken = 0
  BY TokensAssumption DEF Init, Live, Tokens, Legacy, NoToken
<1>4. \A b \in Browsers : Mine(b) = {cookie[b]}
  BY <1>1 DEF Mine
<1>5. \A b \in Browsers : ~page[b].user /\ ~page[b].open
  BY DEF Init, Blank
<1>6. \A b \in Browsers : Orderly(b)
  BY <1>1, <1>2, <1>3, <1>5 DEF Orderly, Single, AtRest
<1>7. minted = 1 /\ reused = FALSE
  BY DEF Init
<1>8. Live \subseteq UNION {Mine(b) : b \in Browsers}
  BY <1>2, <1>3, <1>4
<1>9. \A b, c \in Browsers : b # c => Mine(b) \cap Mine(c) \subseteq {NoToken}
  BY <1>2, <1>4
<1>10. \A b \in Browsers : \A t \in Mine(b) : t <= minted
  BY <1>2, <1>3, <1>4, <1>7
<1>11. QED
  BY <1>6, <1>7, <1>8, <1>9, <1>10 DEF CalmInv

LEMMA CalmCauses ==
  ASSUME causes \subseteq causes', Calm'
  PROVE  Calm
  BY DEF Calm

\* What a request of a browser is while nothing disturbs it.
LEMMA CalmRequest ==
  ASSUME SessionInv, CalmInv, NEW s \in Slots, request[s] \in Request
  PROVE  /\ request[s].browser \in Browsers /\ Of(request[s].browser) = {s}
         /\ Stage(request[s]) /\ request[s].old = cookie[request[s].browser]
         /\ request[s].kind = "login" => ~page[request[s].browser].user
         /\ request[s].old \in 0..minted /\ request[s].new \in 0..minted /\ minted \in Nat
<1>1. PICK b \in Browsers : b = request[s].browser
  BY DEF Request
<1>2. s \in Of(b) /\ Orderly(b)
  BY <1>1, OfRequest DEF CalmInv
<1>3. Of(b) = {s}
  BY <1>2 DEF Orderly, Single
<1>4. Stage(request[s]) /\ request[s].old = cookie[b] /\ (request[s].kind = "login" => ~page[b].user)
  BY <1>2 DEF Orderly
<1>5. cookie[b] \in Mine(b) /\ request[s].new \in Mine(b)
  BY <1>2 DEF Mine
<1>6. request[s].old \in 0..minted /\ request[s].new \in 0..minted /\ minted \in Nat
  BY <1>4, <1>5, MineTyped, TokensAssumption DEF CalmInv
<1>7. QED
  BY <1>1, <1>3, <1>4, <1>6

LEMMA RevokedLive ==
  ASSUME SessionInv, NEW ts, token' = Revoked(ts)
  PROVE  Live' = Live \ ts
<1>1. \A t \in Live' : t \in Live \ ts
  BY RevokedTokens
<1>2. \A t \in Live \ ts : t \in Live'
  BY DEF Revoked, Live
<1>3. QED
  BY <1>1, <1>2

\* A request goes on by its label alone.
LEMMA Advanced ==
  ASSUME SessionInv, NEW s \in Slots, NEW label \in Labels, Goto(s, label), request[s] \in Request
  PROVE  \E r \in Request :
           /\ request' = [request EXCEPT ![s] = r] /\ r.pc = label
           /\ r.kind = request[s].kind /\ r.browser = request[s].browser
           /\ r.old = request[s].old /\ r.new = request[s].new /\ r.heard = request[s].heard
<1> DEFINE r == [request[s] EXCEPT !.pc = label]
<1>1. request' = [request EXCEPT ![s] = r]
  BY DEF Goto, SessionInv, Typed, RequestsTyped
<1>2. r \in Request
  BY DEF Request
<1>3. QED
  BY <1>1, <1>2 DEF Request

\* The steps that leave the table of tokens as it is.
LEMMA CalmReads ==
  ASSUME SessionInv, CalmInv, NEW s \in Slots, ReadUser(s) \/ ReadToken(s)
  PROVE  CalmInv'
<1>1. UNCHANGED <<cookie, page, reused, minted>> /\ Live' = Live
  BY DEF ReadUser, ReadToken, database, Live
<1>2. PICK r \in Request :
        /\ request[s] \in Request /\ request' = [request EXCEPT ![s] = r]
        /\ r.kind = request[s].kind /\ r.browser = request[s].browser
        /\ r.old = request[s].old /\ r.new = request[s].new /\ r.heard = request[s].heard
        /\ request[s].pc = "read" /\ request[s].kind # "logout"
        /\ IF r.kind = "login" THEN r.pc \in {"create", "refused"} ELSE r.pc = AfterLookup(r.old)
  <2>1. CASE ReadUser(s)
    <3>1. request[s] \in Request /\ request[s].pc = "read" /\ request[s].kind = "login"
      BY <2>1, Labelled DEF ReadUser, At, Requests, Reset, Idle
    <3>2. \E label \in {"create", "refused"} : Goto(s, label)
      BY <2>1 DEF ReadUser
    <3>3. PICK label \in {"create", "refused"} : Goto(s, label)
      BY <3>2
    <3>4. label \in Labels
      BY DEF Labels
    <3>5. QED
      BY <3>1, <3>3, <3>4, Advanced
  <2>2. CASE ReadToken(s)
    BY <2>2, ReadTokenRecord DEF ReadRecord, Refreshes
  <2>3. QED
    BY <2>1, <2>2
<1>3. Stage(request[s]) /\ minted \in Nat
  BY <1>2, CalmRequest
<1>4. Stage(r)
  <2>1. /\ r.heard /\ r.new = NoToken /\ r.kind \in {"login", "mount", "retry"}
        /\ r.kind = "login" => r.old = NoToken
        /\ r.kind = "retry" => r.old \in Live
        /\ r.kind = "mount" => r.old \in Live \union {NoToken}
    BY <1>2, <1>3 DEF Stage, Request, Kinds
  <2>2. CASE r.kind = "login"
    BY <1>2, <2>1, <2>2 DEF Stage, Refreshes
  <2>3. CASE r.kind # "login"
    <3>1. r.pc = AfterLookup(r.old) /\ r.old \in 0..MaxTokens
      BY <1>2, <2>3 DEF Request
    <3>2. /\ r.pc \in {"refused", "revokeOld", "create", "cascade"}
          /\ r.pc = "create" => r.old \in Live /\ r.old # Legacy
          /\ r.pc = "revokeOld" => r.old \in Live /\ r.old = Legacy
          /\ r.old \in Live => r.pc \in {"revokeOld", "create"}
          /\ r.old = NoToken => r.pc = "refused"
      BY <3>1, LookupLabels
    <3>3. NoToken \notin Live
      BY NoTokenNotLive
    <3>4. QED
      BY <2>1, <2>3, <3>2, <3>3 DEF Stage, Refreshes
  <2>4. QED
    BY <2>2, <2>3
<1>5. Stage(r)'
  BY <1>1, <1>4 DEF Stage
<1>6. NoToken \notin Live'
  BY <1>1, NoTokenNotLive
<1>7. /\ UNCHANGED <<cookie, page, reused>> /\ minted' \in Nat /\ minted' >= minted
      /\ \A t : t \in Live' <=> t \in Live
  BY <1>1, <1>3
<1>8. QED
  BY <1>2, <1>5, <1>6, <1>7, RequestStep

\* A new token is live before the old one is revoked.
LEMMA CalmCreates ==
  ASSUME SessionInv, CalmInv, NEW s \in Slots, CreateToken(s)
  PROVE  CalmInv'
<1>1. PICK r \in Request, x \in Token :
        /\ request[s] \in Request /\ minted' = minted + 1
        /\ request' = [request EXCEPT ![s] = r] /\ token' = [token EXCEPT ![minted + 1] = x]
        /\ CreateRecord(request[s], r, x)
  BY CreateTokenRecord
<1>2. UNCHANGED <<cookie, page, reused>>
  BY DEF CreateToken
<1>3. Live' = Live \union {minted + 1}
  BY <1>1 DEF CreateRecord, Live, SessionInv, Typed
<1>4. /\ Stage(request[s]) /\ request[s].old \in 0..minted /\ minted \in Nat
  BY <1>1, CalmRequest
<1>5. /\ r.new = minted + 1 /\ r.new # r.old /\ r.new # request[s].new /\ r.heard
      /\ r.kind = request[s].kind /\ r.browser = request[s].browser /\ r.old = request[s].old
      /\ request[s].pc = "create" /\ request[s].new = NoToken
      /\ r.pc = IF r.kind = "login" \/ r.old = Legacy THEN "reply" ELSE "revokeOld"
      /\ r.kind \in {"login"} \union Refreshes
  BY <1>1, <1>4 DEF CreateRecord, Stage, NoToken
<1>6. Stage(r)'
  <2>1. /\ r.kind = "login" => r.old = NoToken
        /\ r.kind \in Refreshes => r.old # NoToken /\ (r.old \in Live <=> r.old # Legacy)
    BY <1>4, <1>5 DEF Stage
  <2>2. (r.old \in Live' <=> r.old \in Live) /\ r.new \in Live'
    BY <1>3, <1>5
  <2>3. NoToken \notin Live
    BY NoTokenNotLive
  <2>4. QED
    BY <1>5, <2>1, <2>2, <2>3 DEF Stage, Refreshes
<1>7. NoToken \notin Live'
  BY <1>3, <1>4, NoTokenNotLive DEF NoToken
<1>8. \A t \in 0..minted : t \in Live' <=> t \in Live
  BY <1>3, <1>4
<1>9. request[s].new \notin Live'
  BY <1>5, <1>7
<1>10. /\ minted' \in Nat /\ minted' >= minted /\ r.new > minted /\ r.new <= minted'
  BY <1>1, <1>4, <1>5
<1>11. \A t \in Live' : t \in Live \/ t = r.new
  BY <1>3, <1>5
<1>12. QED
  BY <1>1, <1>2, <1>5, <1>6, <1>7, <1>8, <1>9, <1>10, <1>11, RequestStep

\* The token that was presented is revoked.
LEMMA CalmRevokes ==
  ASSUME SessionInv, CalmInv, NEW s \in Slots, RevokeOld(s) \/ RevokeCookie(s)
  PROVE  CalmInv'
<1>1. request[s] \in Request /\ UNCHANGED <<cookie, page, reused, minted>>
  BY Labelled DEF RevokeOld, RevokeCookie, At, Refreshes, Requests, Reset, Idle
<1>2. Stage(request[s]) /\ minted \in Nat
  BY <1>1, CalmRequest
<1>3. PICK label \in {"create", "reply"} :
        /\ Goto(s, label)
        /\ \/ request[s].kind \in Refreshes /\ request[s].pc = "revokeOld"
                /\ (label = "create" <=> request[s].old = Legacy)
           \/ request[s].kind = "logout" /\ request[s].pc = "read" /\ label = "reply"
  BY DEF RevokeOld, RevokeCookie, At
<1>4. label \in Labels
  BY DEF Labels
<1>5. PICK r \in Request :
        /\ request' = [request EXCEPT ![s] = r] /\ r.pc = label
        /\ r.kind = request[s].kind /\ r.browser = request[s].browser
        /\ r.old = request[s].old /\ r.new = request[s].new /\ r.heard = request[s].heard
  BY <1>1, <1>3, <1>4, Advanced
<1>6. Live' = Live \ {r.old}
  <2>1. NoToken \notin Live
    BY NoTokenNotLive
  <2>2. CASE RevokeOld(s)
    BY <1>5, <2>2, RevokedLive DEF RevokeOld
  <2>3. CASE RevokeCookie(s)
    <3>1. Live' = Live \ ({request[s].old} \ {NoToken})
      BY <2>3, RevokedLive DEF RevokeCookie
    <3>2. QED
      BY <1>5, <2>1, <3>1
  <2>4. QED
    BY <2>2, <2>3
<1>7. Stage(r)'
  <2>1. CASE r.kind = "logout"
    <3>1. r.heard /\ r.new = NoToken /\ r.pc = "reply"
      BY <1>2, <1>3, <1>5, <2>1 DEF Stage, Refreshes
    <3>2. QED
      BY <1>6, <2>1, <3>1 DEF Stage, Refreshes
  <2>2. CASE r.kind \in Refreshes
    <3>1. /\ r.heard /\ r.old \in Live /\ r.new # r.old
          /\ IF r.old = Legacy THEN r.new = NoToken ELSE r.new \in Live
          /\ r.pc = IF r.old = Legacy THEN "create" ELSE "reply"
      BY <1>2, <1>3, <1>5, <2>2 DEF Stage, Refreshes
    <3>2. r.old # NoToken
      BY <3>1, NoTokenNotLive
    <3>3. QED
      BY <1>6, <2>2, <3>1, <3>2 DEF Stage, Refreshes
  <2>3. QED
    BY <1>3, <1>5, <2>1, <2>2
<1>8. NoToken \notin Live'
  BY <1>6, NoTokenNotLive
<1>9. /\ UNCHANGED <<cookie, page, reused>> /\ minted' \in Nat /\ minted' >= minted
      /\ \A t : t # request[s].old => (t \in Live' <=> t \in Live)
      /\ \A t \in Live' : t \in Live
  BY <1>1, <1>2, <1>5, <1>6
<1>10. QED
  BY <1>1, <1>5, <1>7, <1>8, <1>9, RequestStep

\* A reset goes on, begins or ends: no browser waits for it.
LEMMA CalmResets ==
  ASSUME SessionInv, CalmInv, NEW s \in Slots,
         \/ FindLink(s) \/ MarkUsed(s) \/ SetPassword(s) \/ \E l \in Links : SubmitReset(s, l)
         \/ (Answer(s) \/ Refuse(s)) /\ request[s] \notin Request
  PROVE  CalmInv'
<1>1. /\ UNCHANGED <<cookie, minted, reused, token, page>>
      /\ \A u \in Slots : u # s => request'[u] = request[u]
  <2>1. (Answer(s) \/ Refuse(s)) /\ request[s] \notin Request => request[s] \in Reset
    BY Labelled DEF Requests, Answer, Refuse, Idle
  <2>2. (Answer(s) \/ Refuse(s)) /\ request[s] \notin Request => ~request[s].heard
    BY <2>1 DEF Reset
  <2>3. UNCHANGED <<cookie, minted, reused, token, page>>
    BY <2>2 DEF FindLink, MarkUsed, SetPassword, SubmitReset, Answer, Refuse, database
  <2>4. \A u \in Slots : u # s => request'[u] = request[u]
    BY DEF FindLink, MarkUsed, SetPassword, SubmitReset, Answer, Refuse, Goto, Finish, SessionInv, Typed,
           RequestsTyped
  <2>5. QED
    BY <2>3, <2>4
<1>2. request[s] \notin Request
  BY DEF FindLink, MarkUsed, SetPassword, SubmitReset, At, Request, Kinds, Labels
<1>3. request'[s].pc = "idle" \/ request'[s].kind = "reset"
  <2>1. CASE FindLink(s) \/ MarkUsed(s) \/ SetPassword(s)
    <3>1. Service(s) /\ request[s].kind = "reset"
      BY <2>1 DEF Service, FindLink, MarkUsed, SetPassword, At
    <3>2. Kept(s)
      BY <3>1, ServiceKeeps
    <3>3. QED
      BY <3>1, <3>2 DEF Kept
  <2>2. CASE \E l \in Links : SubmitReset(s, l)
    BY <2>2 DEF SubmitReset, SessionInv, Typed, RequestsTyped
  <2>3. CASE Answer(s) \/ Refuse(s)
    BY <2>3 DEF Answer, Refuse, Finish, Idle, SessionInv, Typed, RequestsTyped
  <2>4. QED
    BY <2>1, <2>2, <2>3
<1>4. \A c : s \notin Of(c) /\ s \notin Of(c)'
  BY <1>2, <1>3, OfRequest DEF Of
<1>5. \A c : Of(c)' = Of(c) /\ \A u \in Of(c) : request'[u] = request[u]
  BY <1>1, <1>4 DEF Of
<1>6. Live' = Live
  BY <1>1 DEF Live
<1>7. QED
  BY <1>1, <1>5, <1>6, Unaffected

\* A request of a browser is answered, or refused: its tokens are the cookie it is left with.
LEMMA CalmReplied ==
  ASSUME SessionInv, CalmInv, NEW s \in Slots, request[s] \in Request, NEW b, b = request[s].browser,
         NEW p, page' = [page EXCEPT ![b] = p], page \in [Browsers -> Page], Finish(s),
         NEW t, cookie' = [cookie EXCEPT ![b] = t], t \in {request[s].old, request[s].new, NoToken},
         UNCHANGED <<token, minted, reused>>,
         request[s].old \in Live => request[s].old = t,
         request[s].new \in Live => request[s].new = t,
         t \in Live \union {NoToken}, p.user => t \in Live, p.open /\ ~p.user => t = NoToken
  PROVE  CalmInv'
<1>1. /\ b \in Browsers /\ Of(b) = {s} /\ Stage(request[s]) /\ request[s].old = cookie[b]
      /\ minted \in Nat
  BY CalmRequest
<1>2. request'[s] = Idle /\ \A u \in Slots : u # s => request'[u] = request[u]
  BY DEF Finish, SessionInv, Typed, RequestsTyped
<1>3. \A u : u \in Of(b)' => u \in Of(b) /\ u # s
  BY <1>2 DEF Of, Idle
<1>4. Of(b)' = {}
  BY <1>1, <1>3
<1>5. \A c : c # b => s \notin Of(c)
  BY OfRequest
<1>6. \A c : c # b => s \notin Of(c)'
  BY <1>2 DEF Of, Idle
<1>7. \A c : c # b => Of(c)' = Of(c) /\ \A u \in Of(c) : request'[u] = request[u]
  BY <1>2, <1>5, <1>6 DEF Of
<1>8. cookie'[b] = t /\ page'[b] = p
      /\ \A c \in Browsers : c # b => cookie'[c] = cookie[c] /\ page'[c] = page[c]
  BY <1>1 DEF SessionInv, Typed
<1>9. Mine(b) = {request[s].old, request[s].new} /\ Mine(b)' = {t}
  BY <1>1, <1>4, <1>8 DEF Mine
<1>10. Live' = Live
  BY DEF Live
<1>11. Orderly(b)'
  BY <1>4, <1>8, <1>10 DEF Orderly, Single, AtRest
<1>12. NoToken \notin Live'
  BY <1>10, NoTokenNotLive
<1>13. minted' \in Nat /\ minted' >= minted
  BY <1>1
<1>14. /\ \A u \in Mine(b)' : u \in Mine(b) \/ u = NoToken
       /\ \A u \in Mine(b) : u \in Live' => u \in Mine(b)'
  BY <1>9, <1>10
<1>15. QED
  BY <1>1, <1>7, <1>8, <1>10, <1>11, <1>12, <1>13, <1>14, BrowserStep

LEMMA CalmAnswers ==
  ASSUME SessionInv, SocketInv, CalmInv, NEW s \in Slots, Answer(s) \/ Refuse(s), request[s] \in Request
  PROVE  CalmInv'
<1> DEFINE r == request[s]
           b == r.browser
           p == page[b]
<1>1. /\ b \in Browsers /\ Of(b) = {s} /\ Stage(r) /\ r.old = cookie[b]
      /\ r.kind = "login" => ~page[b].user
  BY CalmRequest
<1>2. r.heard /\ PageOK(p) /\ r.kind \in Kinds /\ page \in [Browsers -> Page]
  BY <1>1 DEF Stage, SocketInv, Request
<1>3. /\ PageOK(Connected(p)) /\ Connected(p).user
      /\ PageOK(SignedOut(p)) /\ ~SignedOut(p).user
  BY <1>2, PageOperators
<1>4. UNCHANGED <<token, minted, reused>> /\ Finish(s)
  BY DEF Answer, Refuse, database
<1>5. NoToken \notin Live
  BY NoTokenNotLive
<1>6. CASE Answer(s)
  <2>1. /\ page' = [page EXCEPT ![b] = Succeeded(p, r.kind)] /\ cookie' = [cookie EXCEPT ![b] = r.new]
        /\ r.pc = "reply"
    BY <1>1, <1>2, <1>6 DEF Answer, SessionInv, Typed
  <2>2. r.old \notin Live /\ (r.kind # "logout" => r.new \in Live) /\ (r.kind = "logout" => r.new = NoToken)
    BY <1>1, <2>1 DEF Stage
  <2>3. CASE r.kind = "logout"
    <3>1. Succeeded(p, r.kind) = SignedOut(p)
      BY <2>3 DEF Succeeded, Refreshes
    <3>2. QED
      BY <1>2, <1>3, <1>4, <2>1, <2>2, <2>3, <3>1, CalmReplied
  <2>4. CASE r.kind # "logout"
    <3>1. Succeeded(p, r.kind) = Connected(p)
      BY <1>2, <2>4 DEF Succeeded, Refreshes, Kinds
    <3>2. QED
      BY <1>2, <1>3, <1>4, <2>1, <2>2, <2>4, <3>1, CalmReplied
  <2>5. QED
    BY <2>3, <2>4
<1>7. CASE Refuse(s)
  <2>1. /\ page' = [page EXCEPT ![b] = Failed(p, r.kind)] /\ cookie' = cookie
        /\ r.pc = "refused"
    BY <1>1, <1>2, <1>7 DEF Refuse
  <2>2. r.old = NoToken /\ r.new = NoToken /\ r.kind \in {"login", "mount"}
    BY <1>1, <2>1 DEF Stage
  <2>3. ~Failed(p, r.kind).user
    <3>1. CASE r.kind = "login"
      BY <1>1, <3>1 DEF Failed
    <3>2. CASE r.kind = "mount"
      <4>1. Failed(p, r.kind) = [p EXCEPT !.user = FALSE]
        BY <3>2 DEF Failed
      <4>2. QED
        BY <1>2, <4>1 DEF PageOK, Page
    <3>3. QED
      BY <2>2, <3>1, <3>2
  <2>4. cookie' = [cookie EXCEPT ![b] = NoToken]
    BY <1>1, <2>1, <2>2 DEF SessionInv, Typed
  <2>5. QED
    BY <1>2, <1>4, <1>5, <2>1, <2>2, <2>3, <2>4, CalmReplied
<1>8. QED
  BY <1>6, <1>7

\* A browser at rest sends a request.
LEMMA CalmSent ==
  ASSUME SessionInv, CalmInv, NEW s \in Slots, NEW b \in Browsers, NEW kind \in Kinds, Of(b) = {},
         request'[s] = Fresh(kind, b, cookie[b]), Of(b)' = {s},
         \A c \in Browsers : c # b => Of(c)' = Of(c) /\ page'[c] = page[c]
                                      /\ \A u \in Of(c) : request'[u] = request[u],
         UNCHANGED <<token, minted, reused, cookie>>,
         kind \in {"retry", "logout"} => page[b].user,
         kind = "login" => page[b].open /\ ~page[b].user /\ ~page'[b].user
  PROVE  CalmInv'
<1>1. Orderly(b) /\ minted \in Nat
  BY MineTyped DEF CalmInv
<1>2. AtRest(b)
  BY <1>1 DEF Orderly
<1>3. /\ request'[s].pc = "read" /\ request'[s].kind = kind /\ request'[s].old = cookie[b]
      /\ request'[s].new = NoToken /\ request'[s].heard = TRUE
  BY DEF Fresh
<1>4. Live' = Live /\ NoToken \notin Live
  BY NoTokenNotLive DEF Live
<1>5. Mine(b) = {cookie[b]} /\ Mine(b)' = {cookie[b], NoToken}
  BY <1>3 DEF Mine
<1>6. Stage(request[s])'
  BY <1>2, <1>3, <1>4 DEF Stage, AtRest, Kinds, Refreshes
<1>7. Orderly(b)'
  BY <1>3, <1>6 DEF Orderly, Single
<1>8. minted' \in Nat /\ minted' >= minted /\ reused' = reused
  BY <1>1
<1>9. QED
  BY <1>4, <1>5, <1>7, <1>8, BrowserStep

LEMMA CalmPages ==
  ASSUME SessionInv, CalmInv, Calm', NEW s \in Slots, NEW b \in Browsers,
         SubmitLogin(s, b) \/ OpenPage(s, b) \/ Unauthorized(s, b) \/ ClickLogout(s, b)
  PROVE  CalmInv'
<1>1. UNCHANGED <<token, minted, reused, cookie>>
  BY DEF SubmitLogin, OpenPage, Unauthorized, ClickLogout, database
<1>2. "overlap" \notin causes'
  BY DEF Calm
<1>3. CASE OpenPage(s, b)
  <2>1. Of(b) = {} /\ request'[s] = Fresh("mount", b, cookie[b])
    BY <1>2, <1>3, Opening
  <2>2. Of(b)' = {s}
    BY <1>3, <2>1, Opening
  <2>3. \A c \in Browsers : c # b => page'[c] = page[c]
    BY <1>3 DEF OpenPage
  <2>4. ASSUME NEW c \in Browsers, c # b
        PROVE  Of(c)' = Of(c) /\ page'[c] = page[c] /\ \A u \in Of(c) : request'[u] = request[u]
    <3>1. \A u : u \in Of(c)' <=> u \in Of(c)
      BY <1>3, <2>4, Opening
    <3>2. Of(c)' = Of(c)
      BY <3>1
    <3>3. \A u \in Of(c) : request'[u] = request[u]
      BY <1>3, <2>4, <3>1, Opening
    <3>4. page'[c] = page[c]
      BY <2>4, <2>3
    <3>5. QED
      BY <3>2, <3>3, <3>4
  <2>5. "mount" \in Kinds
    BY DEF Kinds
  <2>6. QED
    BY <1>1, <2>1, <2>2, <2>4, <2>5, CalmSent
<1>4. CASE SubmitLogin(s, b) \/ Unauthorized(s, b) \/ ClickLogout(s, b)
  <2>1. PICK kind \in Kinds :
          /\ Send(s, b, kind, request) /\ page' = page
          /\ kind \in {"retry", "logout"} => page[b].user
          /\ kind = "login" => page[b].open /\ ~page[b].user
          /\ kind # "mount"
    BY <1>4 DEF SubmitLogin, Unauthorized, ClickLogout, Kinds
  <2>2. Of(b) = {} /\ request'[s] = Fresh(kind, b, cookie[b])
    BY <1>2, <2>1, Sending
  <2>3. Of(b)' = {s}
    BY <2>1, <2>2, Sending
  <2>4. ASSUME NEW c \in Browsers, c # b
        PROVE  Of(c)' = Of(c) /\ page'[c] = page[c] /\ \A u \in Of(c) : request'[u] = request[u]
    <3>1. Of(c)' = Of(c) /\ s \notin Of(c)
      BY <2>1, <2>4, Sending
    <3>2. \A u \in Of(c) : request'[u] = request[u]
      BY <2>1, <3>1, Sending DEF Of
    <3>3. QED
      BY <2>1, <3>1, <3>2
  <2>5. QED
    BY <1>1, <2>1, <2>2, <2>3, <2>4, CalmSent
<1>5. QED
  BY <1>3, <1>4

LEMMA CalmInductive ==
  ASSUME SessionInv, SocketInv, Calm => CalmInv, [Next]_vars, Calm'
  PROVE  CalmInv'
<1>1. ASSUME UNCHANGED <<cookie, minted, reused, token, request>>, causes' = causes,
             \A c \in Browsers : page'[c].user = page[c].user /\ page'[c].open = page[c].open
      PROVE  CalmInv'
  <2>1. CalmInv /\ Live' = Live /\ \A c : Of(c)' = Of(c)
    BY <1>1 DEF Calm, Live, Of
  <2>2. QED
    BY <1>1, <2>1, Unaffected
<1>2. CASE UNCHANGED vars \/ \E l \in Links : ForgotPassword(l)
  BY <1>1, <1>2 DEF vars, database, ForgotPassword
<1>3. ASSUME NEW b \in Browsers, SocketConnects(b) \/ SocketDrops(b) PROVE CalmInv'
  <2>1. \E ready \in BOOLEAN : page' = [page EXCEPT ![b].ready = ready]
    BY <1>3 DEF SocketConnects, SocketDrops
  <2>2. PICK ready \in BOOLEAN : page' = [page EXCEPT ![b].ready = ready]
    BY <2>1
  <2>3. ASSUME NEW c \in Browsers PROVE page'[c].user = page[c].user /\ page'[c].open = page[c].open
    <3>1. page[c] \in Page
      BY DEF SocketInv
    <3>2. page'[c] = IF c = b THEN [page[c] EXCEPT !.ready = ready] ELSE page[c]
      BY <2>2 DEF SocketInv
    <3>3. QED
      BY <3>1, <3>2 DEF Page
  <2>4. UNCHANGED <<cookie, minted, reused, token, request>> /\ causes' = causes
    BY <1>3 DEF SocketConnects, SocketDrops, database
  <2>5. QED
    BY <1>1, <2>3, <2>4
<1>4. ASSUME NEW s \in Slots, Service(s) PROVE CalmInv'
  <2>1. CalmInv
    BY <1>4, ServiceKeeps, CalmCauses
  <2>2. ~QueryFails(s) /\ ~RevokeAll(s)
    BY DEF QueryFails, RevokeAll, Calm
  <2>3. ~Cascade(s)
    <3>1. SUFFICES ASSUME Cascade(s) PROVE FALSE
      OBVIOUS
    <3>2. request[s] \in Request /\ request[s].pc = "cascade" /\ request[s].kind \in Refreshes
      BY <3>1, Labelled DEF Cascade, At, Refreshes, Requests, Reset, Idle
    <3>3. QED
      BY <2>1, <3>2, CalmRequest DEF Stage
  <2>4. QED
    BY <1>4, <2>1, <2>2, <2>3, CalmReads, CalmCreates, CalmRevokes, CalmResets DEF Service
<1>5. ASSUME NEW s \in Slots, NEW l \in Links, SubmitReset(s, l) PROVE CalmInv'
  <2>1. CalmInv
    BY <1>5 DEF SubmitReset, Calm
  <2>2. QED
    BY <1>5, <2>1, CalmResets
<1>6. ASSUME NEW s \in Slots, NEW b \in Browsers,
             SubmitLogin(s, b) \/ OpenPage(s, b) \/ Unauthorized(s, b) \/ ClickLogout(s, b)
      PROVE  CalmInv'
  <2>1. causes \subseteq causes'
    BY <1>6 DEF SubmitLogin, OpenPage, Unauthorized, ClickLogout, Send
  <2>2. QED
    BY <1>6, <2>1, CalmCauses, CalmPages
<1>7. ASSUME NEW s \in Slots, Answer(s) \/ Refuse(s) \/ LoseReply(s) PROVE CalmInv'
  <2>1. causes \subseteq causes' /\ ~LoseReply(s)
    BY <1>7 DEF Answer, Refuse, LoseReply, Calm
  <2>2. CalmInv
    BY <2>1, CalmCauses
  <2>3. QED
    BY <1>7, <2>1, <2>2, CalmAnswers, CalmResets
<1>8. QED
  BY <1>2, <1>3, <1>4, <1>5, <1>6, <1>7 DEF Next

LEMMA OwnInit == Init => OwnInv
  BY SessionInit, SocketInit, CalmInit DEF OwnInv

LEMMA OwnInductive == OwnInv /\ [Next]_vars => OwnInv'
  BY SessionInductive, SocketInductive, CalmInductive DEF OwnInv

\* In any number of browsers with requests, resets and links in any order: as long as no browser
\* has two requests at a time and nothing is lost, rejected or reset, a page that is signed in
\* has a live token, and the live tokens are the cookies (rotation in refresh, revocation in
\* logout, and what the thunks of auth.slice take a reply for).
THEOREM CookiesAreSessions == Spec => []SessionsMatchCookies
<1>1. OwnInv => SessionsMatchCookies
  <2> SUFFICES ASSUME OwnInv, Calm PROVE
          /\ \A b \in Browsers : page[b].user /\ Quiet(b) => cookie[b] \in Live
          /\ (\A b \in Browsers : Quiet(b)) => Live \subseteq {cookie[b] : b \in Browsers}
    BY DEF SessionsMatchCookies, Calm
  <2>1. \A b \in Browsers : Quiet(b) => AtRest(b) /\ Mine(b) = {cookie[b]}
    BY DEF OwnInv, CalmInv, Orderly, Quiet, Mine
  <2>2. \A b \in Browsers : page[b].user /\ Quiet(b) => cookie[b] \in Live
    BY <2>1 DEF AtRest
  <2>3. (\A b \in Browsers : Quiet(b)) => Live \subseteq {cookie[b] : b \in Browsers}
    BY <2>1 DEF OwnInv, CalmInv
  <2>4. QED
    BY <2>2, <2>3
<1>2. QED
  BY OwnInit, OwnInductive, <1>1, PTL DEF Spec

\* The service never takes a token for a stolen one unless requests of one browser overlapped,
\* a reply was lost, a query was rejected or a password was reset.
THEOREM ReuseIsCaused == Spec => []ReuseHasACause
<1>1. OwnInv => ReuseHasACause
  <2>1. causes \subseteq Causes /\ causes \cap {"overlap", "lost", "failed", "reset"} = {} => Calm
    BY DEF Causes, Calm
  <2>2. QED
    BY <2>1 DEF OwnInv, SocketInv, CalmInv, ReuseHasACause
<1>2. QED
  BY OwnInit, OwnInductive, <1>1, PTL DEF Spec
=============================================================================
