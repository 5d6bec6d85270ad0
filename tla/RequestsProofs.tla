--------------------------- MODULE RequestsProofs ---------------------------
(***************************************************************************)
(* What holds of the session proxy for every set of requests, every life   *)
(* of a token and every latency, and of the status stream for every set of *)
(* documents and streams and any number of polls.                          *)
(***************************************************************************)
EXTENDS MCRequests, Sequences, TLAPS

-----------------------------------------------------------------------------
(* SessionProxy. *)

\* The clock promise: a token is not used in its last moments, however long both legs
\* took.
OnTheWay ==
    /\ freshUntil <= cached.exp + MaxLatency
    /\ \A r \in Fetches :
          /\ leg[r] \in {"granted", "send", "sent"} => now <= since[r] + MaxLatency
          /\ leg[r] = "granted" => since[r] + TTL <= token[r].exp
          /\ leg[r] \in {"send", "sent"} => since[r] + MaxLatency < token[r].exp

\* What a rejection means: the token is good in time, so the credential or the key
\* is gone, for good.
Rejected ==
    /\ cached.key <= key
    /\ \A r \in Fetches :
          /\ token[r].key <= key
          /\ leg[r] = "rejected" => revoked \/ token[r].key < key

\* The second round is made with a token signed by the last key.
SecondRound ==
    \A r \in retried :
        revoked \/ /\ key = 1
                   /\ leg[r] \in {"granted", "send", "sent"} => token[r].key = 1
                   /\ leg[r] # "rejected"

ProxyInv == Proxy!TypeOK /\ OnTheWay /\ Rejected

LEMMA ProxyTypesInitial ==
    ASSUME Proxy!Init
    PROVE  Proxy!TypeOK
<1>. USE ProxyTimeAssumption, ProxyRequestsAssumption
     DEF Proxy!TimeAssumption, Proxy!RequestsAssumption, Proxy!Init, Proxy!NoToken
<1>1. Proxy!NoToken \in Proxy!Tokens
  BY DEF Proxy!Tokens
<1>2. revoked \in BOOLEAN /\ loggedIn \in BOOLEAN
  BY Zenon
<1>. QED
  BY <1>1, <1>2 DEF Proxy!TypeOK, Proxy!Labels, Proxy!Answers

LEMMA ProxyTypesKept ==
    ASSUME Proxy!TypeOK, [Proxy!Next]_(Proxy!vars)
    PROVE  Proxy!TypeOK'
<1>. USE ProxyTimeAssumption, ProxyRequestsAssumption
     DEF Proxy!TimeAssumption, Proxy!RequestsAssumption, Proxy!TypeOK, Proxy!Labels, Proxy!Answers,
         Proxy!apiVars, Proxy!sessionVars, Proxy!requestVars
<1>1. CASE Proxy!Tick
  BY <1>1 DEF Proxy!Tick
<1>2. CASE Proxy!Revoke \/ Proxy!Rotate \/ Proxy!Logout
  <2>1. revoked' \in BOOLEAN /\ loggedIn' \in BOOLEAN
    BY <1>2, Zenon DEF Proxy!Revoke, Proxy!Rotate, Proxy!Logout
  <2>2. key' \in 0..MaxRotations
    BY <1>2 DEF Proxy!Revoke, Proxy!Rotate, Proxy!Logout
  <2>3. UNCHANGED <<now, cached, freshUntil, leg, retried, token, since, answer, executed>>
    BY <1>2 DEF Proxy!Revoke, Proxy!Rotate, Proxy!Logout
  <2>. QED
    BY <2>1, <2>2, <2>3
<1>3. ASSUME NEW r \in Fetches, Proxy!FindSession(r) PROVE Proxy!TypeOK'
  BY <1>3 DEF Proxy!FindSession, Proxy!Goto, Proxy!Finish
<1>4. ASSUME NEW r \in Fetches, Proxy!TakeToken(r) PROVE Proxy!TypeOK'
  BY <1>4 DEF Proxy!TakeToken, Proxy!Goto
<1>5. ASSUME NEW r \in Fetches, Proxy!Grant(r) PROVE Proxy!TypeOK'
  <2>1. [exp |-> now + TTL, key |-> key] \in Proxy!Tokens
    BY DEF Proxy!Tokens
  <2>. QED
    BY <1>5, <2>1 DEF Proxy!Grant, Proxy!Goto
<1>6. ASSUME NEW r \in Fetches, Proxy!Refuse(r) PROVE Proxy!TypeOK'
  BY <1>6 DEF Proxy!Refuse, Proxy!Finish, Proxy!Goto
<1>7. ASSUME NEW r \in Fetches, Proxy!StoreToken(r) PROVE Proxy!TypeOK'
  BY <1>7 DEF Proxy!StoreToken, Proxy!Goto
<1>8. ASSUME NEW r \in Fetches, Proxy!Send(r) PROVE Proxy!TypeOK'
  BY <1>8 DEF Proxy!Send, Proxy!Finish, Proxy!Goto
<1>9. ASSUME NEW r \in Fetches, Proxy!Serve(r) \/ Proxy!PassOn(r) PROVE Proxy!TypeOK'
  BY <1>9 DEF Proxy!Serve, Proxy!PassOn, Proxy!Finish, Proxy!Goto
<1>10. ASSUME NEW r \in Fetches, Proxy!Retry(r) PROVE Proxy!TypeOK'
  BY <1>10 DEF Proxy!Retry, Proxy!Finish, Proxy!Goto
<1>11. ASSUME NEW r \in Fetches, Proxy!NetworkFails(r) PROVE Proxy!TypeOK'
  BY <1>11 DEF Proxy!NetworkFails, Proxy!Finish, Proxy!Goto
<1>12. CASE UNCHANGED Proxy!vars
  BY <1>12 DEF Proxy!vars
<1>. QED
  BY <1>1, <1>2, <1>3, <1>4, <1>5, <1>6, <1>7, <1>8, <1>9, <1>10, <1>11, <1>12
  DEF Proxy!Next, Proxy!Round

LEMMA OnTheWayKept ==
    ASSUME Proxy!TypeOK, OnTheWay, 2 * MaxLatency <= Margin, Margin < TTL, [Proxy!Next]_(Proxy!vars)
    PROVE  OnTheWay'
<1>. USE ProxyTimeAssumption
     DEF Proxy!TimeAssumption, Proxy!apiVars, Proxy!sessionVars, Proxy!requestVars, Proxy!Goto,
         Proxy!Finish, Proxy!Tokens
<1>0. /\ now \in Nat /\ freshUntil \in Nat /\ cached.exp \in Nat
      /\ \A r \in Fetches : since[r] \in Nat /\ token[r].exp \in Nat
      /\ DOMAIN leg = Fetches /\ DOMAIN since = Fetches /\ DOMAIN token = Fetches
  BY DEF Proxy!TypeOK
<1>1. CASE Proxy!Tick
  BY <1>0, <1>1 DEF Proxy!Tick, OnTheWay
<1>2. CASE Proxy!Revoke \/ Proxy!Rotate \/ Proxy!Logout
  BY <1>2 DEF Proxy!Revoke, Proxy!Rotate, Proxy!Logout, OnTheWay
<1>3. ASSUME NEW r \in Fetches, Proxy!FindSession(r) PROVE OnTheWay'
  BY <1>0, <1>3 DEF Proxy!FindSession, OnTheWay
<1>4. ASSUME NEW r \in Fetches, Proxy!TakeToken(r) PROVE OnTheWay'
  BY <1>0, <1>4 DEF Proxy!TakeToken, Proxy!Fresh, OnTheWay
<1>5. ASSUME NEW r \in Fetches, Proxy!Grant(r) PROVE OnTheWay'
  BY <1>0, <1>5 DEF Proxy!Grant, OnTheWay
<1>6. ASSUME NEW r \in Fetches, Proxy!StoreToken(r) PROVE OnTheWay'
  BY <1>0, <1>6 DEF Proxy!StoreToken, OnTheWay
<1>7. ASSUME NEW r \in Fetches, Proxy!Send(r) PROVE OnTheWay'
  BY <1>0, <1>7 DEF Proxy!Send, OnTheWay
<1>8. ASSUME NEW r \in Fetches,
             \/ Proxy!Refuse(r) \/ Proxy!Serve(r) \/ Proxy!PassOn(r)
             \/ Proxy!Retry(r) \/ Proxy!NetworkFails(r)
      PROVE  OnTheWay'
  BY <1>0, <1>8 DEF Proxy!Refuse, Proxy!Serve, Proxy!PassOn, Proxy!Retry, Proxy!NetworkFails, OnTheWay
<1>9. CASE UNCHANGED Proxy!vars
  BY <1>9 DEF Proxy!vars, OnTheWay
<1>. QED
  BY <1>1, <1>2, <1>3, <1>4, <1>5, <1>6, <1>7, <1>8, <1>9 DEF Proxy!Next, Proxy!Round

LEMMA RejectedKept ==
    ASSUME Proxy!TypeOK, OnTheWay, Rejected, [Proxy!Next]_(Proxy!vars)
    PROVE  Rejected'
<1>. USE ProxyTimeAssumption, ProxyRequestsAssumption
     DEF Proxy!TimeAssumption, Proxy!RequestsAssumption, Proxy!apiVars, Proxy!sessionVars,
         Proxy!requestVars, Proxy!Goto, Proxy!Finish, Proxy!Tokens, Rejected
<1>0. /\ key \in Nat /\ now \in Nat /\ cached.key \in Nat
      /\ \A r \in Fetches : token[r].key \in Nat /\ token[r].exp \in Nat /\ since[r] \in Nat
      /\ DOMAIN leg = Fetches /\ DOMAIN token = Fetches
  BY DEF Proxy!TypeOK
<1>1. CASE Proxy!Tick \/ Proxy!Logout
  BY <1>1 DEF Proxy!Tick, Proxy!Logout
<1>2. CASE Proxy!Revoke \/ Proxy!Rotate
  BY <1>0, <1>2 DEF Proxy!Revoke, Proxy!Rotate
<1>3. ASSUME NEW r \in Fetches, Proxy!FindSession(r) PROVE Rejected'
  BY <1>0, <1>3 DEF Proxy!FindSession
<1>4. ASSUME NEW r \in Fetches, Proxy!TakeToken(r) PROVE Rejected'
  BY <1>0, <1>4 DEF Proxy!TakeToken
<1>5. ASSUME NEW r \in Fetches, Proxy!Grant(r) PROVE Rejected'
  BY <1>0, <1>5 DEF Proxy!Grant
<1>6. ASSUME NEW r \in Fetches, Proxy!StoreToken(r) PROVE Rejected'
  BY <1>0, <1>6 DEF Proxy!StoreToken
<1>7. ASSUME NEW r \in Fetches, Proxy!Serve(r) PROVE Rejected'
  <2>1. now < token[r].exp
    BY <1>0, <1>7 DEF Proxy!Serve, OnTheWay
  <2>2. Proxy!Valid(token[r]) \/ revoked \/ token[r].key < key
    BY <1>0, <2>1 DEF Proxy!Valid
  <2>. QED
    BY <1>0, <1>7, <2>2 DEF Proxy!Serve
<1>8. ASSUME NEW r \in Fetches,
             \/ Proxy!Refuse(r) \/ Proxy!Send(r) \/ Proxy!PassOn(r)
             \/ Proxy!Retry(r) \/ Proxy!NetworkFails(r)
      PROVE  Rejected'
  BY <1>0, <1>8 DEF Proxy!Refuse, Proxy!Send, Proxy!PassOn, Proxy!Retry, Proxy!NetworkFails
<1>9. CASE UNCHANGED Proxy!vars
  BY <1>9 DEF Proxy!vars
<1>. QED
  BY <1>1, <1>2, <1>3, <1>4, <1>5, <1>6, <1>7, <1>8, <1>9 DEF Proxy!Next, Proxy!Round

LEMMA ProxyInvHolds ==
    ASSUME 2 * MaxLatency <= Margin, Margin < TTL
    PROVE  Proxy!Spec => []ProxyInv
<1>1. Proxy!Init => ProxyInv
  <2>. SUFFICES ASSUME Proxy!Init PROVE ProxyInv
    OBVIOUS
  <2>. USE ProxyTimeAssumption, ProxyRequestsAssumption
       DEF Proxy!TimeAssumption, Proxy!RequestsAssumption, Proxy!Init, Proxy!NoToken
  <2>1. Proxy!TypeOK
    BY ProxyTypesInitial
  <2>. QED
    BY <2>1 DEF ProxyInv, OnTheWay, Rejected
<1>2. ProxyInv /\ [Proxy!Next]_(Proxy!vars) => ProxyInv'
  BY ProxyTypesKept, OnTheWayKept, RejectedKept DEF ProxyInv
<1>. QED
  BY <1>1, <1>2, PTL DEF Proxy!Spec

\* The margin covers the clock: whichever request cached a token and however late, it does
\* not expire on its way to the API, if two legs are shorter than the margin.
THEOREM NeverExpiresInUseHolds ==
    ASSUME 2 * MaxLatency <= Margin, Margin < TTL
    PROVE  Proxy!Spec => []NeverExpiresInUse
<1>1. ProxyInv => NeverExpiresInUse
  BY DEF ProxyInv, Rejected, NeverExpiresInUse, Proxy!NeverExpiresInUse, Proxy!TypeOK, Proxy!Tokens
<1>. QED
  BY <1>1, ProxyInvHolds, PTL

LEMMA SecondRoundKept ==
    ASSUME ProxyInv, SecondRound, MaxRotations <= 1, [Proxy!Next]_(Proxy!vars)
    PROVE  SecondRound'
<1>. USE ProxyTimeAssumption, ProxyRequestsAssumption
     DEF Proxy!TimeAssumption, Proxy!RequestsAssumption, Proxy!apiVars, Proxy!sessionVars,
         Proxy!requestVars, Proxy!Goto, Proxy!Finish, SecondRound
<1>0. /\ key \in Nat /\ key <= 1
      /\ \A r \in Fetches : token[r].key \in Nat
      /\ DOMAIN leg = Fetches /\ DOMAIN token = Fetches /\ retried \subseteq Fetches
  BY DEF ProxyInv, Proxy!TypeOK, Proxy!Tokens
<1>1. CASE Proxy!Tick \/ Proxy!Logout
  BY <1>1 DEF Proxy!Tick, Proxy!Logout
<1>2. CASE Proxy!Revoke \/ Proxy!Rotate
  BY <1>0, <1>2 DEF Proxy!Revoke, Proxy!Rotate
<1>3. ASSUME NEW r \in Fetches, Proxy!FindSession(r) PROVE SecondRound'
  BY <1>0, <1>3 DEF Proxy!FindSession
<1>4. ASSUME NEW r \in Fetches, Proxy!TakeToken(r) PROVE SecondRound'
  BY <1>0, <1>4 DEF Proxy!TakeToken, Proxy!Fresh
<1>5. ASSUME NEW r \in Fetches, Proxy!Grant(r) PROVE SecondRound'
  BY <1>0, <1>5 DEF Proxy!Grant
<1>6. ASSUME NEW r \in Fetches, Proxy!StoreToken(r) PROVE SecondRound'
  BY <1>0, <1>6 DEF Proxy!StoreToken
<1>7. ASSUME NEW r \in Fetches, Proxy!Send(r) PROVE SecondRound'
  BY <1>0, <1>7 DEF Proxy!Send
<1>8. ASSUME NEW r \in Fetches, Proxy!Serve(r) PROVE SecondRound'
  <2>1. now < token[r].exp
    BY <1>8 DEF Proxy!Serve, ProxyInv, Proxy!TypeOK, Proxy!Tokens, OnTheWay
  <2>2. r \in retried => revoked \/ Proxy!Valid(token[r])
    BY <1>0, <1>8, <2>1 DEF Proxy!Serve, Proxy!Valid
  <2>. QED
    BY <1>0, <1>8, <2>2 DEF Proxy!Serve
<1>9. ASSUME NEW r \in Fetches, Proxy!Retry(r) PROVE SecondRound'
  <2>1. revoked \/ token[r].key < key
    BY <1>9 DEF Proxy!Retry, ProxyInv, Rejected
  <2>2. revoked \/ key = 1
    BY <1>0, <2>1
  <2>. QED
    BY <1>0, <1>9, <2>2 DEF Proxy!Retry
<1>10. ASSUME NEW r \in Fetches, Proxy!Refuse(r) \/ Proxy!PassOn(r) \/ Proxy!NetworkFails(r)
       PROVE  SecondRound'
  BY <1>0, <1>10 DEF Proxy!Refuse, Proxy!PassOn, Proxy!NetworkFails
<1>11. CASE UNCHANGED Proxy!vars
  BY <1>11 DEF Proxy!vars
<1>. QED
  BY <1>1, <1>2, <1>3, <1>4, <1>5, <1>6, <1>7, <1>8, <1>9, <1>10, <1>11 DEF Proxy!Next, Proxy!Round

\* One refresh and one retry heal what a new token can heal: with one change of the key,
\* only logout and revocation turn a request away.
THEOREM RefreshHealsHolds ==
    ASSUME 2 * MaxLatency <= Margin, Margin < TTL, MaxRotations <= 1
    PROVE  Proxy!Spec => []RefreshHeals
<1>. DEFINE I == ProxyInv /\ SecondRound /\ RefreshHeals
<1>1. Proxy!Init => SecondRound /\ RefreshHeals
  BY DEF Proxy!Init, SecondRound, RefreshHeals, Proxy!RefreshHeals
<1>2. ProxyInv /\ SecondRound /\ [Proxy!Next]_(Proxy!vars) => SecondRound'
  BY SecondRoundKept
<1>3. I /\ [Proxy!Next]_(Proxy!vars) => RefreshHeals'
  <2>. SUFFICES ASSUME I, [Proxy!Next]_(Proxy!vars) PROVE RefreshHeals'
    OBVIOUS
  <2>. USE DEF RefreshHeals, Proxy!RefreshHeals, Proxy!apiVars, Proxy!sessionVars, Proxy!requestVars,
               Proxy!Goto, Proxy!Finish
  <2>0. DOMAIN answer = Fetches
    BY DEF ProxyInv, Proxy!TypeOK
  <2>1. CASE Proxy!Tick \/ Proxy!Revoke \/ Proxy!Rotate \/ Proxy!Logout
    BY <2>1 DEF Proxy!Tick, Proxy!Revoke, Proxy!Rotate, Proxy!Logout
  <2>2. ASSUME NEW r \in Fetches, Proxy!FindSession(r) PROVE RefreshHeals'
    BY <2>0, <2>2 DEF Proxy!FindSession
  <2>3. ASSUME NEW r \in Fetches, Proxy!Retry(r) PROVE RefreshHeals'
    <3>1. r \in retried => revoked
      BY <2>3 DEF Proxy!Retry, SecondRound
    <3>. QED
      BY <2>0, <2>3, <3>1 DEF Proxy!Retry
  <2>4. ASSUME NEW r \in Fetches,
               \/ Proxy!Refuse(r) \/ Proxy!Send(r) \/ Proxy!Serve(r)
               \/ Proxy!PassOn(r) \/ Proxy!NetworkFails(r)
        PROVE  RefreshHeals'
    BY <2>0, <2>4 DEF Proxy!Refuse, Proxy!Send, Proxy!Serve, Proxy!PassOn, Proxy!NetworkFails
  <2>5. ASSUME NEW r \in Fetches, Proxy!TakeToken(r) \/ Proxy!Grant(r) \/ Proxy!StoreToken(r)
        PROVE  RefreshHeals'
    BY <2>5 DEF Proxy!TakeToken, Proxy!Grant, Proxy!StoreToken
  <2>6. CASE UNCHANGED Proxy!vars
    BY <2>6 DEF Proxy!vars
  <2>. QED
    BY <2>1, <2>2, <2>3, <2>4, <2>5, <2>6 DEF Proxy!Next, Proxy!Round
<1>. QED
  BY <1>1, <1>2, <1>3, ProxyInvHolds, PTL DEF Proxy!Spec

\* The proxy's types: whatever the latencies, the margin and the number of keys.
THEOREM ProxyTypeCorrect == Proxy!Spec => []Proxy!TypeOK
<1>1. Proxy!Init => Proxy!TypeOK
  BY ProxyTypesInitial
<1>2. Proxy!TypeOK /\ [Proxy!Next]_(Proxy!vars) => Proxy!TypeOK'
  BY ProxyTypesKept
<1>. QED
  BY <1>1, <1>2, PTL DEF Proxy!Spec

\* Nothing was executed before the API answers, and the second round sends no body.
NotYet ==
    \A r \in Fetches :
        /\ leg[r] \notin {"served", "answered"} => executed[r] = 0
        /\ leg[r] \in {"sent", "served", "rejected"} /\ r \in Posts => r \notin retried

\* A request is executed at most once in its two rounds, and not at all when it is told
\* to have been refused or its body was consumed by the first.
THEOREM AtMostOnceHolds == Proxy!Spec => []AtMostOnce
<1>. DEFINE I == NotYet /\ AtMostOnce
<1>1. Proxy!Init => I
  BY DEF Proxy!Init, NotYet, AtMostOnce, Proxy!AtMostOnce
<1>2. Proxy!TypeOK /\ I /\ [Proxy!Next]_(Proxy!vars) => I'
  <2>. SUFFICES ASSUME Proxy!TypeOK, I, [Proxy!Next]_(Proxy!vars) PROVE I'
    OBVIOUS
  <2>. USE DEF NotYet, AtMostOnce, Proxy!AtMostOnce, Proxy!apiVars, Proxy!sessionVars,
               Proxy!requestVars, Proxy!Goto, Proxy!Finish
  <2>0. /\ DOMAIN answer = Fetches /\ DOMAIN leg = Fetches /\ DOMAIN executed = Fetches
        /\ \A r \in Fetches : leg[r] = "answered" <=> answer[r] # "none"
    BY DEF Proxy!TypeOK
  <2>1. CASE Proxy!Tick \/ Proxy!Revoke \/ Proxy!Rotate \/ Proxy!Logout
    BY <2>1 DEF Proxy!Tick, Proxy!Revoke, Proxy!Rotate, Proxy!Logout
  <2>2. ASSUME NEW r \in Fetches, Proxy!FindSession(r) PROVE I'
    BY <2>0, <2>2 DEF Proxy!FindSession
  <2>3. ASSUME NEW r \in Fetches, Proxy!TakeToken(r) \/ Proxy!Grant(r) \/ Proxy!StoreToken(r)
        PROVE  I'
    BY <2>0, <2>3 DEF Proxy!TakeToken, Proxy!Grant, Proxy!StoreToken
  <2>4. ASSUME NEW r \in Fetches, Proxy!Refuse(r) \/ Proxy!Send(r) PROVE I'
    BY <2>0, <2>4 DEF Proxy!Refuse, Proxy!Send
  <2>5. ASSUME NEW r \in Fetches, Proxy!Serve(r) \/ Proxy!PassOn(r) PROVE I'
    BY <2>0, <2>5 DEF Proxy!Serve, Proxy!PassOn
  <2>6. ASSUME NEW r \in Fetches, Proxy!Retry(r) PROVE I'
    BY <2>0, <2>6 DEF Proxy!Retry
  <2>7. ASSUME NEW r \in Fetches, Proxy!NetworkFails(r) PROVE I'
    BY <2>0, <2>7 DEF Proxy!NetworkFails
  <2>8. CASE UNCHANGED Proxy!vars
    BY <2>8 DEF Proxy!vars
  <2>. QED
    BY <2>1, <2>2, <2>3, <2>4, <2>5, <2>6, <2>7, <2>8 DEF Proxy!Next, Proxy!Round
<1>. QED
  BY <1>1, <1>2, ProxyTypeCorrect, PTL DEF Proxy!Spec

-----------------------------------------------------------------------------
(* StatusStream. *)

Live == {"pending", "processing", "completed", "failed"}

\* How a document that does not relapse can go on, seen from a stream that knows `a` of it.
Reaches(a, b) ==
    \/ a \in {"none", b}
    \/ b = "deleted"
    \/ a = "pending" /\ b \in Live
    \/ a = "processing" /\ b \in {"completed", "failed"}

\* What a generator knows where it is: the row it holds, the status it reported last, and
\* that nothing but status events was sent before the end.
Aware(s) ==
    /\ stage[s] # "closed" => state[target[s]] # "unborn"
    /\ stage[s] = "closed" => last[s] = "none"
    /\ stage[s] = "report" => row[s] \in Live \cup {"deleted"}
    /\ stage[s] = "decide" => row[s] \in Live /\ row[s] = last[s]
    /\ stage[s] \in {"read", "report"} => last[s] \in {"none", "pending", "processing"}
    /\ stage[s] # "ended" =>
          /\ \A i \in 1..Len(sent[s]) : sent[s][i].event = "status" /\ sent[s][i].status \in Live
          /\ IF last[s] = "none" THEN sent[s] = <<>>
             ELSE Len(sent[s]) > 0 /\ sent[s][Len(sent[s])].status = last[s]

\* What it knows has happened before what it will read.
Behind(s) ==
    target[s] \notin relapsed =>
        /\ stage[s] \in {"read", "report", "decide"} => Reaches(last[s], state[target[s]])
        /\ stage[s] \in {"report", "decide"} =>
              Reaches(last[s], row[s]) /\ Reaches(row[s], state[target[s]])

\* The three properties, of one stream.
Formed(s) ==
    \A i \in 1..Len(sent[s]) :
        LET e == sent[s][i] IN
        /\ i = 1 => e.event \in {"status", "error"}
        /\ e.event # "status" => i = Len(sent[s]) /\ stage[s] = "ended"
        /\ i > 1 /\ e.event = "status" => sent[s][i-1].status # e.status
        /\ e.event \in {"done", "timeout"} => sent[s][i-1].status = e.status
        /\ e.event = "done" <=> e.event # "status" /\ e.status \in {"completed", "failed"}

Forward(s) ==
    \A i, j \in 1..Len(sent[s]) :
        target[s] \notin relapsed /\ i < j /\ sent[s][j].event = "status"
            => Stream!Rank(sent[s][i].status) < Stream!Rank(sent[s][j].status)

Final(s) ==
    \A i \in 1..Len(sent[s]) :
        target[s] \notin relapsed /\ sent[s][i].event = "done"
            => state[target[s]] \in {sent[s][i].status, "deleted"}

StreamInv(s) == Aware(s) /\ Behind(s) /\ Formed(s) /\ Forward(s) /\ Final(s)

AllStreamsInv == Stream!TypeOK /\ \A s \in Streams : StreamInv(s)

LEMMA RankValues ==
    /\ Stream!Rank("pending") = 1 /\ Stream!Rank("processing") = 2
    /\ Stream!Rank("completed") = 3 /\ Stream!Rank("failed") = 3
  BY Zenon DEF Stream!Rank, Stream!Lifecycle!Settled

LEMMA ReachesTransitive ==
    ASSUME NEW a, NEW b, NEW c, Reaches(a, b), Reaches(b, c), b # "none"
    PROVE  Reaches(a, c)
  BY DEF Reaches, Live

\* What a step of the documents means for a stream of document `d`.
MovesOn(d) ==
    /\ d \in relapsed => d \in relapsed'
    /\ state[d] # "unborn" => state'[d] # "unborn"
    /\ d \notin relapsed' /\ state[d] # "unborn" => Reaches(state[d], state'[d])
    /\ d \notin relapsed' /\ state[d] \in {"completed", "failed"}
          => state'[d] \in {state[d], "deleted"}
    /\ state[d] = "deleted" => state'[d] = "deleted"

LEMMA IngestStep ==
    ASSUME Stream!TypeOK, Stream!Ingest
    PROVE  /\ state' \in [Docs -> Stream!Lifecycle!States]
           /\ searchable' \subseteq Docs /\ relapsed' \subseteq Docs
           /\ \A d \in Docs : MovesOn(d)
<1>. USE DEF Stream!TypeOK, Stream!Lifecycle!States, Stream!Lifecycle!Open, Stream!Lifecycle!Settled
<1>1. PICK c \in Docs :
          \/ Stream!Lifecycle!Upload(c) \/ Stream!Lifecycle!Progress(c)
          \/ Stream!Lifecycle!Remove(c) \/ Stream!Lifecycle!Relapse(c)
  BY DEF Stream!Ingest, Stream!Lifecycle!Next
<1>2. PICK v \in Live \cup {"deleted"} :
          /\ state' = [state EXCEPT ![c] = v]
          /\ \/ state[c] = "unborn" /\ v = "pending"
             \/ state[c] = "pending" /\ v \in {"processing", "failed"}
             \/ state[c] = "processing" /\ v \in {"completed", "failed"}
             \/ state[c] \in Live /\ v = "deleted"
             \/ state[c] \in {"completed", "failed"} /\ v \in Live
  <2>. USE DEF Stream!Lifecycle!Become, Stream!Lifecycle!Finish, Live
  <2>1. CASE Stream!Lifecycle!Upload(c)
    BY <2>1 DEF Stream!Lifecycle!Upload
  <2>2. CASE Stream!Lifecycle!Progress(c)
    BY <2>2 DEF Stream!Lifecycle!Progress, Stream!Lifecycle!Start, Stream!Lifecycle!Complete,
                Stream!Lifecycle!Fail
  <2>3. CASE Stream!Lifecycle!Remove(c)
    BY <2>3 DEF Stream!Lifecycle!Remove
  <2>4. CASE Stream!Lifecycle!Relapse(c)
    BY <2>4 DEF Stream!Lifecycle!Relapse
  <2>. QED
    BY <1>1, <2>1, <2>2, <2>3, <2>4
<1>3. searchable' \subseteq Docs /\ relapsed' \subseteq Docs
  BY <1>1 DEF Stream!Ingest, Stream!Lifecycle!Upload, Stream!Lifecycle!Progress, Stream!Lifecycle!Start,
              Stream!Lifecycle!Complete, Stream!Lifecycle!Fail, Stream!Lifecycle!Remove,
              Stream!Lifecycle!Relapse, Stream!Lifecycle!Finish
<1>4. state' \in [Docs -> Stream!Lifecycle!States]
  BY <1>2 DEF Live
<1>5. ASSUME NEW d \in Docs PROVE MovesOn(d)
  <2>1. /\ d \in relapsed => d \in relapsed'
        /\ d \notin relapsed' /\ state[d] \in {"completed", "failed"} => state'[d] \in {state[d], "deleted"}
    BY DEF Stream!Ingest
  <2>2. /\ state[d] # "unborn" => state'[d] # "unborn"
        /\ state[d] = "deleted" => state'[d] = "deleted"
    BY <1>2 DEF Live
  <2>3. state[d] # "unborn" /\ state[d] \notin {"completed", "failed"} => Reaches(state[d], state'[d])
    BY <1>2 DEF Live, Reaches
  <2>. QED
    BY <2>1, <2>2, <2>3 DEF MovesOn, Reaches
<1>. QED
  BY <1>3, <1>4, <1>5

\* A stream of which nothing changes, while the documents stay as they are.
LEMMA StreamUntouched ==
    ASSUME NEW s \in Streams, StreamInv(s),
           UNCHANGED <<state, relapsed, target>>,
           stage'[s] = stage[s], row'[s] = row[s], last'[s] = last[s], sent'[s] = sent[s]
    PROVE  StreamInv(s)'
  BY DEF StreamInv, Aware, Behind, Formed, Forward, Final

\* The documents move on under a stream.
LEMMA StreamOverIngest ==
    ASSUME Stream!TypeOK, NEW s \in Streams, StreamInv(s), Stream!Ingest
    PROVE  StreamInv(s)'
<1>. DEFINE d == target[s]
<1>1. /\ d \in Docs /\ target' = target /\ stage' = stage /\ row' = row /\ last' = last /\ sent' = sent
  BY DEF Stream!TypeOK, Stream!Ingest, Stream!streamVars
<1>2. /\ d \in relapsed => d \in relapsed'
      /\ state[d] # "unborn" => state'[d] # "unborn"
      /\ d \notin relapsed' /\ state[d] # "unborn" => Reaches(state[d], state'[d])
      /\ d \notin relapsed' /\ state[d] \in {"completed", "failed"} => state'[d] \in {state[d], "deleted"}
      /\ state[d] = "deleted" => state'[d] = "deleted"
  BY <1>1, IngestStep DEF MovesOn
<1>3. Aware(s)'
  BY <1>1, <1>2 DEF StreamInv, Aware
<1>4. Behind(s)'
  <2>. SUFFICES ASSUME d \notin relapsed', stage[s] \in {"read", "report", "decide"}
                PROVE  /\ Reaches(last[s], state'[d])
                       /\ stage[s] \in {"report", "decide"} =>
                             Reaches(last[s], row[s]) /\ Reaches(row[s], state'[d])
    BY <1>1 DEF Behind
  <2>1. state[d] # "unborn" /\ state[d] # "none" /\ d \notin relapsed
    BY <1>1, <1>2 DEF StreamInv, Aware, Stream!TypeOK, Stream!Lifecycle!States, Stream!Lifecycle!Open,
                      Stream!Lifecycle!Settled
  <2>2. Reaches(state[d], state'[d])
    BY <1>2, <2>1
  <2>. QED
    BY <2>1, <2>2, ReachesTransitive DEF StreamInv, Behind
<1>5. Formed(s)' /\ Forward(s)'
  BY <1>1, <1>2 DEF StreamInv, Formed, Forward
<1>6. Final(s)'
  <2>. SUFFICES ASSUME NEW i \in 1..Len(sent[s]), d \notin relapsed', sent[s][i].event = "done"
                PROVE  state'[d] \in {sent[s][i].status, "deleted"}
    BY <1>1 DEF Final
  <2>1. state[d] \in {sent[s][i].status, "deleted"} /\ sent[s][i].status \in {"completed", "failed"}
    BY <1>2 DEF StreamInv, Final, Formed
  <2>. QED
    BY <1>2, <2>1
<1>. QED
  BY <1>3, <1>4, <1>5, <1>6 DEF StreamInv

\* What sending an event adds to what a stream has sent.
LEMMA SendEffect ==
    ASSUME Stream!TypeOK, NEW s \in Streams, NEW kind \in {"status", "done", "timeout", "error"},
           row[s] \in Stream!Lifecycle!States, Stream!Send(s, kind)
    PROVE  /\ sent' \in [Streams -> Seq(Stream!Events)]
           /\ \A t \in Streams \ {s} : sent'[t] = sent[t]
           /\ Len(sent[s]) \in Nat
           /\ Len(sent'[s]) = Len(sent[s]) + 1
           /\ \A i \in 1..Len(sent[s]) :
                 sent'[s][i] = sent[s][i] /\ (i > 1 => sent'[s][i-1] = sent[s][i-1])
           /\ sent'[s][Len(sent[s]) + 1].event = kind
           /\ sent'[s][Len(sent[s]) + 1].status = row[s]
<1>. DEFINE e == [event |-> kind, status |-> row[s]]
<1>1. e \in Stream!Events /\ e.event = kind /\ e.status = row[s]
  BY DEF Stream!Events
<1>2. sent[s] \in Seq(Stream!Events)
  BY DEF Stream!TypeOK
<1>. HIDE DEF e
<1>3. /\ Append(sent[s], e) \in Seq(Stream!Events)
      /\ Len(sent[s]) \in Nat
      /\ Len(Append(sent[s], e)) = Len(sent[s]) + 1
      /\ \A i \in 1..Len(sent[s]) :
            Append(sent[s], e)[i] = sent[s][i] /\ (i > 1 => Append(sent[s], e)[i-1] = sent[s][i-1])
      /\ Append(sent[s], e)[Len(sent[s]) + 1] = e
  BY <1>1, <1>2
<1>4. sent' = [sent EXCEPT ![s] = Append(sent[s], e)]
  BY DEF Stream!Send, e
<1>. QED
  BY <1>1, <1>3, <1>4 DEF Stream!TypeOK

\* The row a stream reports or decides on is one the platform shows.
LEMMA RowIsState ==
    ASSUME NEW s \in Streams, Aware(s), stage[s] \in {"report", "decide"}
    PROVE  row[s] \in Stream!Lifecycle!States /\ row[s] # "none" /\ row[s] # "unborn"
  BY DEF Aware, Live, Stream!Lifecycle!States, Stream!Lifecycle!Open, Stream!Lifecycle!Settled

LEMMA StreamTypesKept ==
    ASSUME AllStreamsInv, [Stream!Next]_(Stream!vars)
    PROVE  Stream!TypeOK'
<1>. USE StreamAssumption
     DEF Stream!MaxPollsAssumption, Stream!RelapsesAssumption, AllStreamsInv, StreamInv, Stream!Goto,
         Stream!docVars, Stream!Labels, Stream!Rows
<1>1. CASE Stream!Ingest
  <2>1. state' \in [Docs -> Stream!Lifecycle!States] /\ searchable' \subseteq Docs /\ relapsed' \subseteq Docs
    BY <1>1, IngestStep
  <2>. QED
    BY <1>1, <2>1 DEF Stream!Ingest, Stream!streamVars, Stream!TypeOK
<1>2. ASSUME NEW s \in Streams, Stream!Open(s) \/ Stream!Disconnect(s) PROVE Stream!TypeOK'
  BY <1>2 DEF Stream!Open, Stream!Disconnect, Stream!TypeOK
<1>3. ASSUME NEW s \in Streams, Stream!Read(s) PROVE Stream!TypeOK'
  BY <1>3 DEF Stream!Read, Stream!TypeOK
<1>4. ASSUME NEW s \in Streams, Stream!Sleep(s) PROVE Stream!TypeOK'
  BY <1>4 DEF Stream!Sleep, Stream!TypeOK
<1>5. ASSUME NEW s \in Streams, Stream!Report(s) PROVE Stream!TypeOK'
  <2>1. row[s] \in Stream!Lifecycle!States
    BY <1>5, RowIsState DEF Stream!Report
  <2>2. sent' \in [Streams -> Seq(Stream!Events)]
    BY <1>5, <2>1, SendEffect DEF Stream!Report, Stream!TypeOK
  <2>. QED
    BY <1>5, <2>1, <2>2 DEF Stream!Report, Stream!TypeOK
<1>6. ASSUME NEW s \in Streams, Stream!Done(s) \/ Stream!Timeout(s) PROVE Stream!TypeOK'
  <2>1. row[s] \in Stream!Lifecycle!States
    BY <1>6, RowIsState DEF Stream!Done, Stream!Timeout
  <2>2. sent' \in [Streams -> Seq(Stream!Events)]
    BY <1>6, <2>1, SendEffect DEF Stream!Done, Stream!Timeout
  <2>. QED
    BY <1>6, <2>2 DEF Stream!Done, Stream!Timeout, Stream!TypeOK
<1>7. CASE UNCHANGED Stream!vars
  BY <1>7 DEF Stream!vars, Stream!streamVars, Stream!TypeOK
<1>. QED
  BY <1>1, <1>2, <1>3, <1>4, <1>5, <1>6, <1>7 DEF Stream!Next, Stream!Advance

\* The steps that send nothing.
LEMMA SilentStep ==
    ASSUME Stream!TypeOK, NEW s \in Streams, StreamInv(s),
           Stream!Open(s) \/ Stream!Read(s) \/ Stream!Sleep(s) \/ Stream!Disconnect(s)
    PROVE  StreamInv(s)'
<1>. USE DEF Stream!TypeOK, Stream!Goto, Stream!docVars, StreamInv
<1>1. target[s] \in Docs
  OBVIOUS
<1>2. /\ UNCHANGED <<state, relapsed, target, last, sent>>
      /\ \A i \in 1..Len(sent[s]) : sent[s][i].event # "status" => stage[s] = "ended"
  BY DEF Stream!Open, Stream!Read, Stream!Sleep, Stream!Disconnect, Formed
<1>3. Formed(s)' /\ Forward(s)' /\ Final(s)'
  <2>1. stage[s] # "ended"
    BY DEF Stream!Open, Stream!Read, Stream!Sleep, Stream!Disconnect
  <2>. QED
    BY <1>2, <2>1 DEF Formed, Forward, Final
<1>4. CASE Stream!Open(s)
  BY <1>3, <1>4 DEF Stream!Open, Stream!Found, Aware, Behind, Reaches
<1>5. CASE Stream!Read(s)
  <2>1. state[target[s]] \in Live \cup {"deleted"}
    BY <1>1, <1>5 DEF Stream!Read, Aware, Live, Stream!Lifecycle!States, Stream!Lifecycle!Open,
                      Stream!Lifecycle!Settled
  <2>. QED
    BY <1>3, <1>5, <2>1 DEF Stream!Read, Aware, Behind, Reaches
<1>6. CASE Stream!Sleep(s)
  BY <1>3, <1>6 DEF Stream!Sleep, Aware, Behind, Live, Stream!Lifecycle!Settled
<1>7. CASE Stream!Disconnect(s)
  BY <1>3, <1>7 DEF Stream!Disconnect, Aware, Behind
<1>. QED
  BY <1>4, <1>5, <1>6, <1>7

\* A status event: it is new, and ahead of all that was sent before.
LEMMA StatusStep ==
    ASSUME Stream!TypeOK, NEW s \in Streams, StreamInv(s),
           Stream!Report(s), row[s] \notin {"deleted", last[s]}
    PROVE  StreamInv(s)'
<1>. DEFINE n == Len(sent[s])
<1>1. /\ stage[s] = "report" /\ stage'[s] = "decide" /\ last'[s] = row[s]
      /\ UNCHANGED <<state, relapsed, target, row>> /\ Stream!Send(s, "status")
  BY DEF Stream!Report, Stream!Goto, Stream!docVars, Stream!TypeOK
<1>2. /\ row[s] \in Live /\ row[s] # "none" /\ row[s] \in Stream!Lifecycle!States
      /\ last[s] \in {"none", "pending", "processing"} /\ row[s] # last[s]
  BY <1>1, RowIsState DEF StreamInv, Aware, Live
<1>3. /\ n \in Nat /\ Len(sent'[s]) = n + 1
      /\ \A i \in 1..n : sent'[s][i] = sent[s][i] /\ (i > 1 => sent'[s][i-1] = sent[s][i-1])
      /\ sent'[s][n + 1].event = "status" /\ sent'[s][n + 1].status = row[s]
  BY <1>1, <1>2, SendEffect
<1>4. /\ \A i \in 1..n : sent[s][i].event = "status" /\ sent[s][i].status \in Live
      /\ IF last[s] = "none" THEN n = 0 ELSE n > 0 /\ sent[s][n].status = last[s]
  BY <1>1 DEF StreamInv, Aware
<1>10. /\ \A i \in 1..n :
             /\ i > 1 => sent[s][i-1].status # sent[s][i].status
             /\ sent[s][i].event \notin {"done", "timeout"}
       /\ target[s] \notin relapsed =>
             \A i, j \in 1..n : i < j => Stream!Rank(sent[s][i].status) < Stream!Rank(sent[s][j].status)
  <2>1. \A i \in 1..n : /\ i > 1 => sent[s][i-1].status # sent[s][i].status
                        /\ sent[s][i].event \notin {"done", "timeout"}
    BY <1>4 DEF StreamInv, Formed
  <2>. QED
    BY <1>4, <2>1 DEF StreamInv, Forward
<1>. HIDE DEF n
<1>11. \A i \in 1..(n + 1) : sent'[s][i].event = "status" /\ sent'[s][i].status \in Live
  <2>. TAKE i \in 1..(n + 1)
  <2>1. CASE i \in 1..n
    BY <1>3, <1>4, <2>1
  <2>2. CASE i = n + 1
    BY <1>2, <1>3, <2>2
  <2>. QED
    BY <1>3, <2>1, <2>2
<1>5. Aware(s)'
  <2>2. state[target[s]] # "unborn"
    BY <1>1 DEF StreamInv, Aware
  <2>. QED
    BY <1>1, <1>2, <1>3, <1>11, <2>2 DEF Aware
<1>6. Behind(s)'
  BY <1>1 DEF StreamInv, Behind, Reaches
<1>7. Formed(s)'
  <2>1. ASSUME NEW i \in 1..(n + 1)
        PROVE  /\ sent'[s][i].event = "status"
               /\ i > 1 => sent'[s][i-1].status # sent'[s][i].status
    <3>1. CASE i \in 1..n
      BY <1>3, <1>4, <1>10, <3>1
    <3>2. CASE i = n + 1 /\ n > 0
      BY <1>2, <1>3, <1>4, <3>2
    <3>3. CASE i = n + 1 /\ n = 0
      BY <1>3, <3>3
    <3>. QED
      BY <1>3, <3>1, <3>2, <3>3
  <2>. QED
    BY <1>3, <2>1 DEF Formed
<1>8. Forward(s)'
  <2>. SUFFICES ASSUME NEW i \in 1..(n + 1), NEW j \in 1..(n + 1), target[s] \notin relapsed, i < j
                PROVE  Stream!Rank(sent'[s][i].status) < Stream!Rank(sent'[s][j].status)
    BY <1>1, <1>3 DEF Forward
  <2>1. CASE j \in 1..n
    <3>1. i \in 1..n /\ sent'[s][i] = sent[s][i] /\ sent'[s][j] = sent[s][j]
      BY <1>3, <2>1
    <3>. QED
      BY <1>10, <2>1, <3>1
  <2>2. CASE j = n + 1
    <3>1. i \in 1..n /\ n > 0 /\ last[s] = sent[s][n].status /\ last[s] \in {"pending", "processing"}
      BY <1>2, <1>3, <1>4, <2>2
    <3>2. Stream!Rank(last[s]) < Stream!Rank(row[s])
      BY <1>1, <1>2, <3>1, RankValues DEF StreamInv, Behind, Reaches, Live
    <3>3. sent[s][i].status \in Live
      BY <1>4, <3>1
    <3>4. Stream!Rank(sent[s][i].status) \in Nat /\ Stream!Rank(last[s]) \in Nat /\ Stream!Rank(row[s]) \in Nat
      BY <1>2, <3>1, <3>3, RankValues DEF Live
    <3>5. i = n \/ Stream!Rank(sent[s][i].status) < Stream!Rank(sent[s][n].status)
      <4>1. n \in 1..n /\ (i = n \/ i < n)
        BY <1>3, <3>1
      <4>2. CASE i < n
        BY <1>10, <3>1, <4>1, <4>2
      <4>. QED
        BY <4>1, <4>2
    <3>. QED
      BY <1>3, <2>2, <3>1, <3>2, <3>4, <3>5
  <2>. QED
    BY <1>3, <2>1, <2>2
<1>9. Final(s)'
  BY <1>3, <1>11 DEF Final
<1>. QED
  BY <1>5, <1>6, <1>7, <1>8, <1>9 DEF StreamInv

\* A status that was reported before: nothing is sent.
LEMMA RepeatStep ==
    ASSUME Stream!TypeOK, NEW s \in Streams, StreamInv(s),
           Stream!Report(s), row[s] = last[s], row[s] # "deleted"
    PROVE  StreamInv(s)'
<1>1. /\ stage[s] = "report" /\ stage'[s] = "decide"
      /\ UNCHANGED <<state, relapsed, target, row, last, sent>>
  BY DEF Stream!Report, Stream!Goto, Stream!docVars, Stream!TypeOK
<1>. QED
  BY <1>1 DEF StreamInv, Aware, Behind, Formed, Forward, Final

\* The last event: it repeats the status before it, unless the row is gone.
LEMMA LastStep ==
    ASSUME Stream!TypeOK, NEW s \in Streams, StreamInv(s),
           \/ Stream!Report(s) /\ row[s] = "deleted"
           \/ Stream!Done(s) \/ Stream!Timeout(s)
    PROVE  StreamInv(s)'
<1>. DEFINE n == Len(sent[s])
<1>1. /\ stage[s] \in {"report", "decide"} /\ stage'[s] = "ended"
      /\ UNCHANGED <<state, relapsed, target, row, last>>
  BY DEF Stream!Report, Stream!Done, Stream!Timeout, Stream!Goto, Stream!docVars, Stream!TypeOK, StreamInv,
         Aware
<1>2. PICK kind \in {"error", "done", "timeout"} :
          /\ Stream!Send(s, kind)
          /\ kind = "error" => row[s] = "deleted"
          /\ kind # "error" => stage[s] = "decide" /\ (kind = "done" <=> row[s] \in {"completed", "failed"})
  BY DEF Stream!Report, Stream!Done, Stream!Timeout, Stream!Lifecycle!Settled, StreamInv, Aware
<1>3. row[s] \in Stream!Lifecycle!States
  BY <1>1, RowIsState DEF StreamInv
<1>4. /\ n \in Nat /\ Len(sent'[s]) = n + 1
      /\ \A i \in 1..n : sent'[s][i] = sent[s][i] /\ (i > 1 => sent'[s][i-1] = sent[s][i-1])
      /\ sent'[s][n + 1].event = kind /\ sent'[s][n + 1].status = row[s]
  BY <1>2, <1>3, SendEffect
<1>5. /\ \A i \in 1..n : sent[s][i].event = "status"
      /\ stage[s] = "decide" => n > 0 /\ sent[s][n].status = row[s]
  BY <1>1 DEF StreamInv, Aware, Live
<1>. HIDE DEF n
<1>6. Aware(s)' /\ Behind(s)'
  BY <1>1 DEF StreamInv, Aware, Behind
<1>7. Formed(s)'
  <2>. SUFFICES ASSUME NEW i \in 1..(n + 1)
                PROVE  LET e == sent'[s][i] IN
                       /\ i = 1 => e.event \in {"status", "error"}
                       /\ e.event # "status" => i = n + 1
                       /\ i > 1 /\ e.event = "status" => sent'[s][i-1].status # e.status
                       /\ e.event \in {"done", "timeout"} => sent'[s][i-1].status = e.status
                       /\ e.event = "done" <=> e.event # "status" /\ e.status \in {"completed", "failed"}
    BY <1>1, <1>4 DEF Formed
  <2>1. CASE i \in 1..n
    BY <1>4, <1>5, <2>1 DEF StreamInv, Formed, n
  <2>2. CASE i = n + 1
    BY <1>2, <1>4, <1>5, <2>2
  <2>. QED
    BY <1>4, <2>1, <2>2
<1>8. Forward(s)'
  <2>. SUFFICES ASSUME NEW i \in 1..n, NEW j \in 1..n, target[s] \notin relapsed, i < j
                PROVE  Stream!Rank(sent[s][i].status) < Stream!Rank(sent[s][j].status)
    <3>1. ASSUME NEW i \in 1..(n + 1), NEW j \in 1..(n + 1), i < j, sent'[s][j].event = "status"
          PROVE  i \in 1..n /\ j \in 1..n
      BY <1>2, <1>4, <3>1
    <3>. QED
      BY <1>1, <1>4, <3>1 DEF Forward
  <2>. QED
    BY <1>5 DEF StreamInv, Forward, n
<1>9. Final(s)'
  <2>. SUFFICES ASSUME target[s] \notin relapsed, kind = "done"
                PROVE  state[target[s]] \in {row[s], "deleted"}
    <3>1. ASSUME NEW i \in 1..(n + 1), sent'[s][i].event = "done"
          PROVE  i = n + 1 /\ kind = "done" /\ sent'[s][i].status = row[s]
      BY <1>4, <1>5, <3>1
    <3>. QED
      BY <1>1, <1>4, <3>1 DEF Final
  <2>. QED
    BY <1>1, <1>2 DEF StreamInv, Behind, Reaches
<1>. QED
  BY <1>6, <1>7, <1>8, <1>9 DEF StreamInv

LEMMA StreamStep ==
    ASSUME AllStreamsInv, [Stream!Next]_(Stream!vars), NEW t \in Streams
    PROVE  StreamInv(t)'
<1>1. CASE Stream!Ingest
  BY <1>1, StreamOverIngest DEF AllStreamsInv
<1>2. ASSUME NEW s \in Streams, Stream!Open(s) \/ Stream!Advance(s) \/ Stream!Disconnect(s)
      PROVE  StreamInv(t)'
  <2>1. CASE t # s
    BY <1>2, <2>1, StreamUntouched
    DEF AllStreamsInv, Stream!TypeOK, Stream!Open, Stream!Advance, Stream!Read, Stream!Report,
        Stream!Done, Stream!Timeout, Stream!Sleep, Stream!Disconnect, Stream!Send, Stream!Goto,
        Stream!docVars
  <2>2. CASE t = s /\ (Stream!Open(s) \/ Stream!Read(s) \/ Stream!Sleep(s) \/ Stream!Disconnect(s))
    BY <2>2, SilentStep DEF AllStreamsInv
  <2>3. CASE t = s /\ Stream!Report(s)
    <3>1. CASE row[s] = "deleted"
      BY <2>3, <3>1, LastStep DEF AllStreamsInv
    <3>2. CASE row[s] \notin {"deleted", last[s]}
      BY <2>3, <3>2, StatusStep DEF AllStreamsInv
    <3>3. CASE row[s] = last[s] /\ row[s] # "deleted"
      BY <2>3, <3>3, RepeatStep DEF AllStreamsInv
    <3>. QED
      BY <3>1, <3>2, <3>3
  <2>4. CASE t = s /\ (Stream!Done(s) \/ Stream!Timeout(s))
    BY <2>4, LastStep DEF AllStreamsInv
  <2>. QED
    BY <1>2, <2>1, <2>2, <2>3, <2>4 DEF Stream!Advance
<1>3. CASE UNCHANGED Stream!vars
  BY <1>3, StreamUntouched DEF AllStreamsInv, Stream!vars, Stream!docVars, Stream!streamVars
<1>. QED
  BY <1>1, <1>2, <1>3 DEF Stream!Next

\* A client that parses the stream can rely on the order of the events, sees a document
\* that does not relapse move forward only, and may stop looking after "done"; whatever
\* the row does between the polls and between a poll and the events sent for it.
THEOREM StreamIsTrueHolds == Stream!Spec => []StreamIsTrue
<1>1. Stream!Init => AllStreamsInv
  <2>. SUFFICES ASSUME Stream!Init PROVE AllStreamsInv
    OBVIOUS
  <2>. USE DEF Stream!Init
  <2>1. Stream!TypeOK
    BY StreamAssumption
    DEF Stream!MaxPollsAssumption, Stream!TypeOK, Stream!Lifecycle!Init, Stream!Lifecycle!States,
        Stream!Rows, Stream!Labels
  <2>2. ASSUME NEW s \in Streams PROVE StreamInv(s)
    BY DEF StreamInv, Aware, Behind, Formed, Forward, Final
  <2>. QED
    BY <2>1, <2>2 DEF AllStreamsInv
<1>2. AllStreamsInv /\ [Stream!Next]_(Stream!vars) => AllStreamsInv'
  <2>. SUFFICES ASSUME AllStreamsInv, [Stream!Next]_(Stream!vars) PROVE AllStreamsInv'
    OBVIOUS
  <2>1. Stream!TypeOK'
    BY StreamTypesKept
  <2>2. \A s \in Streams : StreamInv(s)'
    BY StreamStep
  <2>. QED
    BY <2>1, <2>2 DEF AllStreamsInv
<1>3. AllStreamsInv => StreamIsTrue
  BY DEF AllStreamsInv, StreamInv, Formed, Forward, Final, StreamIsTrue, Stream!WellFormed,
         Stream!ForwardOnly, Stream!DoneIsFinal, Stream!Lifecycle!Settled
<1>. QED
  BY <1>1, <1>2, <1>3, PTL DEF Stream!Spec
=============================================================================
