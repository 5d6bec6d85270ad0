------------------------------- MODULE Access -------------------------------
(***************************************************************************)
(* Machine credentials and bearer tokens of the API: the operator's CLI    *)
(* creates and revokes credentials, POST /auth/token exchanges one for a   *)
(* signed token, and every call is checked by get_current_tenant(), all in *)
(* sessions of their own.  A token carries its credential and expiry; a    *)
(* forged or foreign one does not decode and is left out.                  *)
(***************************************************************************)
EXTENDS Naturals

CONSTANTS
    Credentials,
    Exchanges,  \* requests to the token endpoint
    Calls,      \* requests with a token
    TTL,        \* jwt_ttl_seconds
    MaxTime     \* bound: the last moment modelled

\* Of the constants.
TimeAssumption   == TTL \in Nat /\ MaxTime \in Nat
ActorsAssumption == Exchanges \cap Calls = {}

VARIABLES
    now,
    creds,     \* api_credentials: "none", "live" (revoked_at is NULL), "revoked"
    tokens,    \* signed so far
    pc,        \* where each exchange and call is
    client,    \* the credential an exchange names
    bearer,    \* the token a call carries
    late       \* requests that arrived when their credential had been revoked

vars == <<now, creds, tokens, pc, client, bearer, late>>

Actors == Exchanges \cup Calls
Tokens   == [cred : Credentials, exp : 0..(MaxTime + TTL)]
NoToken  == [cred |-> CHOOSE c \in Credentials : TRUE, exp |-> 0]
Labels   == {"new", "lookup", "stamp", "sign", "denied", "done", "running"}

Init ==
    /\ now    = 0
    /\ creds  = [c \in Credentials |-> "none"]
    /\ tokens = {}
    /\ pc     = [r \in Actors |-> "new"]
    /\ client \in [Exchanges -> Credentials]
    /\ bearer = [q \in Calls |-> NoToken]
    /\ late   = {}

Goto(r, label) == pc' = [pc EXCEPT ![r] = label]

Arrive(r, c) == late' = IF creds[c] = "revoked" THEN late \cup {r} ELSE late

Tick == now < MaxTime /\ now' = now + 1 /\ UNCHANGED <<creds, tokens, pc, client, bearer, late>>

-----------------------------------------------------------------------------
(* The operator. *)

CreateCredential(c) ==
    /\ creds[c] = "none"
    /\ creds' = [creds EXCEPT ![c] = "live"]
    /\ UNCHANGED <<now, tokens, pc, client, bearer, late>>

\* revoked_at keeps its first value.
RevokeCredential(c) ==
    /\ creds[c] = "live"
    /\ creds' = [creds EXCEPT ![c] = "revoked"]
    /\ UNCHANGED <<now, tokens, pc, client, bearer, late>>

-----------------------------------------------------------------------------
(* POST /auth/token. *)

\* The rate limiter (which may answer 429) and the grant type.
StartExchange(e) ==
    /\ pc[e] = "new"
    /\ \E outcome \in {"lookup", "denied"} : Goto(e, outcome)
    /\ Arrive(e, client[e])
    /\ UNCHANGED <<now, creds, tokens, client, bearer>>

\* SELECT by client_id: unknown, revoked and a wrong secret are one answer.
LookupClient(e) ==
    /\ pc[e] = "lookup"
    /\ \/ creds[client[e]] = "live" /\ Goto(e, "stamp")
       \/ Goto(e, "denied")
    /\ UNCHANGED <<now, creds, tokens, client, bearer, late>>

\* Mutant: the whole row is written back as it was read.
StampWholeRow(e) ==
    /\ pc[e] = "stamp"
    /\ creds' = [creds EXCEPT ![client[e]] = "live"]
    /\ Goto(e, "sign")
    /\ UNCHANGED <<now, tokens, client, bearer, late>>

\* UPDATE of last_used_at alone, and COMMIT.
Stamp(e) ==
    /\ pc[e] = "stamp"
    /\ Goto(e, "sign")
    /\ UNCHANGED <<now, creds, tokens, client, bearer, late>>

\* Signing reads nothing but the clock: the token may be signed after the credential
\* was revoked.
SignToken(e) ==
    /\ pc[e] = "sign"
    /\ tokens' = tokens \cup {[cred |-> client[e], exp |-> now + TTL]}
    /\ Goto(e, "done")
    /\ UNCHANGED <<now, creds, client, bearer, late>>

-----------------------------------------------------------------------------
(* A call: get_current_tenant(), then the handler. *)

\* Signature and expiry.
DecodeToken(q) ==
    /\ pc[q] = "new"
    /\ \E t \in tokens :
          /\ bearer' = [bearer EXCEPT ![q] = t]
          /\ Arrive(q, t.cred)
          /\ Goto(q, IF t.exp > now THEN "lookup" ELSE "denied")
    /\ UNCHANGED <<now, creds, tokens, client>>

\* The liveness check, one read on every call.
CheckCredential(q) ==
    /\ pc[q] = "lookup"
    /\ Goto(q, IF creds[bearer[q].cred] = "live" THEN "running" ELSE "denied")
    /\ UNCHANGED <<now, creds, tokens, client, bearer, late>>

Answer(q) ==
    /\ pc[q] = "running"
    /\ Goto(q, "done")
    /\ UNCHANGED <<now, creds, tokens, client, bearer, late>>

-----------------------------------------------------------------------------
Exchange(e) == StartExchange(e) \/ LookupClient(e) \/ Stamp(e) \/ SignToken(e)
Call(q)     == DecodeToken(q) \/ CheckCredential(q) \/ Answer(q)

Next ==
    \/ Tick
    \/ \E c \in Credentials : CreateCredential(c) \/ RevokeCredential(c)
    \/ \E e \in Exchanges : Exchange(e)
    \/ \E q \in Calls : Call(q)

Spec == Init /\ [][Next]_vars

-----------------------------------------------------------------------------
(* Properties. *)

TypeOK ==
    /\ now    \in 0..MaxTime
    /\ creds  \in [Credentials -> {"none", "live", "revoked"}]
    /\ tokens \subseteq Tokens
    /\ pc     \in [Actors -> Labels]
    /\ client \in [Exchanges -> Credentials]
    /\ bearer \in [Calls -> Tokens \cup {NoToken}]
    /\ late   \subseteq Actors

\* "Immediate revocation": no call that arrives after the revocation was committed is
\* let in, and no exchange that does is given a token, whatever tokens exist.
RevocationIsImmediate == \A r \in late : pc[r] \notin {"stamp", "sign", "running", "done"}

\* Nothing brings a revoked credential back, in particular no exchange that read it
\* before the revocation and writes its row afterwards.
RevokedForGood ==
    [][\A c \in Credentials : creds[c] = "revoked" => creds'[c] = "revoked"]_vars

=============================================================================
