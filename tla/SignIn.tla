------------------------------- MODULE SignIn -------------------------------
(***************************************************************************)
(* Signing in: the login command of the command line client, the provider  *)
(* it asks (OIDC with PKCE, or WeCom through the hub), the credentials     *)
(* file, and the gate of the hub that checks the bearer of a connection.   *)
(*                                                                         *)
(* A login prints an authorize URL, listens on a loopback port, and waits  *)
(* for the browser to bring a code, which it exchanges for a token.  A     *)
(* code is named by the login whose URL it answers, and so is the token it *)
(* is exchanged for.  The port is a fresh one for every login, or fixed    *)
(* (ATLAS_OIDC_REDIRECT_PORT); then a browser tab of a login that has      *)
(* given up calls back to the next one.  The hub reads the provider's keys *)
(* once, when it starts.                                                   *)
(***************************************************************************)
EXTENDS Credentials, Sequences

CONSTANTS Sockets,      \* connections to the hub
          Providers,    \* what a login may choose: "oidc", "wecom"
          Gates,        \* ATLAS_AUTH_MODE: "dev", "static", "oidc"
          Enrolled,     \* who is on the allow list: logins, by their subject
          Life,         \* how long a token is valid, the leeway included
          MaxTime,      \* bound on the clock
          MaxKey        \* bound on the provider's key rotations

DevUser == "user_local_dev"     \* the subject of everybody in mode dev

ASSUME SignInAssumption ==
  /\ Providers \subseteq {"oidc", "wecom"} /\ Gates \subseteq {"dev", "static", "oidc"}
  /\ Enrolled \subseteq Logins \cup {DevUser}
  /\ Life \in Nat /\ MaxTime \in Nat /\ MaxKey \in Nat

VARIABLES gate,         \* the hub's auth mode
          fixed,        \* every login listens on the same port
          echoes,       \* the provider returns the state it was given
          kids,         \* the provider names the key in its tokens
          time,
          key,          \* the provider's signing key; keys are numbered
          loaded,       \* the keys the hub holds, in order
          stage,        \* where each login is
          via,          \* its provider
          tabs,         \* authorised browser tabs that have yet to call back
          codes,        \* codes the providers would still accept
          landed,       \* the code that reached each login
          reply,        \* the answer to its exchange
          expiry,       \* exp of each token
          signed,       \* the key it is signed with
          socket,       \* where each connection is
          bearer        \* the token it presented at the upgrade

exchange == <<codes, reply, expiry, signed>>
hub == <<gate, loaded>>
provider == <<echoes, kids, key>>
connections == <<socket, bearer>>
signIn == <<gate, fixed, echoes, kids, time, key, loaded, stage, via, tabs,
            codes, landed, reply, expiry, signed, socket, bearer, credentials>>

Secret == MaxKey + 1    \* ATLAS_AUTH_JWT_SECRET, the hub's own: no provider key

\* What the provider publishes while it signs with key k: the key, and after it
\* the one it replaced.
Published(k) == IF k = 0 THEN <<0>> ELSE <<k, k - 1>>

\* What a starting hub may get of it: what is published now, or the copy in
\* ATLAS_OIDC_JWKS_JSON, which is as old as the operator left it.  A provider that
\* does not answer, and keys that cannot be read, leave it without any.
KeysRead == IF gate = "oidc" THEN {<<>>} \cup {Published(k) : k \in 0..key} ELSE {<<>>}

SignInInit ==
  /\ CredentialsInit
  /\ gate \in Gates /\ fixed \in BOOLEAN /\ echoes \in BOOLEAN /\ kids \in BOOLEAN
  /\ time = 0 /\ key = 0
  /\ loaded \in KeysRead
  /\ stage = [l \in Logins |-> "idle"]
  /\ via = [l \in Logins |-> "oidc"]
  /\ tabs = {} /\ codes = {}
  /\ landed = [l \in Logins |-> Nothing]
  /\ reply = [l \in Logins |-> "none"]
  /\ expiry = [l \in Logins |-> 0]
  /\ signed = [l \in Logins |-> Secret]
  /\ socket = [s \in Sockets |-> "closed"]
  /\ bearer = [s \in Sockets |-> "none"]
-----------------------------------------------------------------------------
(* The login command. *)

Over == {"idle", "failed", "done"}
Listening(l) == stage[l] \notin Over      \* the listener lives with the process

\* The port is bound first; a fixed one may be taken.
Begin(l, p) ==
  /\ stage[l] = "idle"
  /\ via' = [via EXCEPT ![l] = p]
  /\ stage' = [stage EXCEPT ![l] =
                 IF fixed /\ \E k \in Logins : Listening(k) THEN "failed" ELSE "waiting"]
  /\ UNCHANGED <<hub, provider, fixed, time, tabs, exchange, landed, connections,
                 credentials>>

\* The user signs in on the provider's page: a code is issued, and the browser
\* is sent to the redirect URI.  The page stays usable when the login is over.
Authorize(l) ==
  /\ stage[l] # "idle" /\ l \notin codes \cup tabs
  /\ \A k \in Logins : landed[k] # l
  /\ codes' = codes \cup {l}
  /\ tabs' = tabs \cup {l}
  /\ UNCHANGED <<hub, provider, fixed, time, stage, via, landed, reply, expiry,
                 signed, connections, credentials>>

\* Who listens where the tab of c calls back.
Reached(c, l) == Listening(l) /\ (fixed \/ l = c)

\* Fault: the state that came back is not compared.
AnyCallBack(c, l) ==
  /\ c \in tabs /\ Reached(c, l) /\ stage[l] = "waiting"
  /\ tabs' = tabs \ {c}
  /\ stage' = [stage EXCEPT ![l] = "exchanging"]
  /\ landed' = [landed EXCEPT ![l] = c]
  /\ UNCHANGED <<hub, provider, fixed, time, via, exchange, connections, credentials>>

\* The first callback is taken.  A state that came back is compared, a missing
\* one is not.
CallBack(c, l) ==
  /\ c \in tabs /\ Reached(c, l)
  /\ tabs' = tabs \ {c}
  /\ IF stage[l] # "waiting"
     THEN UNCHANGED <<stage, landed>>
     ELSE IF echoes /\ c # l
          THEN stage' = [stage EXCEPT ![l] = "failed"] /\ UNCHANGED landed
          ELSE /\ stage' = [stage EXCEPT ![l] = "exchanging"]
               /\ landed' = [landed EXCEPT ![l] = c]
  /\ UNCHANGED <<hub, provider, fixed, time, via, exchange, connections, credentials>>

\* Nobody listens any more: the browser shows an error.
CallBackLost(c) ==
  /\ c \in tabs /\ \A l \in Logins : ~Reached(c, l)
  /\ tabs' = tabs \ {c}
  /\ UNCHANGED <<hub, provider, fixed, time, stage, via, landed, exchange,
                 connections, credentials>>

Fail(l) ==
  /\ stage' = [stage EXCEPT ![l] = "failed"]
  /\ UNCHANGED <<hub, provider, fixed, time, via, tabs, landed, exchange, connections>>

\* 180 seconds without a callback, an error from the provider's page, or the
\* user stops the command.
GiveUp(l) == stage[l] = "waiting" /\ Fail(l) /\ UNCHANGED credentials

\* PKCE: each login has a verifier of its own, and the challenge made of it
\* goes with its authorize URL.
Verified(c, l) == c = l

\* The token endpoint removes the code before it checks anything.
Redeem(l) ==
  LET c == landed[l]
      grants == c \in codes /\ via[c] = "oidc" /\ Verified(c, l) IN
  /\ stage[l] = "exchanging" /\ reply[l] = "none" /\ via[l] = "oidc"
  /\ codes' = IF via[c] = "oidc" THEN codes \ {c} ELSE codes
  /\ reply' = [reply EXCEPT ![l] = IF grants THEN "token" ELSE "error"]
  /\ expiry' = IF grants THEN [expiry EXCEPT ![c] = time + Life] ELSE expiry
  /\ signed' = IF grants THEN [signed EXCEPT ![c] = key] ELSE signed
  /\ UNCHANGED <<hub, provider, fixed, time, stage, via, tabs, landed,
                 connections, credentials>>

\* WeCom: the hub gets the user of the code (which uses the code up) and signs
\* a token with its own secret.  It ignores the state; there is no verifier.
\* gettoken may fail before the code was used.
ExchangeByHub(l) ==
  LET c == landed[l]
      grants == c \in codes /\ via[c] = "wecom" IN
  /\ stage[l] = "exchanging" /\ reply[l] = "none" /\ via[l] = "wecom"
  /\ \/ /\ codes' = IF via[c] = "wecom" THEN codes \ {c} ELSE codes
        /\ reply' = [reply EXCEPT ![l] = IF grants THEN "token" ELSE "error"]
        /\ expiry' = IF grants THEN [expiry EXCEPT ![c] = time + Life] ELSE expiry
        /\ signed' = IF grants THEN [signed EXCEPT ![c] = Secret] ELSE signed
     \/ reply' = [reply EXCEPT ![l] = "error"] /\ UNCHANGED <<codes, expiry, signed>>
  /\ UNCHANGED <<hub, provider, fixed, time, stage, via, tabs, landed,
                 connections, credentials>>

\* The answer arrives, or is an error, or is lost with the connection.
TakeToken(l) ==
  /\ stage[l] = "exchanging" /\ reply[l] = "token"
  /\ stage' = [stage EXCEPT ![l] = "saving"]
  /\ UNCHANGED <<hub, provider, fixed, time, via, tabs, landed, exchange,
                 connections, credentials>>

ExchangeFails(l) ==
  /\ stage[l] = "exchanging" /\ reply[l] # "none"
  /\ Fail(l) /\ UNCHANGED credentials

\* finish_login: the save decides what the user is told.
Save(l) ==
  /\ stage[l] = "saving"
  /\ OpenTmp(l) \/ WriteTmp(l) \/ Rename(l) \/ SaveFails(l)
  /\ stage' = [stage EXCEPT ![l] = CASE save'[l] = "saved" -> "done"
                                     [] save'[l] = "failed" -> "failed"
                                     [] OTHER -> "saving"]
  /\ UNCHANGED <<hub, provider, fixed, time, via, tabs, landed, exchange, connections>>

Logout ==
  /\ Delete
  /\ UNCHANGED <<hub, provider, fixed, time, stage, via, tabs, landed, exchange,
                 connections>>
-----------------------------------------------------------------------------
(* The gate of the hub. *)

\* Fault: the key the token names is not looked up.
FirstKey(t) == loaded[1]

\* decode_oidc: the key the token names, or the first one when it names none
\* or one the hub does not hold.
KeyFor(t) ==
  IF kids /\ \E i \in 1..Len(loaded) : loaded[i] = signed[t]
  THEN signed[t] ELSE loaded[1]

\* authenticate: the bearer is a token or "none".
Verdict(t) ==
  CASE gate = "dev" -> "admitted"
    [] gate # "dev" /\ t = "none" -> "refused"
    [] gate = "static" /\ t # "none" ->
         IF signed[t] = Secret /\ time <= expiry[t] THEN "admitted" ELSE "refused"
    [] gate = "oidc" /\ t # "none" ->
         IF loaded # <<>> /\ KeyFor(t) = signed[t] /\ time <= expiry[t]
         THEN "admitted" ELSE "refused"

Subject(t) == IF gate = "dev" THEN DevUser ELSE t

\* The allow list is looked at last, in every mode.
Gate(t) == IF Verdict(t) = "admitted" /\ Subject(t) \notin Enrolled
           THEN "unlinked" ELSE Verdict(t)

\* resolve_bearer: a token the user got by some login and gives with --bearer or
\* ATLAS_HUB_BEARER, or else the one in the file; an unreadable file ends the
\* command.  Nothing looks at expires_at.
Bearers ==
  {landed[l] : l \in {k \in Logins : stage[k] \in {"saving", "done"}}}
  \cup (IF Stored = "unreadable" THEN {}
        ELSE {IF Stored = "none" THEN "none" ELSE landed[Stored]})

\* The bearer goes with the upgrade request.
Upgrade(s) ==
  /\ socket[s] = "closed"
  /\ socket' = [socket EXCEPT ![s] = "upgraded"]
  /\ \E t \in Bearers : bearer' = [bearer EXCEPT ![s] = t]
  /\ UNCHANGED <<hub, provider, fixed, time, stage, via, tabs, landed, exchange,
                 credentials>>

\* The gate is asked at the hello only; after a refusal the same connection
\* may try again.  An admitted one stays so when its token expires.
Hello(s) ==
  /\ socket[s] \in {"upgraded", "refused", "unlinked"}
  /\ socket' = [socket EXCEPT ![s] = Gate(bearer[s])]
  /\ UNCHANGED <<hub, provider, fixed, time, stage, via, tabs, landed, exchange,
                 bearer, credentials>>

Disconnect(s) ==
  /\ socket[s] # "closed"
  /\ socket' = [socket EXCEPT ![s] = "closed"]
  /\ UNCHANGED <<hub, provider, fixed, time, stage, via, tabs, landed, exchange,
                 bearer, credentials>>

\* AuthConfig::from_env: the keys are read when the hub starts and never again.
HubRestarts ==
  /\ loaded' \in KeysRead
  /\ socket' = [s \in Sockets |-> "closed"]
  /\ UNCHANGED <<gate, provider, fixed, time, stage, via, tabs, landed, exchange,
                 bearer, credentials>>

Rotate ==
  /\ key < MaxKey
  /\ key' = key + 1
  /\ UNCHANGED <<hub, echoes, kids, fixed, time, stage, via, tabs, landed,
                 exchange, connections, credentials>>

Pass ==
  /\ time < MaxTime
  /\ time' = time + 1
  /\ UNCHANGED <<hub, provider, fixed, stage, via, tabs, landed, exchange,
                 connections, credentials>>

SignInNext ==
  \/ \E l \in Logins :
       \/ \E p \in Providers : Begin(l, p)
       \/ \E c \in Logins : CallBack(c, l)
       \/ Authorize(l) \/ CallBackLost(l) \/ GiveUp(l) \/ Redeem(l)
       \/ ExchangeByHub(l) \/ TakeToken(l) \/ ExchangeFails(l) \/ Save(l)
  \/ \E s \in Sockets : Upgrade(s) \/ Hello(s) \/ Disconnect(s)
  \/ Logout \/ HubRestarts \/ Rotate \/ Pass

SignInSpec == SignInInit /\ [][SignInNext]_signIn
-----------------------------------------------------------------------------
SignInTypeOK ==
  /\ CredentialsTypeOK
  /\ stage \in [Logins -> Over \cup {"waiting", "exchanging", "saving"}]
  /\ tabs \subseteq Logins /\ codes \subseteq Logins
  /\ landed \in [Logins -> Logins \cup {Nothing}]
  /\ reply \in [Logins -> {"none", "token", "error"}]
  /\ expiry \in [Logins -> 0..(MaxTime + Life)]
  /\ socket \in [Sockets -> {"closed", "upgraded", "admitted", "refused", "unlinked"}]
  /\ bearer \in [Sockets -> Logins \cup {"none"}]

\* A login stores the sign-in its own page was used for, even where an older
\* tab calls back to its port: the state keeps a strange code out, and for
\* OIDC the verifier does when the provider lost the state.  WeCom has only
\* the state, and the client lets a missing one pass.
StoredIsOwn ==
  \A l \in Logins : stage[l] \in {"saving", "done"} =>
    landed[l] = l \/ (via[l] = "wecom" /\ via[landed[l]] = "wecom" /\ fixed /\ ~echoes)

\* The whole way: who was last told "login ok" is admitted at the next hello
\* with what the file holds, until the token expires, if the provider is the
\* one the hub trusts and the subject is enrolled.  An OIDC hub must have got
\* its keys, and the token's key must be the one the provider had when they were
\* published or, if the provider names its keys, the one before.
SignInIsAdmitted ==
  \A l \in Logins :
    LET t == landed[l] IN
    /\ newest = l /\ ~overlapped /\ t \in Enrolled /\ time <= expiry[t]
    /\ \/ gate = "static" /\ via[l] = "wecom"
       \/ /\ gate = "oidc" /\ via[l] = "oidc" /\ loaded # <<>>
          /\ signed[t] \in {loaded[1]} \cup
                (IF kids /\ loaded[1] > 0 THEN {loaded[1] - 1} ELSE {})
    => Gate(landed[Stored]) = "admitted"
=============================================================================
