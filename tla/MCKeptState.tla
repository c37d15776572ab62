----------------------------- MODULE MCKeptState -----------------------------
(* Small instances, for TLC, of what is kept from one request to the next: the *)
(* attachments and links of a gateway, and the tokens and keys of signing in.  *)
EXTENDS GatewayStores, SignIn, TLC
CONSTANTS u1, u2, r1, m1, m2, v1, l1, l2, s1

\* A behaviour of the instance is one of the attachments, of the links or of
\* signing in: the first two share a clock and a crash, the third nothing.  A
\* connection, which changes nothing a login looks at, is open between logins only.
NoFiles == \A u \in Files : call[u] = "idle"
NoLinks == \A m \in Mints : mint[m] = "idle"
BetweenLogins == \A l \in Logins : ~ Listening(l)

NoLogin == \A l \in Logins : stage[l] = "idle"

KeptInit == Init /\ SignInInit

KeptSpec ==
  /\ KeptInit
  /\ [][\/ Next /\ (NoFiles \/ NoLinks)' /\ UNCHANGED signIn
              /\ NoLogin /\ gate = "dev" /\ ~ fixed /\ echoes /\ kids
              /\ time = 0 /\ key = 0 /\ socket = [s \in Sockets |-> "closed"]
        \/ SignInNext /\ (BetweenLogins \/ socket = [s \in Sockets |-> "closed"])'
              /\ UNCHANGED vars /\ mode = "memory" /\ ~ proxy
              /\ NoFiles /\ NoLinks /\ up /\ epoch = 0 /\ now = 0
     ]_<<vars, signIn>>
=============================================================================
