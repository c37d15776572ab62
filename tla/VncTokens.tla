----------------------------- MODULE VncTokens ------------------------------
(***************************************************************************)
(* Desktop links.  bot.vncDescriptor probes the configured VNC upstream and *)
(* answers a link with a fresh token if the upstream spoke RFB, otherwise  *)
(* the address of a stub page.  The page behind a link looks the token up. *)
(* The probe is awaited before the token map is locked, so mints overlap;  *)
(* expired tokens are dropped by the next mint and by nothing else.        *)
(***************************************************************************)
EXTENDS GatewayProcess, FiniteSets

CONSTANTS Mints,        \* calls of vncDescriptor; a token is named by its mint
          Viewers,      \* browsers that open /vnc/<token>/
          VncTtl        \* DEFAULT_VNC_TOKEN_TTL_MS

ASSUME VncAssumption == VncTtl \in Nat \ {0}

VARIABLES proxy,        \* proxy mode with an upstream configured
          mint,         \* where each mint is
          tokens,       \* vnc_tokens
          expires,      \* expires_at_ms of each token, expiresHint of its link
          minted,       \* the epoch each token was minted in
          page          \* the last page of each viewer: its token and status

vnc == <<proxy, mint, tokens, expires, minted, page>>

NoPage == [of |-> "none", status |-> 0]

VncInit ==
  /\ proxy \in BOOLEAN
  /\ mint = [m \in Mints |-> "idle"]
  /\ tokens = {}
  /\ expires = [m \in Mints |-> 0]
  /\ minted = [m \in Mints |-> 0]
  /\ page = [v \in Viewers |-> NoPage]
-----------------------------------------------------------------------------
\* Without proxy mode or without an upstream nothing is probed.
MintBegins(m) ==
  /\ up /\ mint[m] = "idle"
  /\ mint' = [mint EXCEPT ![m] = IF proxy THEN "probing" ELSE "unhealthy"]
  /\ UNCHANGED <<process, proxy, tokens, expires, minted, page>>

\* A connection and an RFB banner in time, or the probe fails.  The upstream
\* is another process, which comes and goes by itself.
Probe(m) ==
  /\ up /\ mint[m] = "probing"
  /\ \E found \in {"healthy", "unhealthy"} : mint' = [mint EXCEPT ![m] = found]
  /\ UNCHANGED <<process, proxy, tokens, expires, minted, page>>

Live(t) == expires[t] > now

\* Fault: the map keeps one link.
MintOnly(m) ==
  /\ up /\ mint[m] = "healthy"
  /\ mint' = [mint EXCEPT ![m] = "linked"]
  /\ tokens' = {m}
  /\ expires' = [expires EXCEPT ![m] = now + VncTtl]
  /\ minted' = [minted EXCEPT ![m] = epoch]
  /\ UNCHANGED <<process, proxy, page>>

\* Under the map's write lock: drop what has expired, insert the new token.
MintLink(m) ==
  /\ up /\ mint[m] = "healthy"
  /\ mint' = [mint EXCEPT ![m] = "linked"]
  /\ tokens' = {t \in tokens : Live(t)} \cup {m}
  /\ expires' = [expires EXCEPT ![m] = now + VncTtl]
  /\ minted' = [minted EXCEPT ![m] = epoch]
  /\ UNCHANGED <<process, proxy, page>>

\* Degrade to the stub page: no token, and none is dropped.
MintStub(m) ==
  /\ up /\ mint[m] = "unhealthy"
  /\ mint' = [mint EXCEPT ![m] = "stub"]
  /\ UNCHANGED <<process, proxy, tokens, expires, minted, page>>

\* lookup_vnc_token: found and live, found but expired, or not found.
Lookup(t) == IF t \notin tokens THEN 403 ELSE IF Live(t) THEN 200 ELSE 410

OpenPage(v, t) ==
  /\ up /\ mint[t] = "linked"
  /\ page' = [page EXCEPT ![v] = [of |-> t, status |-> Lookup(t)]]
  /\ UNCHANGED <<process, proxy, mint, tokens, expires, minted>>

\* The tokens live in memory; a mint under way dies with the process.
VncStop ==
  /\ mint' = [m \in Mints |->
                IF mint[m] \in {"probing", "healthy", "unhealthy"}
                THEN "lost" ELSE mint[m]]
  /\ tokens' = {}
  /\ UNCHANGED <<proxy, expires, minted, page>>

VncNext ==
  \/ \E m \in Mints : MintBegins(m) \/ Probe(m) \/ MintLink(m) \/ MintStub(m)
  \/ \E v \in Viewers, t \in Mints : OpenPage(v, t)
-----------------------------------------------------------------------------
VncTypeOK ==
  /\ proxy \in BOOLEAN
  /\ mint \in [Mints -> {"idle", "probing", "healthy", "unhealthy", "linked",
                         "stub", "lost"}]
  /\ tokens \subseteq Mints
  /\ expires \in [Mints -> 0..(MaxNow + VncTtl)]
  /\ minted \in [Mints -> 0..MaxEpoch]
  /\ page \in [Viewers -> [of : Mints \cup {"none"}, status : {0, 200, 403, 410}]]

\* A link is refused only for a reason its holder can be told: 410 says that
\* it has expired, 403 that it has expired and a later mint dropped it or
\* that the gateway was restarted; a later mint drops no link that is live.
RefusalHasCause ==
  \A v \in Viewers :
    LET t == page[v].of IN
    /\ page[v].status = 410 => ~Live(t)
    /\ page[v].status = 403 =>
         minted[t] < epoch \/ (~Live(t) /\ \E m \in Mints \ {t} :
                                 mint[m] = "linked" /\ expires[m] >= expires[t] + VncTtl)
=============================================================================
