------------------------------- MODULE Gateway -------------------------------
(***************************************************************************)
(* Where orca sends what it is given, and which key goes along.            *)
(*                                                                         *)
(* `orca setup` keeps a gateway and its key in one file for the user       *)
(* (packages/cli/src/config.ts, commands/setup.ts).  Every command that    *)
(* goes live reads it and turns it into an upstream plan (upstream.ts),    *)
(* the proxy picks an origin for each call (proxy/src/server.ts,           *)
(* forward.ts), and push, pull and list pick one of their own              *)
(* (commands/sync.ts, resolveGateway).                                     *)
(*                                                                         *)
(* The file has no lock: setups run beside each other and beside the       *)
(* commands that read it, and any of them may be killed between two steps. *)
(* A URL is a host and the form it was typed in, since a credential may    *)
(* ride in it.                                                             *)
(***************************************************************************)
EXTENDS FiniteSets

CONSTANTS
  Setups,     \* invocations of orca setup
  Lives,      \* commands whose agent makes live calls: record, attach, a fork, replay --loose
  Syncs,      \* invocations of push, pull, list and models
  Hosts,      \* the hosts a URL can name
  Asked,      \* bound: what a setup is given
  Told,       \* bound: the upstreams and the model a live command is given
  Pointed,    \* bound: what a sync command is given
  Calls,      \* bound: the calls an agent makes
  FirstConfigs, \* what may be in the file, an older version's too
  OrcaRouter, \* ORCAROUTER_URL
  None,       \* nothing given
  Blank       \* given, and empty: an exported variable without a value

VARIABLES
  config,     \* what readConfig finds in the file
  staging,    \* the file each writer fills beside it
  doing,      \* how far an invocation has come
  given,      \* what it was invoked with
  read,       \* the config it read
  plan,       \* the destination and the key it settled on
  wire,       \* history: the requests that left
  written     \* history: the URLs rendered into a trace, an answer or a terminal

gatewayVars == <<config, staging, doing, given, read, plan, wire, written>>

Invocations == Setups \union Lives \union Syncs

-----------------------------------------------------------------------------
(* URLs. *)

Forms == {"plain", "userinfo", "query", "bare"}
Url(host, form) == [host |-> host, form |-> form]
Urls == [host : Hosts, form : Forms]

IsGiven(u) == u \notin {None, Blank}
\* a ?? b, in which an empty string is given.
Else(a, b) == IF a # None THEN a ELSE b

\* unusableOrigin: without a scheme the user name parses as one.
Unusable(u) == u.form = "bare"
\* new URL(u).origin
OriginOf(u) == IF Unusable(u) THEN "null" ELSE u.host
SameOrigin(u, v) == OriginOf(u) = OriginOf(v)

\* Fault: an exchange names its origin as it was configured.
Verbatim(u) == u
\* recordableOrigin, and withoutCredentials over prose that quotes the URL:
\* userinfo and query come out, and with no scheme there is no telling where.
Recordable(u) == IF Unusable(u) THEN u ELSE Url(u.host, "plain")
\* scrubOrigin keeps what a host and a port are made of, whatever it was given.
ScrubbedOrigin(u) == Url(u.host, "plain")

-----------------------------------------------------------------------------
(* The file. *)

Keys == [kind : {"stored", "var"}, home : Hosts \union {"null"}]
GatewayConfigs ==
  [url : Urls, source : {"named", "default", "absent"}, typed : BOOLEAN, key : Keys \union {None}]
Configs == [gateway : GatewayConfigs \union {None}, models : Setups \union {None}]
NoConfig == [gateway |-> None, models |-> None]

\* gatewayHeaders: the stored key, or the variable's value if it is exported.
KeyOf(gateway, exported) ==
  IF gateway = None THEN None
  ELSE IF gateway.key # None /\ gateway.key.kind = "var" /\ ~ exported THEN None
  ELSE gateway.key

\* What setup makes of what it was given: the key wins over the name of one.
\* "typed" is not in the file: only url_source can tell, if the file has one.
UrlOf(g) == IF IsGiven(g.url) THEN g.url ELSE OrcaRouter
SourceOf(g) == IF IsGiven(g.url) THEN "named" ELSE "default"
MeantBy(g) ==
  [url |-> UrlOf(g), source |-> SourceOf(g), typed |-> IsGiven(g.url),
   key |-> IF g.key # None THEN [kind |-> g.key, home |-> OriginOf(UrlOf(g))] ELSE None]

\* Fault: one staging file for all who write the config.
OneStaging(s) == CHOOSE t \in Setups : TRUE
\* A name of its own for each writer: randomBytes(6).
StagingOf(s) == s

\* namedPushDestination: a run goes by default only where the user typed.
DefaultIsNamed(gateway) == IF gateway = None THEN None ELSE gateway.url
NamedPushDestination(gateway) ==
  IF gateway = None \/ gateway.source = "default" THEN None
  ELSE IF gateway.source = "named" \/ ~ SameOrigin(gateway.url, OrcaRouter) THEN gateway.url
  ELSE None

-----------------------------------------------------------------------------
(* The network.  undici refuses a URL with credentials in it, or without a  *)
(* scheme, and says so quoting it; fetchPinned refuses to follow a redirect. *)

Reachable(u) == u.form \in {"plain", "query"}
\* Fault: fetch() goes where a Location points.
Followed(u, answer) == IF answer = "redirect" THEN {u.host, "elsewhere"} ELSE {u.host}
Reached(u, answer) == {u.host}

Request(p, c, u, key, answer) ==
  {[by |-> p, call |-> c, to |-> h, key |-> key] :
     h \in IF Reachable(u) THEN Reached(u, answer) ELSE {}}
Answered(u, answer) == Reachable(u) /\ answer = "ok"

Leaves(requests) == wire' = wire \union requests
Says(urls) == written' = written \union urls

Moves(p, step) == doing' = [doing EXCEPT ![p] = step]
FileAlone == UNCHANGED <<config, staging>>
QuietlyMoves(p, step) == Moves(p, step) /\ UNCHANGED <<wire, written>>

-----------------------------------------------------------------------------
(* orca setup. *)

\* Refused before it is stored or echoed.
SetupBegins(s) ==
  /\ doing[s] = "start"
  /\ \E g \in Asked :
       /\ given' = [given EXCEPT ![s] = g]
       /\ QuietlyMoves(s, IF Unusable(UrlOf(g)) THEN "refused" ELSE "read")
  /\ UNCHANGED <<read, plan>> /\ FileAlone

SetupReads(s) ==
  /\ doing[s] = "read"
  /\ read' = [read EXCEPT ![s] = [gateway |-> MeantBy(given[s]), models |-> config.models]]
  /\ QuietlyMoves(s, "stage")
  /\ UNCHANGED <<given, plan>> /\ FileAlone

\* writeConfig: an empty file, narrowed to its owner; then its contents; then a rename.
OpenStaging(s) ==
  /\ doing[s] = "stage"
  /\ staging' = [staging EXCEPT ![StagingOf(s)] = NoConfig]
  /\ QuietlyMoves(s, "fill")
  /\ UNCHANGED <<config, given, read, plan>>

FillStaging(s) ==
  /\ doing[s] = "fill"
  /\ staging' = [staging EXCEPT ![StagingOf(s)] = read[s]]
  /\ QuietlyMoves(s, "install")
  /\ UNCHANGED <<config, given, read, plan>>

\* The first write is followed by a probe of the gateway, the second ends it.
InstallConfig(s) ==
  /\ doing[s] = "install"
  /\ staging[StagingOf(s)] # None
  /\ config' = staging[StagingOf(s)]
  /\ staging' = [staging EXCEPT ![StagingOf(s)] = None]
  /\ Moves(s, IF read[s].models = s THEN "done" ELSE "probe")
  /\ Says({Recordable(read[s].gateway.url)})
  /\ UNCHANGED <<given, read, plan, wire>>

\* restrictToOwner, a write or the rename fails: the staging file goes, the config stays.
WriteConfigFails(s) ==
  /\ doing[s] \in {"fill", "install"}
  /\ staging' = [staging EXCEPT ![StagingOf(s)] = None]
  /\ QuietlyMoves(s, "failed")
  /\ UNCHANGED <<config, given, read, plan>>

\* GET /v1/models; the models chosen from the answer are written with what setup
\* has in memory, whatever another setup has written since.
ProbeModels(s) ==
  LET gateway == read[s].gateway IN
  /\ doing[s] = "probe"
  /\ \E answer \in {"ok", "error", "redirect"} :
       LET chooses == Answered(gateway.url, answer) /\ given[s].models IN
       /\ Leaves(Request(s, None, gateway.url, KeyOf(gateway, given[s].exported), answer))
       /\ Says(IF Answered(gateway.url, answer) THEN {} ELSE {Recordable(gateway.url)})
       /\ read' = IF chooses THEN [read EXCEPT ![s].models = s] ELSE read
       /\ Moves(s, IF chooses THEN "stage" ELSE "done")
  /\ UNCHANGED <<given, plan>> /\ FileAlone

SetupDies(s) ==
  /\ doing[s] \in {"stage", "fill", "install", "probe"}
  /\ QuietlyMoves(s, "dead")
  /\ UNCHANGED <<given, read, plan>> /\ FileAlone

-----------------------------------------------------------------------------
(* The upstream plan of a live command. *)

Dialects == {"anthropic", "openai", "openai-responses", "codex"}
Vendor ==
  [d \in Dialects |-> CASE d = "anthropic" -> "api.anthropic.com"
                        [] d = "codex" -> "chatgpt.com"
                        [] OTHER -> "api.openai.com"]

\* resolveUpstream: the flag, the environment, then the gateway; one provider
\* may be two dialects, and an empty value leaves the provider to its vendor.
Upstream(g, gatewayUrl) ==
  [d \in Dialects |->
     LET u == CASE d = "anthropic" -> Else(g.anthropic, gatewayUrl)
                [] d = "codex" -> None
                [] OTHER -> Else(g.openai, gatewayUrl)
     IN IF IsGiven(u) THEN u ELSE None]
\* Fault: --upstream-openai names a wire format.
UpstreamOfFormat(g, gatewayUrl) ==
  [d \in Dialects |->
     LET u == CASE d = "anthropic" -> Else(g.anthropic, gatewayUrl)
                [] d = "openai" -> Else(g.openai, gatewayUrl)
                [] OTHER -> None
     IN IF IsGiven(u) THEN u ELSE None]
Resolved(g, gatewayUrl) == Upstream(g, gatewayUrl)

Origins(upstream) == {upstream[d] : d \in Dialects} \ {None}

\* Unanimity, not some.
GoesToGateway(upstream, gateway) ==
  /\ gateway # None /\ Origins(upstream) # {}
  /\ \A u \in Origins(upstream) : SameOrigin(u, gateway.url)

\* upstreamPlan reads the config once for the key, resolveUpstream again for the URL.
LiveReads(r) ==
  /\ doing[r] = "start"
  /\ \E g \in Told : given' = [given EXCEPT ![r] = g]
  /\ read' = [read EXCEPT ![r] = config]
  /\ QuietlyMoves(r, "plan")
  /\ UNCHANGED plan /\ FileAlone

UpstreamPlan(r) ==
  LET gateway == read[r].gateway
      upstream == Resolved(given[r], IF config.gateway = None THEN None ELSE config.gateway.url)
      there == GoesToGateway(upstream, gateway)
  IN
  /\ doing[r] = "plan"
  /\ plan' = [plan EXCEPT ![r] =
       [upstream |-> upstream,
        key |-> IF there THEN KeyOf(gateway, given[r].exported) ELSE None,
        home |-> IF there THEN gateway.url ELSE None]]
  /\ QuietlyMoves(r, IF \E u \in Origins(upstream) : Unusable(u) THEN "refused" ELSE "live")
  /\ UNCHANGED <<given, read>> /\ FileAlone

-----------------------------------------------------------------------------
(* The proxy: where one call goes.  A call is the dialect its client speaks, *)
(* what it is to orca (a model call, a retrieval call, or a body it cannot   *)
(* read), and the base URL its /forward/ path announces, if it has one.      *)

\* decodeForwardPath: with credentials, a query or no scheme it is not one of
\* ours, and its path is then no dialect's.
Forwarded(c) == IF c.announced # None /\ c.announced.form = "plain" THEN c.announced ELSE None
KindOf(c) == IF c.announced # None /\ Forwarded(c) = None THEN "opaque" ELSE c.kind

\* The dialect that serves the model asked for: the client's own if it can.
Owned == [d \in Dialects |-> IF d = "anthropic" THEN {"claude"} ELSE IF d = "codex" THEN {} ELSE {"gpt"}]
TargetOf(d, model) ==
  IF model = None \/ model \in Owned[d] THEN d
  ELSE IF model = "claude" THEN "anthropic" ELSE "openai"

\* goLive
ModelOrigin(r, c) ==
  LET target == TargetOf(c.client, given[r].model)
      up == plan[r].upstream
  IN IF given[r].model = None /\ Forwarded(c) # None THEN Forwarded(c)
     ELSE Else(up[target], Else(up[c.client], Url(Vendor[target], "plain")))

\* passthroughOrigin; a retrieval call is forwarded verbatim, fork or no fork.
\* Anthropic's client is the one that announces itself.
PassthroughOrigin(r, c) ==
  LET family == IF c.client = "anthropic" THEN "anthropic" ELSE "openai"
      configured == Origins(plan[r].upstream)
  IN IF Forwarded(c) # None /\ (KindOf(c) = "retrieval" \/ given[r].model = None) THEN Forwarded(c)
     ELSE IF Cardinality(configured) = 1 THEN CHOOSE u \in configured : TRUE
     ELSE Else(plan[r].upstream[family], Url(Vendor[family], "plain"))

CallOrigin(r, c) == IF KindOf(c) = "model" THEN ModelOrigin(r, c) ELSE PassthroughOrigin(r, c)

\* Fault: the gateway's headers are put on every live call.
HeadersEverywhere(r, u) == plan[r].key
HeadersForOrigin(r, u) ==
  IF plan[r].home # None /\ SameOrigin(u, plan[r].home) THEN plan[r].key ELSE None

\* What a forwarded call leaves behind: its origin in the exchange or the pair
\* of network events, and if it failed the reason, in the trace and the answer.
Traces(u) == {Recordable(u)}
Reasons(u) == {ScrubbedOrigin(u)}

CallGoesLive(r) ==
  /\ doing[r] = "live"
  /\ \E c \in Calls : \E answer \in {"ok", "error", "redirect"} :
       LET u == CallOrigin(r, c) IN
       /\ Leaves(Request(r, c, u, HeadersForOrigin(r, u), answer))
       /\ Says(Traces(u) \union IF Reachable(u) /\ answer # "redirect" THEN {} ELSE Reasons(u))
  /\ Moves(r, "done")
  /\ UNCHANGED <<given, read, plan>> /\ FileAlone

-----------------------------------------------------------------------------
(* push, pull, list and models. *)

\* Fault: without ORCA_GATEWAY_URL its home is the configured gateway.
EnvKeyAnywhere(g, u) == g.key /\ (IsGiven(g.env) => SameOrigin(u, g.env))
\* A key from the environment has a home of its own: ORCA_GATEWAY_URL, or with
\* none the host this very command line names.
EnvKeyApplies(g, u) ==
  g.key /\ IF IsGiven(g.env) THEN SameOrigin(u, g.env) ELSE g.flag # None

EnvKey(g) ==
  [kind |-> "exported",
   home |-> IF IsGiven(g.env) THEN OriginOf(g.env)
            ELSE IF g.flag # None THEN OriginOf(g.flag) ELSE "unknown"]

SyncKey(g, gateway, u) ==
  IF EnvKeyApplies(g, u) THEN EnvKey(g)
  ELSE IF gateway # None /\ SameOrigin(u, gateway.url) THEN KeyOf(gateway, g.exported)
  ELSE None

\* Refused, not attempted anonymously.
ResolveGateway(p) ==
  /\ doing[p] = "start"
  /\ \E g \in Pointed :
       LET gateway == config.gateway
           u == Else(g.flag, Else(g.env, NamedPushDestination(gateway)))
           key == IF IsGiven(u) THEN SyncKey(g, gateway, u) ELSE None
       IN /\ given' = [given EXCEPT ![p] = g]
          /\ plan' = [plan EXCEPT ![p] =
               [url |-> u, key |-> key,
                typed |-> IsGiven(g.flag) \/ IsGiven(g.env) \/ (gateway # None /\ gateway.typed)]]
          /\ Moves(p, IF key = None THEN "refused" ELSE "send")
          /\ Says(IF ~ IsGiven(u) /\ gateway # None THEN {Recordable(gateway.url)} ELSE {})
  /\ UNCHANGED <<read, wire>> /\ FileAlone

\* What a failed fetch says of the URL comes out in main.ts.  Nothing here asks whether the
\* URL is one: without a scheme it may be quoted as it was typed.
SyncSends(p) ==
  LET u == plan[p].url IN
  /\ doing[p] = "send"
  /\ \E answer \in {"ok", "error", "redirect"} :
       /\ Leaves(Request(p, None, u, plan[p].key, answer))
       /\ Says({Recordable(u)})
  /\ Moves(p, "done")
  /\ UNCHANGED <<given, read, plan>> /\ FileAlone

\* orca models asks the configured gateway, typed or not, which models it serves.
ModelsCommand(p) ==
  LET gateway == config.gateway IN
  /\ doing[p] = "start"
  /\ IF gateway = None \/ Unusable(gateway.url)
       THEN UNCHANGED <<wire, written>> /\ Moves(p, "refused")
       ELSE /\ \E answer \in {"ok", "error", "redirect"} :
                 /\ Leaves(Request(p, None, gateway.url, KeyOf(gateway, TRUE), answer))
                 /\ Says(IF Answered(gateway.url, answer) THEN {} ELSE {Recordable(gateway.url)})
            /\ Moves(p, "done")
  /\ UNCHANGED <<given, read, plan>> /\ FileAlone

-----------------------------------------------------------------------------
\* As setup leaves it: a URL it does not refuse, a key for that URL, and OrcaRouter
\* and nothing else where the user typed none.
AsSetupLeaves(gateway) ==
  /\ ~ Unusable(gateway.url)
  /\ gateway.key # None => gateway.key.home = OriginOf(gateway.url)
  /\ ~ gateway.typed => SameOrigin(gateway.url, OrcaRouter) /\ gateway.source # "named"

Typed == Urls \union {None, Blank}

ASSUME GatewayAssumption ==
  /\ None # Blank /\ {None, Blank} \intersect (Urls \union GatewayConfigs \union Pointed) = {}
  /\ Setups \intersect Lives = {} /\ Lives \intersect Syncs = {} /\ Syncs \intersect Setups = {}
  /\ None \notin Invocations
  /\ {Vendor[d] : d \in Dialects} \subseteq Hosts
  /\ OrcaRouter \in Urls /\ ~ Unusable(OrcaRouter)
  /\ Asked \subseteq [url : Typed, key : {"stored", "var", None}, models : BOOLEAN, exported : BOOLEAN]
  /\ Told \subseteq [anthropic : Typed, openai : Typed, model : {"claude", "gpt", None},
                     exported : BOOLEAN]
  /\ Pointed \subseteq [flag : Typed, env : Typed, key : BOOLEAN, exported : BOOLEAN]
  /\ Calls \subseteq [client : Dialects, kind : {"model", "retrieval", "opaque"},
                      announced : Urls \union {None}]
  /\ FirstConfigs \subseteq Configs
  /\ \A first \in FirstConfigs : first.gateway # None => AsSetupLeaves(first.gateway)

GatewayInit ==
  /\ config \in FirstConfigs
  /\ staging = [s \in Setups |-> None]
  /\ doing = [p \in Invocations |-> "start"]
  /\ given = [p \in Invocations |-> None]
  /\ read = [p \in Setups \union Lives |-> NoConfig]
  /\ plan = [p \in Lives \union Syncs |-> None]
  /\ wire = {} /\ written = {}

SetupStep(s) ==
  \/ SetupBegins(s) \/ SetupReads(s)
  \/ OpenStaging(s) \/ FillStaging(s) \/ InstallConfig(s) \/ WriteConfigFails(s)
  \/ ProbeModels(s) \/ SetupDies(s)

GatewayNext ==
  \/ \E s \in Setups : SetupStep(s)
  \/ \E r \in Lives : LiveReads(r) \/ UpstreamPlan(r) \/ CallGoesLive(r)
  \/ \E p \in Syncs : ResolveGateway(p) \/ SyncSends(p) \/ ModelsCommand(p)

GatewaySpec == GatewayInit /\ [][GatewayNext]_gatewayVars

-----------------------------------------------------------------------------
(* Properties. *)

Phases == {"start", "refused", "read", "stage", "fill", "install", "probe", "plan", "live",
           "send", "done", "failed", "dead"}
LivePlans ==
  [upstream : [Dialects -> Urls \union {None}], key : Keys \union {None}, home : Urls \union {None}]
SyncPlans ==
  [url : Typed, typed : BOOLEAN,
   key : [kind : {"stored", "var", "exported"}, home : Hosts \union {"null", "unknown"}] \union {None}]

GatewayTypeOK ==
  /\ config \in Configs
  /\ staging \in [Setups -> Configs \union {None}]
  /\ doing \in [Invocations -> Phases]
  /\ given \in [Invocations -> Asked \union Told \union Pointed \union {None}]
  /\ read \in [Setups \union Lives -> Configs]
  /\ plan \in [Lives \union Syncs -> LivePlans \union SyncPlans \union {None}]
  /\ \A u \in written : u \in Urls
  /\ \A q \in wire : q.by \in Invocations /\ q.to \in Hosts

\* A URL with nothing to sanitise, which a sync command was pointed at by flag or environment.
TypedToSync(u) ==
  Unusable(u) /\ \E p \in Syncs : given[p] # None /\ u \in {given[p].flag, given[p].env}

\* A gateway key reaches only the origin it was set up for: a key given to setup
\* the gateway given with it, an exported key the host exported or typed with it.
\* No setup beside the command, second reading of the file, announced
\* destination, empty variable or redirect takes it anywhere else.  And a key
\* that rides in a URL is sent and stored, never traced, answered or printed
\* ("nothing ever prints it back", packages/cli/src/config.ts), but for one: a URL
\* without a scheme that push, pull or list was itself given for this invocation is
\* quoted by the error of its fetch, and main.ts finds no credential in "gw?key=".
KeysStayHome ==
  /\ \A q \in wire : q.key # None => q.to = q.key.home
  /\ \A u \in written : u.form = "plain" \/ TypedToSync(u)

\* Setup reported the config saved, or went on to probe what it saved.
Saved(s) == doing[s] \in {"probe", "done"}

\* Where a client meant its call to go, when orca is not to change that: the base
\* it announced, or else the upstream the user gave for its provider.
Meant(r, c) ==
  LET told == IF c.client = "anthropic" THEN given[r].anthropic ELSE given[r].openai IN
  IF c.announced # None /\ c.announced.form = "plain" THEN {c.announced.host}
  ELSE IF c.kind = "model" /\ c.client # "codex" /\ c.announced = None /\ IsGiven(told) THEN {told.host}
  ELSE {u.host : u \in Origins(plan[r].upstream)} \union {Vendor[c.client], Vendor["openai"]}

\* What leaves goes where somebody named: a call where its client or the user
\* meant it, a fork's to a configured origin or a vendor, never to a vendor when
\* both providers have an origin; a run, and what is asked about one, only to a
\* host the user typed, and not without a key.  And a gateway that setup saved is
\* not lost to another setup, so that it keeps being what the commands read.
GoesWhereNamed ==
  /\ \A q \in wire : q.by \in Lives =>
       LET configured == {u.host : u \in Origins(plan[q.by].upstream)} IN
       IF given[q.by].model = None \/ KindOf(q.call) = "retrieval"
         THEN q.to \in Meant(q.by, q.call)
         ELSE q.to \in configured \/
              /\ q.to \in {Vendor[d] : d \in Dialects}
              /\ q.call.client # "codex" => \E d \in {"anthropic", "openai"} : plan[q.by].upstream[d] = None
  /\ \A q \in wire : q.by \in Syncs /\ plan[q.by] # None => plan[q.by].typed /\ q.key # None
  /\ (\E s \in Setups : Saved(s)) => config.gateway # None
=============================================================================
