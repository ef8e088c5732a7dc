------------------------------ MODULE MCRunPull ------------------------------
(***************************************************************************)
(* The lock and the directories of a pull (RunPull), and the destinations  *)
(* and the keys of what leaves the machine (Gateway).  They share no       *)
(* state, so each behaviour moves one of them and the other stays where it *)
(* began.  Of Gateway's, a live command and a sync command have only the   *)
(* config in common, which both only read: each has behaviours of its own, *)
(* the one beside one setup, the other beside two.                         *)
(*                                                                         *)
(* Three sessions of a pull, of which one may have been killed long ago,   *)
(* are interchangeable.                                                    *)
(***************************************************************************)
EXTENDS RunPull, Gateway, TLC

CONSTANTS p1, p2, p3, s1, s2, l1, y1

PullSymmetry == Permutations(Pulls)

MCHosts == {"gate", "other", "orcarouter", "stub", "zen",
            "api.anthropic.com", "api.openai.com", "chatgpt.com"}
\* A gateway, one that takes its key in the URL, and the one orca suggests.
Gate == Url("gate", "plain")
Other == Url("other", "query")
MCOrcaRouter == Url("orcarouter", "plain")

Ask(url, key, models) == [url |-> url, key |-> key, models |-> models, exported |-> TRUE]
MCAsked == {Ask(Gate, "stored", TRUE), Ask(Other, "var", FALSE), Ask(None, "stored", FALSE),
            Ask(Url("gate", "bare"), None, FALSE)}

Tell(anthropic, openai, model) ==
  [anthropic |-> anthropic, openai |-> openai, model |-> model, exported |-> TRUE]
MCTold ==
  {Tell(a, o, m) : a \in {None, Blank, Gate}, o \in {None, Blank, Url("stub", "userinfo")},
                   m \in {None, "claude", "gpt"}}
    \union {Tell(Url("stub", "bare"), None, None), [Tell(None, None, None) EXCEPT !.exported = FALSE]}

MCPointed ==
  {[flag |-> f, env |-> e, key |-> k, exported |-> TRUE] :
     f \in {None, Gate, Other, Url("gate", "bare")}, e \in {None, Blank, Gate}, k \in BOOLEAN}

MCCalls ==
  {[client |-> d, kind |-> k, announced |-> a] :
     d \in Dialects, k \in {"model", "retrieval", "opaque"},
     a \in {None, Url("zen", "plain"), Url("zen", "query")}}

\* Nothing yet, and two files of versions that did not note where the URL came from.
Older(url, typed, kind) ==
  [gateway |-> [url |-> url, source |-> "absent", typed |-> typed, key |-> [kind |-> kind, home |-> url.host]],
   models |-> None]
MCFirstConfigs == {NoConfig, Older(MCOrcaRouter, FALSE, "stored"), Older(Other, TRUE, "var")}

VARIABLE part    \* which of them this behaviour is about

sharedVars == <<part, pullVars, gatewayVars>>

SharedInit ==
  /\ part \in {"pull", "live", "sync"}
  /\ PullInit /\ GatewayInit
  /\ part = "pull" \/ (lock = NoOne /\ ~ There("dest"))
  /\ part \in {"live", "sync"} \/ config = NoConfig

Started(invocations) == \E p \in invocations : doing'[p] # "start"

SharedNext ==
  /\ UNCHANGED part
  /\ \/ part = "pull" /\ PullNext /\ UNCHANGED gatewayVars
     \/ part = "live" /\ GatewayNext /\ ~ Started(Syncs \union {s2}) /\ UNCHANGED pullVars
     \/ part = "sync" /\ GatewayNext /\ ~ Started(Lives) /\ UNCHANGED pullVars

SharedSpec == SharedInit /\ [][SharedNext]_sharedVars
=============================================================================
