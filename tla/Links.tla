------------------------------- MODULE Links -------------------------------
(***************************************************************************)
(* How cards meet the world outside the store: the plugins called for an   *)
(* event, the sweep that closes cards whose pull request has merged, and   *)
(* the poller of CI verdicts.  They share no state: each is explored with  *)
(* the others at rest.                                                     *)
(***************************************************************************)
EXTENDS PrSweep, Integers, FiniteSets

CONSTANTS Repos, Pollers, Names, Priorities, CiChanges, CiFaults

ASSUME PluginAssumption ==
    Names \subseteq Nat \ {0} /\ IsFiniteSet(Names) /\ Priorities \subseteq Int

VARIABLES part
VARIABLES priority, critical, bounded, chain, main, worker, event, saw
VARIABLES truth, file, tmp, poller, changes, pollFaults

Plugins == INSTANCE HookPlugins
Ci == INSTANCE CiWatch WITH
    MaxChanges <- CiChanges, MaxFaults <- CiFaults, faults <- pollFaults

pluginVars == <<priority, critical, bounded, chain, main, worker, event, saw>>
ciVars == <<truth, file, tmp, poller, changes, pollFaults>>
linkVars == <<part, pluginVars, vars, ciVars>>

Dispatches == part = "plugins" /\ UNCHANGED <<part, vars, ciVars>>
Sweeps == part = "prs" /\ UNCHANGED <<part, pluginVars, ciVars>>
Polls == part = "ci" /\ UNCHANGED <<part, pluginVars, vars>>

LinkInit ==
    /\ part \in {"plugins", "prs", "ci"}
    /\ Plugins!Init /\ Init /\ Ci!Init

LinkNext ==
    \/ Dispatches /\ Plugins!Next
    \/ Sweeps /\ Next
    \/ Polls /\ Ci!Next

(* The fairness of the specifications. *)
LinkFair ==
    /\ WF_linkVars(Dispatches /\ Plugins!Dispatcher)
    /\ \A s \in Sweepers : WF_linkVars(Sweeps /\ Sweep(s))
    /\ \A p \in Pollers : WF_linkVars(Polls /\ Ci!Sweep(p))

LinkSpec == LinkInit /\ [][LinkNext]_linkVars /\ LinkFair

(* The properties of the parts; what they say is said there. *)
LinkTypeOK == TypeOK /\ Plugins!TypeOK /\ Ci!TypeOK
CriticalComesFirst == Plugins!CriticalComesFirst
VerdictCatchesUp == part = "ci" => Ci!VerdictCatchesUp
=============================================================================
