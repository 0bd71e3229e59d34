------------------------------ MODULE MCHosts -------------------------------
(***************************************************************************)
(* Hosts with the people and the names of a small host.                    *)
(***************************************************************************)
EXTENDS Hosts, TLC

CONSTANTS a, b, c, ada, bob

TwoAgents == {ada, bob}
\* a's owner is ada, b's is bob with ada subscribed
Listeners == (a :> {ada}) @@ (b :> {ada, bob})
\* c is an alias of a
Canon == (a :> a) @@ (b :> b) @@ (c :> a)

\* A part at rest starts in one state.  Commits have a trailer for each card
\* and are on a branch of the first or of none.
SmallInit ==
    /\ HostInit
    /\ part # "wake" => \A i \in Ids : version[i] = 0
    /\ part # "migration" => \A i \in Ids : rows[i] = {}
    /\ part # "hub" => hostToken = 0
    /\ quoted \subseteq (IF part = "git" THEN {a} \X Shas ELSE {})
    /\ \A s \in Shas :
          /\ named[s].trailers = <<a, b>> /\ named[s].branch.slug # b
          /\ named[s].branch.type = "feat"
          /\ part # "git" => named[s].branch.slug = a

SmallSpec == SmallInit /\ [][HostNext]_hostVars
=============================================================================
