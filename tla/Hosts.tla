------------------------------- MODULE Hosts --------------------------------
(***************************************************************************)
(* What runs beside the store on a host, or reaches it from another: the   *)
(* board server and the commands that stop it, the wake watcher, the       *)
(* migration, the users registry, the remote hub, the snapshots, the       *)
(* search index and the hooks of git.  No two of them share state, so a    *)
(* behaviour of the host is one of each side by side; each is explored on  *)
(* its own, with the others at rest.                                       *)
(***************************************************************************)
EXTENDS GitEvents

CONSTANTS
    Agents, Nobody,
    Pids, Terminals,
    Watchers, Recipients, MaxChanges, MaxTouches,
    Migrators, Texts, MigrationFaults,
    Users, Names, Canonical, Writers, Readers, MaxRegistrations,
    Calls, Hub, MaxTokens, HubFaults,
    Snappers, Sizes, Full, MaxStoreWrites, SnapshotFaults,
    Rebuilders, Lanes, MaxRowChanges, IndexFaults

ASSUME NobodyAssumption ==
    /\ Nobody \notin Agents \cup Pids \cup Watchers \cup Migrators \cup Users \cup Writers
    /\ Nobody \notin Rebuilders
ASSUME AgentsAssumption == IsFiniteSet(Agents) /\ Recipients \in [Ids -> SUBSET Agents]
ASSUME NamesAssumption == Canonical \in [Names -> Names]
ASSUME SizesAssumption == Sizes \subseteq Nat /\ Full \in Sizes
ASSUME HostBounds ==
    /\ {MaxTouches, MigrationFaults, MaxRegistrations, HubFaults} \subseteq Nat
    /\ {MaxStoreWrites, SnapshotFaults, Lanes, MaxRowChanges, IndexFaults} \subseteq Nat
    /\ {MaxChanges, MaxTokens} \subseteq Nat \ {0}

VARIABLES part
VARIABLES proc, manage, pidfile, term, raced
VARIABLES version, mtime, watcher, watch, cooling, told
VARIABLES rows, dir, readme, storeLock, mig, had, regrown, migFaults
VARIABLES file, stat, userLock, userProc, cached, reader, given
VARIABLES minted, hostToken, held, up, call, server, done, author, fresh, hubFaults
VARIABLES store, tree, staged, head, remote, jam, export, snapFaults
VARIABLES cards, clock, purged, index, rebuilder, rebuild, indexFaults

Board == INSTANCE BoardProcess
Wake == INSTANCE WakeWatcher WITH lock <- watcher
Mig == INSTANCE Migration WITH MaxFaults <- MigrationFaults, lock <- storeLock, faults <- migFaults
Reg == INSTANCE UserRegistry WITH
    None <- Nobody, MaxWrites <- MaxRegistrations, lock <- userLock, proc <- userProc
Rpc == INSTANCE HubRpc WITH MaxFaults <- HubFaults, file <- hostToken, faults <- hubFaults
Snap == INSTANCE Snapshot WITH
    Runs <- Snappers, MaxWrites <- MaxStoreWrites, MaxFaults <- SnapshotFaults,
    index <- staged, locked <- jam, run <- export, faults <- snapFaults
Search == INSTANCE SearchIndex WITH
    MaxChanges <- MaxRowChanges, MaxFaults <- IndexFaults,
    store <- cards, writer <- rebuilder, faults <- indexFaults

boardVars == <<proc, manage, pidfile, term, raced>>
wakeVars == <<version, mtime, watcher, watch, cooling, told>>
migVars == <<rows, dir, readme, storeLock, mig, had, regrown, migFaults>>
regVars == <<file, stat, userLock, userProc, cached, reader, given>>
rpcVars == <<minted, hostToken, held, up, call, server, done, author, fresh, hubFaults>>
snapVars == <<store, tree, staged, head, remote, jam, export, snapFaults>>
searchVars == <<cards, clock, purged, index, rebuilder, rebuild, indexFaults>>
hostVars == <<part, vars, boardVars, wakeVars, migVars, regVars, rpcVars, snapVars, searchVars>>

HostInit ==
    /\ part \in {"board", "wake", "migration", "users", "hub", "snapshot", "index", "git"}
    /\ Board!Init /\ Wake!Init /\ Mig!Init /\ Reg!Init /\ Rpc!Init /\ Snap!Init /\ Search!Init
    /\ Init

HostNext ==
    \/ /\ part = "board" /\ Board!Next
       /\ UNCHANGED <<part, vars, wakeVars, migVars, regVars, rpcVars, snapVars, searchVars>>
    \/ /\ part = "wake" /\ Wake!Next
       /\ UNCHANGED <<part, vars, boardVars, migVars, regVars, rpcVars, snapVars, searchVars>>
    \/ /\ part = "migration" /\ Mig!Next
       /\ UNCHANGED <<part, vars, boardVars, wakeVars, regVars, rpcVars, snapVars, searchVars>>
    \/ /\ part = "users" /\ Reg!Next
       /\ UNCHANGED <<part, vars, boardVars, wakeVars, migVars, rpcVars, snapVars, searchVars>>
    \/ /\ part = "hub" /\ Rpc!Next
       /\ UNCHANGED <<part, vars, boardVars, wakeVars, migVars, regVars, snapVars, searchVars>>
    \/ /\ part = "snapshot" /\ Snap!Next
       /\ UNCHANGED <<part, vars, boardVars, wakeVars, migVars, regVars, rpcVars, searchVars>>
    \/ /\ part = "index" /\ Search!Next
       /\ UNCHANGED <<part, vars, boardVars, wakeVars, migVars, regVars, rpcVars, snapVars>>
    \/ /\ part = "git" /\ Next
       /\ UNCHANGED <<part, boardVars, wakeVars, migVars, regVars, rpcVars, snapVars, searchVars>>

HostSpec == HostInit /\ [][HostNext]_hostVars

(* The properties of the parts; what they say is said there. *)
HostTypeOK ==
    /\ TypeOK /\ Board!TypeOK /\ Wake!TypeOK /\ Mig!TypeOK /\ Reg!TypeOK
    /\ Rpc!TypeOK /\ Snap!TypeOK /\ Search!TypeOK
ServerIsTracked == Board!ServerIsTracked
WokenOnce == Wake!WokenOnce
TextKept == Mig!TextKept
NamesStay == Reg!NamesStay
AnswersAreTrue == Rpc!AnswersAreTrue
BackupIsHonest == Snap!BackupIsHonest
IndexGoesForward == Search!IndexGoesForward
=============================================================================
