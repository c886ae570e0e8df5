--------------------------- MODULE GuildMembership ---------------------------
(***************************************************************************)
(* What the guild commands promise about who is in which guild, whatever   *)
(* rows they lock and in which order: players found a guild, apply, join   *)
(* a guild they applied to and leave it, each in one step.  A guild is     *)
(* dissolved by its last member, and with it the applications to it.       *)
(***************************************************************************)
CONSTANTS Uid, Guild, None

VARIABLES
    status,       \* status[g]: is guild g founded, is it dissolved?
    guildOf,      \* guildOf[u]: the guild of player u, or None
    applications  \* pairs of a guild and a player who waits for its answer

Init ==
    /\ status = [g \in Guild |-> "unused"]
    /\ guildOf = [u \in Uid |-> None]
    /\ applications = {}

Members(g) == {u \in Uid : guildOf[u] = g}

\* Whoever is in a guild waits for no answer.
Enter(u, g) ==
    /\ guildOf[u] = None
    /\ guildOf' = [guildOf EXCEPT ![u] = g]
    /\ applications' = applications \ (Guild \X {u})

Found(u, g) ==
    /\ status[g] = "unused"
    /\ status' = [status EXCEPT ![g] = "open"]
    /\ Enter(u, g)

Apply(u, g) ==
    /\ status[g] = "open" /\ guildOf[u] = None
    /\ applications' = applications \cup {<<g, u>>}
    /\ UNCHANGED <<status, guildOf>>

Join(u, g) ==
    /\ status[g] = "open" /\ <<g, u>> \in applications
    /\ Enter(u, g)
    /\ UNCHANGED status

Quit(u, g) ==
    /\ guildOf[u] = g
    /\ guildOf' = [guildOf EXCEPT ![u] = None]
    /\ UNCHANGED <<status, applications>>

Dissolve(u, g) ==
    /\ Members(g) = {u}
    /\ guildOf' = [guildOf EXCEPT ![u] = None]
    /\ status' = [status EXCEPT ![g] = "dissolved"]
    /\ applications' = applications \ ({g} \X Uid)

Next ==
    \E u \in Uid, g \in Guild :
        Found(u, g) \/ Apply(u, g) \/ Join(u, g) \/ Quit(u, g) \/ Dissolve(u, g)

Spec == Init /\ [][Next]_<<status, guildOf, applications>>
=============================================================================
