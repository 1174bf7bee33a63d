--------------------------- MODULE CloudAgentPage ---------------------------
(***************************************************************************)
(* The cloud agent's page: hooks/useCloudAgent.ts.  It shows the status,   *)
(* the lists and the installation of the selected host, which a settings   *)
(* event, a finished deployment or the user may replace while reads and    *)
(* commands of the host before are on their way.                           *)
(*                                                                         *)
(* What is shown is named by the host it was read from.  The reads under   *)
(* way are a bag: each is a kind, a host and whether its generation is the *)
(* current one.                                                            *)
(***************************************************************************)
EXTENDS Integers, Bags

CONSTANTS Hosts, NoHost,
          MaxHostReads,  \* bound on the reads under way at once
          MaxActs        \* bound on the commands under way at once

CloudAgentPageAssumption ==
    NoHost \notin Hosts /\ MaxHostReads \in Nat /\ MaxActs \in Nat

\* runReads, loadStatus and loadInstallation.
HostKinds == {"all", "status", "installation"}
HostRead == [kind : HostKinds, host : Hosts, live : BOOLEAN]

VARIABLES
    booted,    \* the settings and the hosts have been loaded
    selected,
    online, lists, installation,  \* the host each was read from
    installationError, loading, installationLoading,
    deploying,
    hostReads,
    acts       \* the number of commands under way

shown == <<online, lists, installation, installationError>>
spinners == <<loading, installationLoading>>
vars == <<booted, selected, shown, spinners, deploying, hostReads, acts>>

\* The bag after reads of the current generation have begun.
Begun(bag, kinds, h) ==
    bag (+) SetToBag([kind : kinds, host : {h}, live : {TRUE}])
Bounded == BagCardinality(hostReads') <= MaxHostReads

Init ==
    /\ booted = FALSE /\ selected = NoHost
    /\ online = NoHost /\ lists = NoHost /\ installation = NoHost
    /\ installationError = FALSE /\ loading = FALSE /\ installationLoading = FALSE
    /\ deploying = FALSE
    /\ hostReads = EmptyBag /\ acts = 0

\* The reads after the generation has been raised: those of it become like the
\* earlier ones.
Copies(r, bag) == IF r \in BagToSet(bag) THEN bag[r] ELSE 0
Raised(r) == [r EXCEPT !.live = FALSE]
Outdated ==
    [r \in {Raised(q) : q \in BagToSet(hostReads)} |->
        Copies(r, hostReads) + Copies([r EXCEPT !.live = TRUE], hostReads)]

\* applyHost: the generation is raised, what was shown is cleared and two reads
\* of the new host begin.
ApplyHost(h) ==
    /\ selected' = h
    /\ online' = NoHost /\ lists' = NoHost /\ installation' = NoHost
    /\ installationError' = FALSE
    /\ loading' = (h # NoHost) /\ installationLoading' = (h # NoHost)
    /\ hostReads' = IF h = NoHost THEN Outdated
                    ELSE Begun(Outdated, {"all", "installation"}, h)
    /\ Bounded

\* The settings and the hosts are in: the default host, the first one, or none.
Boot(h) ==
    /\ ~booted /\ booted' = TRUE
    /\ ApplyHost(h)
    /\ UNCHANGED <<deploying, acts>>

\* The user selects a host, saves settings with a default host, even before the
\* first are loaded, or a deployment has installed one.
Choose(h) ==
    /\ h # NoHost
    /\ ApplyHost(h)
    /\ UNCHANGED <<booted, deploying, acts>>

Deploy ==
    /\ selected # NoHost /\ deploying' = ~deploying
    /\ UNCHANGED <<booted, selected, shown, spinners, hostReads, acts>>

\* refreshAll; without a host it clears the page.
RefreshAll ==
    IF selected = NoHost
    THEN /\ online' = NoHost /\ lists' = NoHost /\ loading' = FALSE
         /\ UNCHANGED hostReads
    ELSE /\ hostReads' = Begun(hostReads, {"all"}, selected) /\ Bounded
         /\ loading' = TRUE
         /\ UNCHANGED <<online, lists>>

\* The interval, which deployments pause, and the user's refresh.
Poll ==
    /\ selected # NoHost /\ ~deploying
    /\ RefreshAll
    /\ UNCHANGED <<booted, selected, installation, installationError,
                   installationLoading, deploying, acts>>

\* retest reads the status and the installation again.
Retest ==
    /\ selected # NoHost
    /\ hostReads' = Begun(hostReads, {"status", "installation"}, selected) /\ Bounded
    /\ installationLoading' = TRUE /\ installationError' = FALSE
    /\ UNCHANGED <<booted, selected, online, lists, installation, loading, deploying, acts>>

\* A command of the user's at the host then selected: to end a session, to
\* create one, to synchronise the gateway, to attach to or cancel a plan.
Act ==
    /\ selected # NoHost /\ acts < MaxActs /\ acts' = acts + 1
    /\ UNCHANGED <<booted, selected, shown, spinners, deploying, hostReads>>

ActSucceeds ==
    /\ acts > 0 /\ acts' = acts - 1
    /\ RefreshAll
    /\ UNCHANGED <<booted, selected, installation, installationError,
                   installationLoading, deploying>>

ActFails ==
    /\ acts > 0 /\ acts' = acts - 1
    /\ UNCHANGED <<booted, selected, shown, spinners, deploying, hostReads>>

-----------------------------------------------------------------------------
\* The guard of every reply: the generation and the host are still the same.
Current(r) == r.live /\ r.host = selected

Replied(r) ==
    /\ hostReads' = hostReads (-) SetToBag({r})
    /\ UNCHANGED <<booted, selected, deploying, acts>>

\* A reply of an earlier selection is dropped.
Late(r) == ~Current(r) /\ Replied(r) /\ UNCHANGED <<shown, spinners>>

\* What failed of the four parts is cleared.
ReadsDone(r) ==
    /\ r.kind = "all" /\ Current(r) /\ Replied(r)
    /\ online' \in {NoHost, r.host}
    /\ lists' \in {NoHost, r.host}
    /\ loading' = FALSE
    /\ UNCHANGED <<installation, installationError, installationLoading>>

StatusDone(r) ==
    /\ r.kind = "status" /\ Current(r) /\ Replied(r)
    /\ online' \in {NoHost, r.host}
    /\ UNCHANGED <<lists, installation, installationError, spinners>>

InstallationDone(r, ok) ==
    /\ r.kind = "installation" /\ Current(r) /\ Replied(r)
    /\ installation' = IF ok THEN r.host ELSE NoHost
    /\ installationError' = (installationError \/ ~ok)
    /\ installationLoading' = FALSE
    /\ UNCHANGED <<online, lists, loading>>

Next ==
    \/ \E h \in Hosts \cup {NoHost} : Boot(h) \/ Choose(h)
    \/ Deploy \/ Poll \/ Retest \/ Act \/ ActSucceeds \/ ActFails
    \/ \E r \in BagToSet(hostReads) :
        \/ Late(r) \/ ReadsDone(r) \/ StatusDone(r)
        \/ \E ok \in BOOLEAN : InstallationDone(r, ok)

Spec == Init /\ [][Next]_vars

-----------------------------------------------------------------------------
TypeOK ==
    /\ booted \in BOOLEAN /\ selected \in Hosts \cup {NoHost}
    /\ {online, lists, installation} \subseteq Hosts \cup {NoHost}
    /\ {installationError, loading, installationLoading, deploying} \subseteq BOOLEAN
    /\ IsABag(hostReads) /\ BagToSet(hostReads) \subseteq HostRead
    /\ acts \in 0..MaxActs

\* Whatever is shown was read from the selected host, however late the replies of
\* the hosts before come, and whatever command or poll asked for them.
OwnHostOnly == {online, lists, installation} \subseteq {NoHost, selected}

\* A spinner turns only while a reply is awaited that will stop it: changing the
\* host, polling and retesting never leave one turning.
SpinnersStop ==
    /\ loading =>
        \E r \in BagToSet(hostReads) : r.kind = "all" /\ Current(r)
    /\ installationLoading =>
        \E r \in BagToSet(hostReads) : r.kind = "installation" /\ Current(r)
=============================================================================
