------------------------- MODULE DesktopPageProofs -------------------------
(*************************************************************************)
(* What holds of the pages and of the status they share, for any number  *)
(* of reads, commands, hosts, workspaces, tunnels and fields of the      *)
(* settings: of each, an inductive invariant and the properties of its   *)
(* module that follow. Each is proved of the instance in DesktopPages,   *)
(* from the assumption its module makes on its constants.                *)
(*************************************************************************)
EXTENDS DesktopPages, Integers, Sequences, TLAPS

-----------------------------------------------------------------------------
(*************************************************************************)
(* GatewayPage: no reply brings back what the page has moved on from,    *)
(* and a broadcast that is put off finds room in the end.                *)
(*                                                                       *)
(* The argument. Whatever starts a read raises the generation, so of the *)
(* reads of the configuration one at most still counts (OneLive), and of *)
(* those of the status too (OneLiveStatus). What a read that counts has  *)
(* seen is at least as new as what is shown (LiveIsNewer), for the       *)
(* native side is never behind the page (ShownBehind), and what a        *)
(* command shows supersedes every read.                                  *)
(*************************************************************************)
\* A read whose answer will be shown, of the configuration or of the status.
Counts(r) == reads[r].live /\ reads[r].pc # "idle" /\ reads[r].kind \in Gateway!OfConfig
CountsStatus(r) == reads[r].slive /\ reads[r].pc # "idle"

\* There is one of each at most,
OneLive == \A q, r \in Reads : Counts(q) /\ Counts(r) => q = r
OneLiveStatus == \A q, r \in Reads : CountsStatus(q) /\ CountsStatus(r) => q = r

\* which has seen nothing older than what is shown.
LiveIsNewer ==
    \A r \in Reads : reads[r].pc = "answered" =>
        /\ Counts(r) => shownConfig <= reads[r].seen
        /\ CountsStatus(r) /\ ~savedProvider => shownStatus <= reads[r].seen

\* The native side is ahead of all there is.
ShownBehind ==
    /\ shownConfig <= version /\ shownStatus <= version
    /\ \A r \in Reads : reads[r].seen <= version
    /\ \A c \in Commands : commands[c].seen <= version

\* A read that follows the save of a provider shows its status unasked.
SavesAreSaved == \A r \in Reads : reads[r].kind = "save" => savedProvider

\* The gateway broadcasts no more than has changed.
EventsBehind == broadcasts <= version

\* The inductive invariant.
GatewayInv == Gateway!TypeOK /\ EventsBehind /\ OneLive /\ OneLiveStatus /\ LiveIsNewer /\ ShownBehind
       /\ SavesAreSaved /\ Gateway!NeverLockedOut

-----------------------------------------------------------------------------
\* A read is started in a free place, and all it supersedes keep what else they are.
LEMMA SupersededReads ==
    ASSUME Gateway!TypeOK, NEW b \in BOOLEAN
    PROVE  /\ Gateway!Superseded(b) \in [Reads -> Gateway!ReadStates]
           /\ \A r \in Reads :
                /\ Gateway!Superseded(b)[r].pc = reads[r].pc
                /\ Gateway!Superseded(b)[r].kind = reads[r].kind
                /\ Gateway!Superseded(b)[r].seen = reads[r].seen
                /\ Gateway!Superseded(b)[r].slive = FALSE
                /\ Gateway!Superseded(b)[r].live = (reads[r].live /\ ~b)
<1>0. \A r \in Reads : reads[r] \in Gateway!ReadStates BY DEF Gateway!TypeOK
<1>1. \A r \in Reads :
        /\ Gateway!Superseded(b)[r].pc = reads[r].pc
        /\ Gateway!Superseded(b)[r].kind = reads[r].kind
        /\ Gateway!Superseded(b)[r].seen = reads[r].seen
        /\ Gateway!Superseded(b)[r].slive = FALSE
        /\ Gateway!Superseded(b)[r].live = (reads[r].live /\ ~b)
        /\ Gateway!Superseded(b)[r] \in Gateway!ReadStates
  <2> TAKE r \in Reads
  <2> DEFINE l == reads[r].live /\ ~b
  <2>1. l \in BOOLEAN OBVIOUS
  <2>2. Gateway!Superseded(b)[r] = [[reads[r] EXCEPT !.live = l] EXCEPT !.slive = FALSE]
    BY <1>0 DEF Gateway!Superseded, Gateway!ReadStates
  <2> HIDE DEF l
  <2>3. [[reads[r] EXCEPT !.live = l] EXCEPT !.slive = FALSE] \in Gateway!ReadStates
        /\ [[reads[r] EXCEPT !.live = l] EXCEPT !.slive = FALSE].live = l
        /\ [[reads[r] EXCEPT !.live = l] EXCEPT !.slive = FALSE].slive = FALSE
        /\ [[reads[r] EXCEPT !.live = l] EXCEPT !.slive = FALSE].pc = reads[r].pc
        /\ [[reads[r] EXCEPT !.live = l] EXCEPT !.slive = FALSE].kind = reads[r].kind
        /\ [[reads[r] EXCEPT !.live = l] EXCEPT !.slive = FALSE].seen = reads[r].seen
    BY <1>0, <2>1 DEF Gateway!ReadStates
  <2> QED BY <2>2, <2>3 DEF l
<1>2. DOMAIN Gateway!Superseded(b) = Reads BY DEF Gateway!Superseded
<1>3. Gateway!Superseded(b) = [r \in Reads |-> Gateway!Superseded(b)[r]]
  BY DEF Gateway!Superseded
<1>4. Gateway!Superseded(b) \in [Reads -> Gateway!ReadStates] BY <1>1, <1>3
<1> QED BY <1>1, <1>4

\* What begins and what is at rest is typed.
LEMMA NewReadTyped ==
    ASSUME Gateway!GatewayPageAssumption, NEW k \in Gateway!Kinds
    PROVE  /\ Gateway!NewRead(k) \in Gateway!ReadStates
           /\ Gateway!NewRead(k).pc = "asked"
           /\ Gateway!NewRead(k).kind = k
           /\ Gateway!NewRead(k).seen = 0
           /\ Gateway!NewRead(k).live = TRUE /\ Gateway!NewRead(k).slive = TRUE
BY DEF Gateway!GatewayPageAssumption, Gateway!NewRead, Gateway!ReadStates,
   Gateway!Versions

\* What is at rest is typed, and is new in nothing.
LEMMA GatewayIdles ==
    ASSUME Gateway!GatewayPageAssumption
    PROVE  /\ Gateway!IdleRead \in Gateway!ReadStates
           /\ Gateway!IdleCommand \in Gateway!CommandStates
           /\ Gateway!IdleRead.pc = "idle"
           /\ Gateway!IdleRead.seen = 0
           /\ Gateway!IdleRead.kind = "page"
           /\ Gateway!IdleRead.live = FALSE /\ Gateway!IdleRead.slive = FALSE
           /\ Gateway!IdleCommand.pc = "idle" /\ Gateway!IdleCommand.seen = 0
           /\ 0 \in Gateway!Versions
BY DEF Gateway!GatewayPageAssumption, Gateway!IdleRead, Gateway!IdleCommand,
   Gateway!ReadStates, Gateway!CommandStates, Gateway!Kinds,
       Gateway!Versions

\* The place of a new read is free.
LEMMA PlaceIsFree ==
    ASSUME Gateway!Room
    PROVE  Gateway!Place \in Reads /\ reads[Gateway!Place].pc = "idle"
BY DEF Gateway!Room, Gateway!Place

\* The reads after one of them was started.
LEMMA StartedReads ==
    ASSUME Gateway!GatewayPageAssumption, Gateway!TypeOK, NEW k \in Gateway!Kinds,
           Gateway!Started(k)
    PROVE  \E p \in Reads :
             /\ reads[p].pc = "idle"
             /\ reads' = [Gateway!Superseded(k # "today") EXCEPT ![p] = Gateway!NewRead(k)]
             /\ reads'[p] = Gateway!NewRead(k)
             /\ \A r \in Reads \ {p} : reads'[r] = Gateway!Superseded(k # "today")[r]
             /\ reads' \in [Reads -> Gateway!ReadStates]
<1>1. Gateway!Place \in Reads /\ reads[Gateway!Place].pc = "idle"
  BY PlaceIsFree DEF Gateway!Started
<1>2. Gateway!Superseded(k # "today") \in [Reads -> Gateway!ReadStates] BY SupersededReads
<1>3. Gateway!NewRead(k) \in Gateway!ReadStates BY NewReadTyped
<1>4. reads' = [Gateway!Superseded(k # "today") EXCEPT ![Gateway!Place] = Gateway!NewRead(k)]
  BY DEF Gateway!Started
<1> QED BY <1>1, <1>2, <1>3, <1>4

-----------------------------------------------------------------------------
\* What a reply shows is typed, and at most what its read has seen.
LEMMA ShowsTyped ==
    ASSUME Gateway!TypeOK, NEW r \in Reads, NEW ok \in BOOLEAN, Gateway!Shows(r, ok)
    PROVE  /\ shownConfig' \in Gateway!Versions /\ shownStatus' \in Gateway!Versions
           /\ Gateway!Failed(r, ok) \in BOOLEAN
<1>1. reads[r].seen \in Gateway!Versions /\ reads[r].live \in BOOLEAN
  BY DEF Gateway!TypeOK, Gateway!ReadStates
<1> QED BY <1>1 DEF Gateway!Shows, Gateway!Failed, Gateway!TypeOK

\* A broadcast that is answered or put off leaves values of their types.
LEMMA LoadScopedTyped ==
    ASSUME Gateway!GatewayPageAssumption, Gateway!TypeOK, Gateway!LoadScoped
    PROVE  /\ reads' \in [Reads -> Gateway!ReadStates] /\ inFlight' \in BOOLEAN
           /\ followUp' \in BOOLEAN /\ loadError' \in BOOLEAN
<1>1. CASE ~visible \/ inFlight BY <1>1 DEF Gateway!LoadScoped, Gateway!TypeOK
<1>2. CASE ~(~visible \/ inFlight)
  <2>1. reads' \in [Reads -> Gateway!ReadStates]
    BY <1>2, StartedReads DEF Gateway!LoadScoped, Gateway!Kinds
  <2> QED BY <1>2, <2>1 DEF Gateway!LoadScoped
<1> QED BY <1>1, <1>2

\* Each step keeps the types.
LEMMA GatewayTypeStep ==
    ASSUME Gateway!GatewayPageAssumption, Gateway!TypeOK, EventsBehind,
           [Gateway!Next]_(Gateway!vars)
    PROVE  Gateway!TypeOK'
<1> USE DEF Gateway!page, Gateway!scoped
<1>0. /\ reads \in [Reads -> Gateway!ReadStates]
      /\ commands \in [Commands -> Gateway!CommandStates]
      /\ MaxPageChanges \in Nat
      /\ version \in 0..MaxPageChanges
      /\ Gateway!Versions = 0..MaxPageChanges
      /\ Gateway!IdleCommand \in Gateway!CommandStates
      /\ Gateway!IdleRead \in Gateway!ReadStates
      /\ \A c \in Commands : commands[c].seen \in Gateway!Versions
      /\ \A k \in {"page", "scoped", "follow", "today", "apply", "save"} : k \in Gateway!Kinds
      /\ broadcasts \in 0..MaxPageChanges /\ hidden \in 0..MaxHidden /\ MaxHidden \in Nat
  BY GatewayIdles DEF Gateway!TypeOK, Gateway!GatewayPageAssumption, Gateway!Versions,
     Gateway!CommandStates, Gateway!Kinds
<1>1. CASE Gateway!Change
  <2>1. version' \in 0..MaxPageChanges BY <1>0, <1>1 DEF Gateway!Change
  <2>2. broadcasts' \in 0..MaxPageChanges BY <1>0, <1>1 DEF Gateway!Change, EventsBehind
  <2> QED BY <1>0, <1>1, <2>1, <2>2 DEF Gateway!Change, Gateway!TypeOK
<1>2. ASSUME NEW c \in Commands,
             Gateway!Send(c) \/ Gateway!Execute(c) \/ Gateway!Reread(c) \/ Gateway!CommandFails(c)
      PROVE Gateway!TypeOK'
  <2>0. commands[c] \in Gateway!CommandStates BY <1>0
  <2>1. CASE Gateway!Send(c)
    <3>1. [commands[c] EXCEPT !.pc = "sent"] \in Gateway!CommandStates
      BY <2>0 DEF Gateway!CommandStates
    <3>2. commands' \in [Commands -> Gateway!CommandStates]
      BY <1>0, <2>1, <3>1 DEF Gateway!Send
    <3> QED BY <2>1, <3>2 DEF Gateway!Send, Gateway!TypeOK
  <2>2. CASE Gateway!Execute(c)
    <3>1. version' \in 0..MaxPageChanges BY <1>0, <2>2 DEF Gateway!Execute
    <3>2. [pc |-> "done", seen |-> version + 1] \in Gateway!CommandStates
      BY <1>0, <2>2 DEF Gateway!Execute, Gateway!CommandStates
    <3>3. commands' \in [Commands -> Gateway!CommandStates]
      BY <1>0, <2>2, <3>2 DEF Gateway!Execute
    <3> QED BY <1>0, <2>2, <3>1, <3>3 DEF Gateway!Execute, Gateway!TypeOK
  <2>3. CASE Gateway!Reread(c)
    <3>1. [commands[c] EXCEPT !.seen = version] \in Gateway!CommandStates
      BY <1>0, <2>0 DEF Gateway!CommandStates
    <3>2. commands' \in [Commands -> Gateway!CommandStates]
      BY <1>0, <2>3, <3>1 DEF Gateway!Reread
    <3> QED BY <2>3, <3>2 DEF Gateway!Reread, Gateway!TypeOK
  <2>4. CASE Gateway!CommandFails(c)
    BY <1>0, <2>4 DEF Gateway!CommandFails, Gateway!TypeOK
  <2> QED BY <1>2, <2>1, <2>2, <2>3, <2>4
<1>3. CASE Gateway!Broadcast
  <2>1. broadcasts' \in 0..MaxPageChanges BY <1>0, <1>3 DEF Gateway!Broadcast
  <2> QED BY <1>3, <2>1, LoadScopedTyped DEF Gateway!Broadcast, Gateway!TypeOK
<1>4. CASE Gateway!Today
  <2>1. reads' \in [Reads -> Gateway!ReadStates]
    BY <1>0, <1>4, StartedReads DEF Gateway!Today
  <2> QED BY <1>4, <2>1 DEF Gateway!Today, Gateway!TypeOK
<1>5. CASE Gateway!Hide
  <2>1. reads' \in [Reads -> Gateway!ReadStates] BY <1>5, SupersededReads DEF Gateway!Hide
  <2>2. hidden' \in 0..MaxHidden BY <1>0, <1>5 DEF Gateway!Hide
  <2> QED BY <1>5, <2>1, <2>2 DEF Gateway!Hide, Gateway!TypeOK
<1>6. CASE Gateway!Show
  <2>1. reads' \in [Reads -> Gateway!ReadStates]
    BY <1>0, <1>6, StartedReads DEF Gateway!Show
  <2> QED BY <1>6, <2>1 DEF Gateway!Show, Gateway!TypeOK
<1>7. ASSUME NEW c \in Commands,
             Gateway!Apply(c) \/ Gateway!Saved(c) \/ Gateway!PoolSaved(c) \/ Gateway!TemplateSaved(c)
      PROVE Gateway!TypeOK'
  <2>1. CASE Gateway!Apply(c)
    <3>1. reads' \in [Reads -> Gateway!ReadStates]
      BY <1>0, <2>1, StartedReads DEF Gateway!Apply
    <3> QED BY <1>0, <2>1, <3>1 DEF Gateway!Apply, Gateway!TypeOK
  <2>2. CASE Gateway!Saved(c)
    <3>1. reads' \in [Reads -> Gateway!ReadStates]
      BY <1>0, <2>2, StartedReads DEF Gateway!Saved
    <3> QED BY <1>0, <2>2, <3>1 DEF Gateway!Saved, Gateway!TypeOK
  <2>3. CASE Gateway!PoolSaved(c)
    <3>1. reads' \in [Reads -> Gateway!ReadStates]
      BY <2>3, SupersededReads DEF Gateway!PoolSaved
    <3> QED BY <1>0, <2>3, <3>1 DEF Gateway!PoolSaved, Gateway!TypeOK
  <2>4. CASE Gateway!TemplateSaved(c)
    BY <1>0, <2>4, LoadScopedTyped DEF Gateway!TemplateSaved, Gateway!TypeOK
  <2> QED BY <1>7, <2>1, <2>2, <2>3, <2>4
<1>8. ASSUME NEW r \in Reads, Gateway!Answer(r) PROVE Gateway!TypeOK'
  <2>0. reads[r] \in Gateway!ReadStates BY <1>0
  <2>1. [[reads[r] EXCEPT !.pc = "answered"] EXCEPT !.seen = version] \in Gateway!ReadStates
    BY <1>0, <2>0 DEF Gateway!ReadStates
  <2>2. reads' = [reads EXCEPT ![r] =
                     [[reads[r] EXCEPT !.pc = "answered"] EXCEPT !.seen = version]]
    BY <1>0, <1>8 DEF Gateway!Answer
  <2>3. reads' \in [Reads -> Gateway!ReadStates] BY <1>0, <2>1, <2>2
  <2> QED BY <1>8, <2>3 DEF Gateway!Answer, Gateway!TypeOK
<1>9. ASSUME NEW r \in Reads, NEW ok \in BOOLEAN, Gateway!Land(r, ok)
      PROVE  Gateway!TypeOK'
  <2>1. reads' \in [Reads -> Gateway!ReadStates] BY <1>0, <1>9 DEF Gateway!Land
  <2> QED BY <1>9, <2>1, ShowsTyped DEF Gateway!Land, Gateway!TypeOK
<1>10. ASSUME NEW r \in Reads, NEW ok \in BOOLEAN, Gateway!LandScoped(r, ok)
       PROVE  Gateway!TypeOK'
  <2>1. reads' \in [Reads -> Gateway!ReadStates]
    BY <1>0, <1>10, SupersededReads, NewReadTyped DEF Gateway!LandScoped
  <2> QED BY <1>10, <2>1, ShowsTyped DEF Gateway!LandScoped, Gateway!TypeOK
<1>11. CASE UNCHANGED Gateway!vars BY <1>11 DEF Gateway!vars, Gateway!TypeOK
<1> QED BY <1>1, <1>2, <1>3, <1>4, <1>5, <1>6, <1>7, <1>8, <1>9, <1>10, <1>11
     DEF Gateway!Next, Gateway!Native
\* A broadcast comes from a change.
LEMMA EventsStep ==
    ASSUME Gateway!TypeOK, EventsBehind, [Gateway!Next]_(Gateway!vars)
    PROVE  EventsBehind'
<1> USE DEF EventsBehind
<1>0. version \in Int /\ broadcasts \in Int BY DEF Gateway!TypeOK, Gateway!Versions
<1>1. CASE Gateway!Change BY <1>0, <1>1 DEF Gateway!Change
<1>2. ASSUME NEW c \in Commands, Gateway!Execute(c) PROVE EventsBehind'
  BY <1>0, <1>2 DEF Gateway!Execute
<1>3. CASE Gateway!Broadcast BY <1>0, <1>3 DEF Gateway!Broadcast
<1>4. ASSUME UNCHANGED <<version, broadcasts>> PROVE EventsBehind' BY <1>4
<1>5. ASSUME NEW c \in Commands,
             \/ Gateway!Send(c) \/ Gateway!Reread(c) \/ Gateway!CommandFails(c)
             \/ Gateway!Apply(c) \/ Gateway!Saved(c) \/ Gateway!PoolSaved(c) \/ Gateway!TemplateSaved(c)
      PROVE EventsBehind'
  BY <1>4, <1>5 DEF Gateway!Send, Gateway!Reread, Gateway!CommandFails, Gateway!Apply,
     Gateway!Saved, Gateway!PoolSaved, Gateway!TemplateSaved
<1>6. ASSUME NEW r \in Reads, NEW ok \in BOOLEAN,
             Gateway!Answer(r) \/ Gateway!Land(r, ok) \/ Gateway!LandScoped(r, ok)
      PROVE EventsBehind'
  BY <1>4, <1>6 DEF Gateway!Answer, Gateway!Land, Gateway!LandScoped
<1>7. CASE Gateway!Today \/ Gateway!Hide \/ Gateway!Show \/ UNCHANGED Gateway!vars
  BY <1>4, <1>7 DEF Gateway!Today, Gateway!Hide, Gateway!Show, Gateway!vars
<1> QED BY <1>1, <1>2, <1>3, <1>5, <1>6, <1>7 DEF Gateway!Next, Gateway!Native

-----------------------------------------------------------------------------
\* What is said of the reads.
SeenBehind == \A r \in Reads : reads[r].seen <= version

ReadsInv == OneLive /\ OneLiveStatus /\ LiveIsNewer /\ SavesAreSaved /\ SeenBehind

\* A step that starts a read of kind k, whatever else it shows.
LEMMA StartStep ==
    ASSUME Gateway!GatewayPageAssumption, GatewayInv, NEW k \in Gateway!Kinds,
           Gateway!Started(k),
           version' = version, shownStatus' = shownStatus,
           k = "today" => shownConfig' = shownConfig,
           savedProvider => savedProvider', k = "save" => savedProvider'
    PROVE  /\ ReadsInv'
           /\ \A r \in Reads : reads[r].pc # "idle" =>
                reads'[r].pc = reads[r].pc /\ reads'[r].kind = reads[r].kind
           /\ k = "scoped" => \E r \in Reads :
                reads'[r].pc # "idle" /\ reads'[r].kind = "scoped"
<1>0. Gateway!TypeOK /\ ReadsInv /\ version \in Nat
  BY DEF GatewayInv, ReadsInv, ShownBehind, SeenBehind, Gateway!TypeOK, Gateway!Versions
<1>1. PICK p \in Reads :
        /\ reads[p].pc = "idle"
        /\ reads'[p] = Gateway!NewRead(k)
        /\ \A r \in Reads \ {p} : reads'[r] = Gateway!Superseded(k # "today")[r]
  BY <1>0, StartedReads
<1>2. /\ reads'[p].pc = "asked" /\ reads'[p].kind = k /\ reads'[p].seen = 0
  <2>1. Gateway!NewRead(k).pc = "asked" /\ Gateway!NewRead(k).kind = k /\ Gateway!NewRead(k).seen = 0
    BY NewReadTyped
  <2> QED BY <1>1, <2>1
<1>3. \A r \in Reads \ {p} :
        /\ reads'[r].pc = reads[r].pc
        /\ reads'[r].kind = reads[r].kind
        /\ reads'[r].seen = reads[r].seen
        /\ reads'[r].slive = FALSE
        /\ reads'[r].live = (reads[r].live /\ ~(k # "today"))
  <2>1. (k # "today") \in BOOLEAN OBVIOUS
  <2>2. \A r \in Reads :
          /\ Gateway!Superseded(k # "today")[r].pc = reads[r].pc
          /\ Gateway!Superseded(k # "today")[r].kind = reads[r].kind
          /\ Gateway!Superseded(k # "today")[r].seen = reads[r].seen
          /\ Gateway!Superseded(k # "today")[r].slive = FALSE
          /\ Gateway!Superseded(k # "today")[r].live = (reads[r].live /\ ~(k # "today"))
    BY <1>0, <2>1, SupersededReads
  <2> QED BY <1>1, <2>2
<1>4. OneLive' BY <1>0, <1>2, <1>3 DEF ReadsInv, OneLive, Counts, Gateway!OfConfig
<1>5. OneLiveStatus' BY <1>2, <1>3 DEF OneLiveStatus, CountsStatus
<1>6. LiveIsNewer'
  BY <1>0, <1>2, <1>3 DEF ReadsInv, LiveIsNewer, Counts, CountsStatus
<1>7. SavesAreSaved' BY <1>0, <1>2, <1>3 DEF ReadsInv, SavesAreSaved
<1>8. SeenBehind' BY <1>0, <1>2, <1>3 DEF ReadsInv, SeenBehind
<1> QED BY <1>1, <1>2, <1>3, <1>4, <1>5, <1>6, <1>7, <1>8 DEF ReadsInv

\* A step that supersedes every read and starts none.
LEMMA SupersedeStep ==
    ASSUME Gateway!GatewayPageAssumption, GatewayInv, reads' = Gateway!Superseded(TRUE),
           version' = version,
           savedProvider' = savedProvider
    PROVE  /\ ReadsInv'
           /\ \A r \in Reads :
                reads'[r].pc = reads[r].pc /\ reads'[r].kind = reads[r].kind
<1>0. Gateway!TypeOK /\ ReadsInv BY DEF GatewayInv, ReadsInv, ShownBehind, SeenBehind
<1>1. \A r \in Reads :
        /\ reads'[r].pc = reads[r].pc
        /\ reads'[r].kind = reads[r].kind
        /\ reads'[r].seen = reads[r].seen
        /\ reads'[r].slive = FALSE /\ reads'[r].live = FALSE
  BY <1>0, SupersededReads
<1> QED BY <1>0, <1>1
     DEF ReadsInv, OneLive, OneLiveStatus, LiveIsNewer, SavesAreSaved, SeenBehind,
         Counts, CountsStatus

\* A step that leaves the reads, and what is shown, as they are.
LEMMA StillStep ==
    ASSUME Gateway!GatewayPageAssumption, GatewayInv,
           UNCHANGED <<reads, Gateway!page, savedProvider>>,
           version' \in Nat, version <= version'
    PROVE  ReadsInv'
<1>0. ReadsInv /\ \A r \in Reads : reads[r].seen \in Nat /\ version \in Nat
  BY DEF GatewayInv, ReadsInv, ShownBehind, SeenBehind, Gateway!TypeOK,
     Gateway!ReadStates, Gateway!Versions
<1> QED BY <1>0 DEF ReadsInv, OneLive, OneLiveStatus, LiveIsNewer, SavesAreSaved,
         SeenBehind, Counts, CountsStatus, Gateway!page

\* What a reply shows is no older than what it replaces, unless it is of a read
\* that nothing guards, and leaves the other reads that count at least as new.
LEMMA ShowsNewer ==
    ASSUME GatewayInv, NEW r \in Reads, reads[r].pc = "answered", NEW ok \in BOOLEAN,
           Gateway!Shows(r, ok)
    PROVE  /\ shownConfig <= shownConfig' /\ shownConfig' <= version
           /\ shownStatus' <= version
           /\ savedProvider \/ shownStatus <= shownStatus'
           /\ \A q \in Reads \ {r} : reads[q].pc = "answered" =>
                /\ Counts(q) => shownConfig' <= reads[q].seen
                /\ CountsStatus(q) /\ ~savedProvider => shownStatus' <= reads[q].seen
<1>0. /\ reads[r].seen \in Int /\ shownConfig \in Int /\ shownStatus \in Int
      /\ \A q \in Reads : reads[q].seen \in Int
  BY DEF GatewayInv, Gateway!TypeOK, Gateway!ReadStates, Gateway!Versions
<1>1. OneLive /\ OneLiveStatus /\ LiveIsNewer /\ ShownBehind /\ SavesAreSaved
  BY DEF GatewayInv
<1>2. shownConfig' = shownConfig \/ (Counts(r) /\ shownConfig' = reads[r].seen)
  BY DEF Gateway!Shows, Counts
<1>3. \/ shownStatus' = shownStatus
      \/ savedProvider /\ shownStatus' = reads[r].seen
      \/ CountsStatus(r) /\ shownStatus' = reads[r].seen
  BY <1>1 DEF Gateway!Shows, CountsStatus, SavesAreSaved
<1> QED BY <1>0, <1>1, <1>2, <1>3
     DEF OneLive, OneLiveStatus, LiveIsNewer, ShownBehind

\* A reply that ends its read, and one that reads once more.
LEMMA GatewayLands ==
    ASSUME Gateway!GatewayPageAssumption, GatewayInv, NEW r \in Reads, NEW ok \in BOOLEAN,
           Gateway!Land(r, ok) \/ Gateway!LandScoped(r, ok)
    PROVE  ReadsInv' /\ ShownBehind' /\ Gateway!NeverLockedOut'
<1>0. /\ Gateway!TypeOK /\ ReadsInv /\ reads[r].pc = "answered" /\ Gateway!Shows(r, ok)
      /\ UNCHANGED <<version, commands, savedProvider>>
      /\ reads \in [Reads -> Gateway!ReadStates] /\ version \in Nat
  <2>1. Gateway!TypeOK /\ ReadsInv BY DEF GatewayInv, ReadsInv, ShownBehind, SeenBehind
  <2>2. reads \in [Reads -> Gateway!ReadStates] /\ version \in Nat
    BY DEF GatewayInv, Gateway!TypeOK, Gateway!Versions
  <2>3. reads[r].pc = "answered" /\ Gateway!Shows(r, ok) /\ UNCHANGED <<version, commands, savedProvider>>
    BY DEF Gateway!Land, Gateway!LandScoped
  <2> QED BY <2>1, <2>2, <2>3
<1>1. /\ shownConfig' <= version /\ shownStatus' <= version
      /\ \A q \in Reads \ {r} : reads[q].pc = "answered" =>
           /\ Counts(q) => shownConfig' <= reads[q].seen
           /\ CountsStatus(q) /\ ~savedProvider => shownStatus' <= reads[q].seen
  BY <1>0, ShowsNewer
<1>2. CASE reads' = [reads EXCEPT ![r] = Gateway!IdleRead]
  <2>1. reads'[r] = Gateway!IdleRead /\ \A q \in Reads \ {r} : reads'[q] = reads[q]
    BY <1>0, <1>2
  <2>2. /\ reads'[r].pc = "idle" /\ reads'[r].seen = 0 /\ reads'[r].kind = "page"
    BY <2>1, GatewayIdles
  <2>3. OneLive' /\ OneLiveStatus'
    BY <1>0, <2>1, <2>2 DEF ReadsInv, OneLive, OneLiveStatus, Counts, CountsStatus
  <2>4. LiveIsNewer' BY <1>0, <1>1, <2>1, <2>2 DEF LiveIsNewer, Counts, CountsStatus
  <2>5. SavesAreSaved' /\ SeenBehind'
    BY <1>0, <2>1, <2>2 DEF ReadsInv, SavesAreSaved, SeenBehind
  <2>6. ShownBehind' BY <1>0, <1>1, <2>5 DEF GatewayInv, ShownBehind, SeenBehind
  <2>7. Gateway!NeverLockedOut'
    <3>1. CASE Gateway!Land(r, ok)
      BY <2>1, <3>1 DEF Gateway!Land, GatewayInv, Gateway!NeverLockedOut, Gateway!scoped
    <3>2. CASE Gateway!LandScoped(r, ok)
      BY <3>2 DEF Gateway!LandScoped, Gateway!NeverLockedOut
    <3> QED BY <3>1, <3>2
  <2> QED BY <2>3, <2>4, <2>5, <2>6, <2>7 DEF ReadsInv
<1>3. CASE Gateway!LandScoped(r, ok) /\ reads' = [Gateway!Superseded(TRUE) EXCEPT ![r] = Gateway!NewRead("follow")]
  <2>0. Gateway!Superseded(TRUE) \in [Reads -> Gateway!ReadStates] /\ "follow" \in Gateway!Kinds
    BY <1>0, SupersededReads DEF Gateway!Kinds
  <2>1. reads'[r] = Gateway!NewRead("follow") /\ \A q \in Reads \ {r} : reads'[q] = Gateway!Superseded(TRUE)[q]
    BY <1>3, <2>0
  <2>2. reads'[r].pc = "asked" /\ reads'[r].seen = 0 /\ reads'[r].kind = "follow"
    BY <2>0, <2>1, NewReadTyped
  <2>3. \A q \in Reads \ {r} :
          /\ reads'[q].pc = reads[q].pc /\ reads'[q].kind = reads[q].kind
          /\ reads'[q].seen = reads[q].seen
          /\ reads'[q].slive = FALSE /\ reads'[q].live = FALSE
    <3>1. \A q \in Reads :
            /\ Gateway!Superseded(TRUE)[q].pc = reads[q].pc
            /\ Gateway!Superseded(TRUE)[q].kind = reads[q].kind
            /\ Gateway!Superseded(TRUE)[q].seen = reads[q].seen
            /\ Gateway!Superseded(TRUE)[q].slive = FALSE
            /\ Gateway!Superseded(TRUE)[q].live = FALSE
      BY <1>0, SupersededReads
    <3> QED BY <2>1, <3>1
  <2>4. OneLive' /\ OneLiveStatus' /\ LiveIsNewer'
    BY <2>2, <2>3 DEF OneLive, OneLiveStatus, LiveIsNewer, Counts, CountsStatus
  <2>5. SavesAreSaved' /\ SeenBehind'
    BY <1>0, <2>2, <2>3 DEF ReadsInv, SavesAreSaved, SeenBehind
  <2>6. ShownBehind' BY <1>0, <1>1, <2>5 DEF GatewayInv, ShownBehind, SeenBehind
  <2>7. Gateway!NeverLockedOut' BY <1>3 DEF Gateway!LandScoped, Gateway!NeverLockedOut
  <2> QED BY <2>4, <2>5, <2>6, <2>7 DEF ReadsInv
<1> QED BY <1>2, <1>3 DEF Gateway!Land, Gateway!LandScoped

\* One step per action.
LEMMA GatewayStep ==
    ASSUME Gateway!GatewayPageAssumption, GatewayInv, [Gateway!Next]_(Gateway!vars)
    PROVE  GatewayInv'
<1> DEFINE Goal == ReadsInv' /\ ShownBehind' /\ Gateway!NeverLockedOut'
<1> USE DEF Gateway!page, Gateway!scoped
<1>0. /\ Gateway!TypeOK
      /\ ReadsInv
      /\ ShownBehind
      /\ Gateway!NeverLockedOut
      /\ version \in Nat
      /\ commands \in [Commands -> Gateway!CommandStates]
      /\ reads \in [Reads -> Gateway!ReadStates]
      /\ shownConfig \in Nat /\ shownStatus \in Nat
      /\ \A c \in Commands : commands[c].seen \in Nat
      /\ \A r \in Reads : reads[r].seen \in Nat
      /\ \A k \in {"page", "scoped", "follow", "today", "apply", "save"} : k \in Gateway!Kinds
  BY DEF GatewayInv, ReadsInv, ShownBehind, SeenBehind, Gateway!TypeOK,
     Gateway!CommandStates, Gateway!ReadStates,
         Gateway!Versions, Gateway!Kinds
<1>1. ASSUME Gateway!Change PROVE Goal
  <2>1. version' \in Nat /\ version <= version' BY <1>0, <1>1 DEF Gateway!Change
  <2>2. ReadsInv' BY <1>1, <2>1, StillStep DEF Gateway!Change
  <2>3. ShownBehind' BY <1>0, <1>1, <2>1 DEF Gateway!Change, ShownBehind
  <2>4. Gateway!NeverLockedOut' BY <1>0, <1>1 DEF Gateway!Change, Gateway!NeverLockedOut
  <2> QED BY <2>2, <2>3, <2>4
<1>2. ASSUME NEW c \in Commands,
             Gateway!Send(c) \/ Gateway!Execute(c) \/ Gateway!Reread(c) \/ Gateway!CommandFails(c)
      PROVE Goal
  <2>1. /\ version' \in Nat /\ version <= version'
        /\ UNCHANGED <<reads, Gateway!page, savedProvider, inFlight>>
    BY <1>0, <1>2 DEF Gateway!Send, Gateway!Execute, Gateway!Reread, Gateway!CommandFails
  <2>2. ReadsInv' BY <2>1, StillStep
  <2>3. \A d \in Commands : commands'[d].seen <= version'
    <3>0. commands[c] \in Gateway!CommandStates BY <1>0
    <3>1. commands'[c].seen \in {commands[c].seen, version', 0}
      BY <1>0, <1>2, <3>0, GatewayIdles
         DEF Gateway!Send, Gateway!Execute, Gateway!Reread, Gateway!CommandFails,
            Gateway!CommandStates
    <3>2. \A d \in Commands \ {c} : commands'[d] = commands[d]
      BY <1>0, <1>2 DEF Gateway!Send, Gateway!Execute, Gateway!Reread,
         Gateway!CommandFails
    <3>3. commands[c].seen <= version BY <1>0 DEF ShownBehind
    <3>4. commands'[c].seen <= version' BY <1>0, <2>1, <3>1, <3>3
    <3> QED BY <1>0, <2>1, <3>2, <3>4 DEF ShownBehind
  <2>4. ShownBehind' BY <1>0, <2>1, <2>3 DEF ShownBehind
  <2>5. Gateway!NeverLockedOut' BY <1>0, <2>1 DEF Gateway!NeverLockedOut
  <2> QED BY <2>2, <2>4, <2>5
\* A step that may read the configuration anew.
<1>l. ASSUME Gateway!LoadScoped, UNCHANGED <<version, Gateway!page, savedProvider>>,
             \A c \in Commands : commands'[c].seen <= version
      PROVE  Goal
  <2>1. CASE UNCHANGED reads /\ inFlight' = inFlight
    <3>1. ReadsInv' BY <1>0, <1>l, <2>1, StillStep
    <3> QED BY <1>0, <1>l, <2>1, <3>1 DEF ShownBehind, Gateway!NeverLockedOut
  <2>2. CASE Gateway!Started("scoped") /\ inFlight' = TRUE
    <3>1. ReadsInv' /\ Gateway!NeverLockedOut'
      BY <1>0, <1>l, <2>2, StartStep DEF Gateway!NeverLockedOut
    <3> QED BY <1>0, <1>l, <3>1 DEF ShownBehind, ReadsInv, SeenBehind
  <2> QED BY <1>l, <2>1, <2>2 DEF Gateway!LoadScoped
\* A step that starts another read.
<1>s. ASSUME NEW k \in Gateway!Kinds, Gateway!Started(k), version' = version,
             shownStatus' = shownStatus,
             shownConfig' <= version, k = "today" => shownConfig' = shownConfig,
             savedProvider => savedProvider', k = "save" => savedProvider', inFlight' = inFlight,
             \A c \in Commands : commands'[c].seen <= version
      PROVE  Goal
  <2>1. /\ ReadsInv'
        /\ \A r \in Reads : reads[r].pc # "idle" =>
             reads'[r].pc = reads[r].pc /\ reads'[r].kind = reads[r].kind
    BY <1>s, StartStep
  <2>2. ShownBehind' BY <1>0, <1>s, <2>1 DEF ReadsInv, SeenBehind, ShownBehind
  <2>3. Gateway!NeverLockedOut' BY <1>0, <1>s, <2>1 DEF Gateway!NeverLockedOut
  <2> QED BY <2>1, <2>2, <2>3
<1>3. ASSUME Gateway!Broadcast PROVE Goal
  BY <1>0, <1>3, <1>l DEF Gateway!Broadcast, ShownBehind
<1>4. ASSUME Gateway!Today PROVE Goal
  BY <1>0, <1>4, <1>s DEF Gateway!Today, ShownBehind
<1>5. ASSUME Gateway!Hide PROVE Goal
  <2>1. /\ ReadsInv'
        /\ \A r \in Reads : reads'[r].pc = reads[r].pc /\ reads'[r].kind = reads[r].kind
    BY <1>5, SupersedeStep DEF Gateway!Hide
  <2> QED
    BY <1>0, <1>5, <2>1 DEF Gateway!Hide, ShownBehind, ReadsInv, SeenBehind,
       Gateway!NeverLockedOut
<1>6. ASSUME Gateway!Show PROVE Goal
  BY <1>0, <1>6, <1>s DEF Gateway!Show, ShownBehind
<1>7. ASSUME NEW c \in Commands,
             Gateway!Apply(c) \/ Gateway!Saved(c) \/ Gateway!PoolSaved(c) \/ Gateway!TemplateSaved(c)
      PROVE Goal
  <2>1. \A d \in Commands : commands'[d].seen <= version
    <3>1. commands' = [commands EXCEPT ![c] = Gateway!IdleCommand]
      BY <1>7 DEF Gateway!Apply, Gateway!Saved, Gateway!PoolSaved, Gateway!TemplateSaved
    <3>2. commands'[c].seen = 0 /\ \A d \in Commands \ {c} : commands'[d] = commands[d]
      BY <1>0, <3>1, GatewayIdles
    <3> QED BY <1>0, <3>2 DEF ShownBehind
  <2>2. commands[c].seen <= version BY <1>0 DEF ShownBehind
  <2>3. CASE Gateway!Apply(c) BY <1>0, <1>s, <2>1, <2>2, <2>3 DEF Gateway!Apply
  <2>4. CASE Gateway!Saved(c) BY <1>0, <1>s, <2>1, <2>2, <2>4 DEF Gateway!Saved
  <2>5. CASE Gateway!PoolSaved(c)
    <3>1. /\ ReadsInv'
          /\ \A r \in Reads : reads'[r].pc = reads[r].pc /\ reads'[r].kind = reads[r].kind
      BY <2>5, SupersedeStep DEF Gateway!PoolSaved
    <3> QED BY <1>0, <2>1, <2>2, <2>5, <3>1
         DEF Gateway!PoolSaved, ShownBehind, ReadsInv, SeenBehind, Gateway!NeverLockedOut
  <2>6. CASE Gateway!TemplateSaved(c) BY <1>l, <2>1, <2>6 DEF Gateway!TemplateSaved
  <2> QED BY <1>7, <2>3, <2>4, <2>5, <2>6
<1>8. ASSUME NEW r \in Reads, Gateway!Answer(r) PROVE Goal
  <2>0. reads[r] \in Gateway!ReadStates BY <1>0
  <2>1. /\ reads'[r].pc = "answered" /\ reads'[r].seen = version
        /\ reads'[r].kind = reads[r].kind
        /\ reads'[r].live = reads[r].live /\ reads'[r].slive = reads[r].slive
        /\ \A q \in Reads \ {r} : reads'[q] = reads[q]
    BY <1>0, <1>8, <2>0 DEF Gateway!Answer, Gateway!ReadStates
  <2>2. reads[r].pc = "asked" /\ UNCHANGED <<version, Gateway!page, commands, savedProvider, inFlight>>
    BY <1>8 DEF Gateway!Answer
  <2>3. OneLive' /\ OneLiveStatus'
    BY <1>0, <2>1, <2>2 DEF ReadsInv, OneLive, OneLiveStatus, Counts, CountsStatus
  <2>4. LiveIsNewer'
    BY <1>0, <2>1, <2>2 DEF ReadsInv, LiveIsNewer, ShownBehind, Counts, CountsStatus
  <2>5. SavesAreSaved' BY <1>0, <2>1, <2>2 DEF ReadsInv, SavesAreSaved
  <2>6. SeenBehind' BY <1>0, <2>1, <2>2 DEF ReadsInv, SeenBehind
  <2>7. ShownBehind' BY <1>0, <2>2, <2>6 DEF ShownBehind, SeenBehind
  <2>8. Gateway!NeverLockedOut' BY <1>0, <2>1, <2>2 DEF Gateway!NeverLockedOut
  <2> QED BY <2>3, <2>4, <2>5, <2>6, <2>7, <2>8 DEF ReadsInv
<1>9. ASSUME NEW r \in Reads, NEW ok \in BOOLEAN,
             Gateway!Land(r, ok) \/ Gateway!LandScoped(r, ok)
      PROVE Goal
  BY <1>9, GatewayLands
<1>10. ASSUME UNCHANGED Gateway!vars PROVE Goal
  <2>1. ReadsInv' BY <1>0, <1>10, StillStep DEF Gateway!vars
  <2> QED BY <1>0, <1>10, <2>1 DEF Gateway!vars, ShownBehind, Gateway!NeverLockedOut
<1>11. Goal
  BY <1>1, <1>2, <1>3, <1>4, <1>5, <1>6, <1>7, <1>8, <1>9, <1>10 DEF Gateway!Next,
     Gateway!Native
<1>12. Gateway!TypeOK' BY <1>0, GatewayTypeStep DEF GatewayInv
<1>13. EventsBehind' BY EventsStep DEF GatewayInv
<1> QED BY <1>11, <1>12, <1>13 DEF GatewayInv, ReadsInv

\* The invariant in the initial state.
LEMMA GatewayInit == ASSUME Gateway!GatewayPageAssumption, Gateway!Init PROVE GatewayInv
<1>0. First \in Reads /\ 0 \in Gateway!Versions /\ "page" \in Gateway!Kinds
  BY GatewayIdles DEF Gateway!GatewayPageAssumption, Gateway!Kinds
<1>1. \A r \in Reads : reads[r] = IF r = First THEN Gateway!NewRead("page") ELSE Gateway!IdleRead
  BY DEF Gateway!Init
<1>2. \A r \in Reads : /\ reads[r].pc # "answered" /\ reads[r].seen = 0
                       /\ reads[r].kind = "page"
                       /\ r # First => reads[r].pc = "idle"
  BY <1>0, <1>1, NewReadTyped, GatewayIdles
<1>3. \A c \in Commands : commands[c].seen = 0 BY GatewayIdles DEF Gateway!Init
<1>4. reads \in [Reads -> Gateway!ReadStates] /\ commands \in [Commands -> Gateway!CommandStates]
  BY <1>0, NewReadTyped, GatewayIdles DEF Gateway!Init
<1>5. Gateway!TypeOK /\ EventsBehind
  <2>1. 0 \in 0..MaxHidden /\ 0 \in 0..MaxPageChanges BY DEF Gateway!GatewayPageAssumption
  <2>2. 0 <= 0 OBVIOUS
  <2> QED BY <1>0, <1>4, <2>1, <2>2 DEF Gateway!Init, Gateway!TypeOK, EventsBehind
<1>6. OneLive /\ OneLiveStatus /\ LiveIsNewer /\ SavesAreSaved
  BY <1>2 DEF OneLive, OneLiveStatus, LiveIsNewer, SavesAreSaved, Counts, CountsStatus
<1>7. ShownBehind BY <1>2, <1>3 DEF Gateway!Init, ShownBehind
<1>8. Gateway!NeverLockedOut BY DEF Gateway!Init, Gateway!NeverLockedOut
<1> QED BY <1>5, <1>6, <1>7, <1>8 DEF GatewayInv

\* No reply takes the page back.
LEMMA NoStepBack ==
    ASSUME Gateway!GatewayPageAssumption, GatewayInv, Gateway!Next
    PROVE  /\ shownConfig' < shownConfig =>
                \E c \in Commands : commands[c].pc = "done" /\ commands'[c].pc = "idle"
           /\ shownStatus' < shownStatus => savedProvider
<1> DEFINE Goal == /\ shownConfig' < shownConfig =>
                        \E c \in Commands : commands[c].pc = "done" /\ commands'[c].pc = "idle"
                   /\ shownStatus' < shownStatus => savedProvider
<1>0. /\ shownConfig \in Nat /\ shownStatus \in Nat
      /\ commands \in [Commands -> Gateway!CommandStates]
      /\ Gateway!TypeOK' /\ shownConfig' \in Nat /\ shownStatus' \in Nat
  <2>1. Gateway!TypeOK' BY GatewayTypeStep DEF GatewayInv
  <2> QED BY <2>1 DEF GatewayInv, Gateway!TypeOK, Gateway!Versions
<1>1. ASSUME UNCHANGED Gateway!page PROVE Goal BY <1>0, <1>1 DEF Gateway!page
<1>2. ASSUME NEW c \in Commands, commands[c].pc = "done",
             commands' = [commands EXCEPT ![c] = Gateway!IdleCommand], shownStatus' = shownStatus
      PROVE  Goal
  BY <1>0, <1>2, GatewayIdles
<1>3. ASSUME NEW r \in Reads, NEW ok \in BOOLEAN,
             Gateway!Land(r, ok) \/ Gateway!LandScoped(r, ok)
      PROVE  Goal
  <2>1. shownConfig <= shownConfig' /\ (savedProvider \/ shownStatus <= shownStatus')
    BY <1>3, ShowsNewer DEF Gateway!Land, Gateway!LandScoped
  <2> QED BY <1>0, <2>1
<1>4. ASSUME NEW c \in Commands,
             Gateway!Apply(c) \/ Gateway!Saved(c) \/ Gateway!PoolSaved(c) \/ Gateway!TemplateSaved(c)
      PROVE  Goal
  BY <1>2, <1>4 DEF Gateway!Apply, Gateway!Saved, Gateway!PoolSaved,
     Gateway!TemplateSaved, Gateway!page
<1>5. CASE Gateway!Native \/ Gateway!Broadcast \/ Gateway!Today \/ Gateway!Hide \/ Gateway!Show
  BY <1>1, <1>5 DEF Gateway!Native, Gateway!Change, Gateway!Send, Gateway!Execute,
     Gateway!Reread, Gateway!CommandFails, Gateway!Broadcast,
     Gateway!Today, Gateway!Hide, Gateway!Show
<1>6. ASSUME NEW r \in Reads, Gateway!Answer(r)
      PROVE  Goal BY <1>1, <1>6 DEF Gateway!Answer
<1> QED BY <1>3, <1>4, <1>5, <1>6 DEF Gateway!Next

\* All of it holds in every state.
LEMMA AlwaysGatewayInv ==
    ASSUME Gateway!GatewayPageAssumption
    PROVE  Gateway!Spec => []GatewayInv
<1>1. Gateway!Init => GatewayInv BY GatewayInit
<1>2. GatewayInv /\ [Gateway!Next]_(Gateway!vars) => GatewayInv' BY GatewayStep
<1> QED BY <1>1, <1>2, PTL DEF Gateway!Spec

\* The types of the page's state, for any reads, commands and changes.
THEOREM GatewayTypeCorrect ==
    ASSUME Gateway!GatewayPageAssumption
    PROVE  Gateway!Spec => []Gateway!TypeOK
<1>1. GatewayInv => Gateway!TypeOK BY DEF GatewayInv
<1> QED BY <1>1, AlwaysGatewayInv, PTL

\* The page never puts broadcasts off for a read that nobody does.
THEOREM BroadcastsFindRoom ==
    ASSUME Gateway!GatewayPageAssumption
    PROVE  Gateway!Spec => []Gateway!NeverLockedOut
<1>1. GatewayInv => Gateway!NeverLockedOut BY DEF GatewayInv
<1> QED BY <1>1, AlwaysGatewayInv, PTL

\* No read brings back an older configuration, nor, until a provider is saved, an
\* older status, in whatever order any number of replies come.
THEOREM RepliesDoNotGoBack ==
    ASSUME Gateway!GatewayPageAssumption
    PROVE  Gateway!Spec => Gateway!ReadsNeverGoBack
<1>1. GatewayInv /\ [Gateway!Next]_(Gateway!vars) =>
        [/\ shownConfig' < shownConfig =>
              \E c \in Commands : commands[c].pc = "done" /\ commands'[c].pc = "idle"
         /\ shownStatus' < shownStatus => savedProvider]_(Gateway!vars)
  BY NoStepBack
<1> QED BY <1>1, AlwaysGatewayInv, PTL DEF Gateway!Spec, Gateway!ReadsNeverGoBack

-----------------------------------------------------------------------------
(*************************************************************************)
(* RuntimeStatus: the status the pages share never goes back, and while  *)
(* it is shown as loading it is being fetched.                           *)
(*                                                                       *)
(* The argument. A fetch that begins, and a status that is published,    *)
(* make all fetches under way stale, so that one at most is the latest   *)
(* (OneLatest). Since it was asked nothing has replaced the entry, and   *)
(* nothing that is shown or on its way is newer than the service         *)
(* (NotAhead), so that what it has seen is not older than the entry      *)
(* (LatestIsNewest).                                                     *)
(*************************************************************************)
\* Nothing that is shown or on its way is newer than the service.
NotAhead ==
    /\ data <= turn
    /\ \A i \in 1..Len(payloads) : payloads[i] <= turn
    /\ \A p \in Readers : readers[p] <= turn
    /\ \A f \in Fetches : fetches[f].seen <= turn

\* One fetch at most is the latest, and what it has seen is not older than the entry.
OneLatest == \A f, g \in Fetches : fetches[f].latest /\ fetches[g].latest => f = g
LatestIsNewest == \A f \in Fetches :
    fetches[f].latest /\ fetches[f].pc = "answered" /\ fetches[f].seen # Runtime!None =>
        data <= fetches[f].seen

\* The inductive invariant.
RuntimeInv ==
    /\ Runtime!TypeOK
    /\ NotAhead
    /\ OneLatest
    /\ LatestIsNewest
    /\ Runtime!LoadingIsFetched

-----------------------------------------------------------------------------
\* A number of the service, or none of them, is an integer.
LEMMA TurnsAreInts == ASSUME Runtime!RuntimeStatusAssumption
    PROVE Runtime!Turns \cup {Runtime!None} \subseteq Int /\ Runtime!Turns \subseteq Int /\ Runtime!None \in Int
          /\ \A v \in Runtime!Turns : Runtime!None < v
BY DEF Runtime!Turns, Runtime!None, Runtime!RuntimeStatusAssumption

\* The fields of a fetch.
LEMMA FetchTyped ==
    ASSUME Runtime!TypeOK, NEW f \in Fetches
    PROVE  /\ fetches[f] \in Runtime!FetchStates
           /\ fetches[f].pc \in {"idle", "asked", "answered"}
           /\ fetches[f].latest \in BOOLEAN
           /\ fetches[f].seen \in Runtime!Turns \cup {Runtime!None}
BY DEF Runtime!TypeOK, Runtime!FetchStates

\* The fields of a fetch at rest.
LEMMA IdleFetchTyped ==
    /\ Runtime!IdleFetch \in Runtime!FetchStates
    /\ Runtime!IdleFetch.pc = "idle"
    /\ Runtime!IdleFetch.latest = FALSE
    /\ Runtime!IdleFetch.seen = Runtime!None
BY DEF Runtime!IdleFetch, Runtime!FetchStates

\* A fetch that was overtaken is as it was, but for that.
LEMMA OutdatedFields ==
    ASSUME Runtime!TypeOK
    PROVE  /\ Runtime!Outdated \in [Fetches -> Runtime!FetchStates]
           /\ \A f \in Fetches : /\ Runtime!Outdated[f].pc = fetches[f].pc
                                 /\ Runtime!Outdated[f].seen = fetches[f].seen
                                 /\ Runtime!Outdated[f].latest = FALSE
<1> SUFFICES ASSUME NEW f \in Fetches
             PROVE  LET r == [fetches[f] EXCEPT !.latest = FALSE] IN
                    /\ r \in Runtime!FetchStates /\ r.pc = fetches[f].pc
                    /\ r.seen = fetches[f].seen /\ r.latest = FALSE
  BY DEF Runtime!Outdated
<1>1. fetches[f] \in Runtime!FetchStates BY FetchTyped
<1> QED BY <1>1 DEF Runtime!FetchStates

\* What a fetch that starts, one that answers and one that ends make of the fetches.
StartedAt(f) ==
    /\ fetches' \in [Fetches -> Runtime!FetchStates]
    /\ fetches'[f].pc = "asked" /\ fetches'[f].latest /\ fetches'[f].seen = Runtime!None
    /\ \A g \in Fetches \ {f} : /\ fetches'[g].pc = fetches[g].pc
                                /\ fetches'[g].seen = fetches[g].seen
                                /\ ~fetches'[g].latest

\* A refresh joins the fetch that is under way or starts the latest one.
LEMMA RefreshStarts ==
    ASSUME Runtime!TypeOK, NEW f \in Fetches, NEW force \in BOOLEAN,
           Runtime!Refresh(f, force)
    PROVE  \/ UNCHANGED <<Runtime!entry, joinable, fetches>>
           \/ /\ StartedAt(f) /\ joinable' = f /\ loading' = TRUE
              /\ data' = data /\ failed' = failed
<1>1. CASE joinable # NoFetch /\ ~force BY <1>1 DEF Runtime!Refresh
<1>2. CASE ~(joinable # NoFetch /\ ~force)
  <2> DEFINE new == [pc |-> "asked", latest |-> TRUE, seen |-> Runtime!None]
  <2>1. new \in Runtime!FetchStates BY DEF Runtime!FetchStates
  <2>2. fetches' = [Runtime!Outdated EXCEPT ![f] = new] BY <1>2 DEF Runtime!Refresh
  <2>3. StartedAt(f) BY <2>1, <2>2, OutdatedFields DEF StartedAt
  <2> QED BY <1>2, <2>3 DEF Runtime!Refresh
<1> QED BY <1>1, <1>2

\* The fetches after an answer of the service,
LEMMA AnswerFields ==
    ASSUME Runtime!TypeOK, NEW f \in Fetches, NEW ok \in BOOLEAN, Runtime!Answer(f, ok)
    PROVE  /\ fetches' \in [Fetches -> Runtime!FetchStates]
           /\ fetches'[f].pc = "answered" /\ fetches'[f].latest = fetches[f].latest
           /\ fetches'[f].seen = IF ok THEN turn ELSE Runtime!None
           /\ \A g \in Fetches \ {f} : fetches'[g] = fetches[g]
<1> DEFINE seen == IF ok THEN turn ELSE Runtime!None
           q == [fetches[f] EXCEPT !.pc = "answered"]
           r == [q EXCEPT !.seen = seen]
<1>1. fetches[f] \in Runtime!FetchStates BY FetchTyped
<1>2. q \in Runtime!FetchStates /\ q.pc = "answered" /\ q.latest = fetches[f].latest
  BY <1>1 DEF Runtime!FetchStates
<1>3. seen \in Runtime!Turns \cup {Runtime!None} BY DEF Runtime!TypeOK
<1>4. fetches' = [fetches EXCEPT ![f] = r] BY DEF Runtime!Answer, Runtime!TypeOK
<1> HIDE DEF q, seen
<1>5. r \in Runtime!FetchStates /\ r.pc = q.pc /\ r.latest = q.latest /\ r.seen = seen
  BY <1>2, <1>3 DEF Runtime!FetchStates
<1> HIDE DEF r
<1>6. \A g \in Fetches \ {f} : fetches'[g] = fetches[g] BY <1>4 DEF Runtime!TypeOK
<1> QED BY <1>2, <1>4, <1>5, <1>6 DEF Runtime!TypeOK, seen

\* and after one has landed.
LEMMA LandFields ==
    ASSUME Runtime!TypeOK, NEW f \in Fetches, Runtime!Land(f)
    PROVE  /\ fetches' \in [Fetches -> Runtime!FetchStates]
           /\ fetches'[f] = Runtime!IdleFetch
           /\ \A g \in Fetches \ {f} : fetches'[g] = fetches[g]
           /\ UNCHANGED <<turn, payloads, queued, readers>>
           /\ joinable' \in Fetches \cup {NoFetch}
           /\ fetches[f].pc = "answered"
           /\ \/ ~fetches[f].latest /\ UNCHANGED Runtime!entry
              \/ /\ fetches[f].latest /\ fetches[f].seen # Runtime!None
                 /\ data' = fetches[f].seen /\ loading' = FALSE /\ failed' = FALSE
              \/ /\ fetches[f].latest /\ fetches[f].seen = Runtime!None
                 /\ data' = data /\ loading' = FALSE /\ failed' = TRUE
BY IdleFetchTyped DEF Runtime!Land, Runtime!TypeOK

-----------------------------------------------------------------------------
\* The invariant in the initial state.
LEMMA RuntimeInit == ASSUME Runtime!RuntimeStatusAssumption, Runtime!Init PROVE RuntimeInv
<1>1. Runtime!TypeOK
  <2>1. 0 \in Runtime!Turns BY DEF Runtime!Turns, Runtime!RuntimeStatusAssumption
  <2>2. fetches \in [Fetches -> Runtime!FetchStates] BY IdleFetchTyped DEF Runtime!Init
  <2>3. payloads \in Seq(Runtime!Turns \cup {Runtime!None}) BY DEF Runtime!Init
  <2> QED BY <2>1, <2>2, <2>3 DEF Runtime!Init, Runtime!TypeOK
<1>2. \A f \in Fetches : fetches[f] = Runtime!IdleFetch BY DEF Runtime!Init
<1> QED
  BY <1>1, <1>2, IdleFetchTyped DEF Runtime!Init, RuntimeInv, NotAhead, OneLatest,
     LatestIsNewest, Runtime!LoadingIsFetched, Runtime!None

\* The entry is published: every fetch under way is overtaken.
LEMMA PublishedKeeps ==
    ASSUME Runtime!RuntimeStatusAssumption, RuntimeInv, NEW v \in Runtime!Turns,
           v <= turn, Runtime!Published(v),
           turn' = turn, joinable' = joinable, queued' \in BOOLEAN,
           payloads' \in Seq(Runtime!Turns \cup {Runtime!None}),
           \A i \in 1..Len(payloads') : payloads'[i] <= turn,
           readers' \in [Readers -> Runtime!Turns \cup {Runtime!None}],
           \A p \in Readers : readers'[p] <= turn
    PROVE  RuntimeInv'
<1>1. /\ fetches' \in [Fetches -> Runtime!FetchStates]
      /\ \A f \in Fetches : ~fetches'[f].latest /\ fetches'[f].seen = fetches[f].seen
  BY OutdatedFields DEF Runtime!Published, RuntimeInv
<1>2. Runtime!TypeOK' BY <1>1 DEF RuntimeInv, Runtime!TypeOK, Runtime!Published
<1>3. NotAhead' BY <1>1 DEF RuntimeInv, NotAhead, Runtime!Published
<1>4. OneLatest' /\ LatestIsNewest' BY <1>1 DEF OneLatest, LatestIsNewest
<1>5. Runtime!LoadingIsFetched' BY DEF Runtime!Published, Runtime!LoadingIsFetched
<1> QED BY <1>2, <1>3, <1>4, <1>5 DEF RuntimeInv

\* A refresh keeps it, whoever asked for it.
LEMMA RuntimeRefresh ==
    ASSUME Runtime!RuntimeStatusAssumption, RuntimeInv, NEW f \in Fetches,
           NEW force \in BOOLEAN,
           Runtime!Refresh(f, force), UNCHANGED <<turn, payloads, readers>>, queued' \in BOOLEAN
    PROVE  RuntimeInv'
<1>0. Runtime!TypeOK /\ NotAhead /\ OneLatest /\ LatestIsNewest /\ Runtime!LoadingIsFetched
  BY DEF RuntimeInv
<1>1. CASE UNCHANGED <<Runtime!entry, joinable, fetches>>
  <2>1. Runtime!TypeOK' BY <1>0, <1>1 DEF Runtime!TypeOK, Runtime!entry
  <2> QED
    BY <1>0, <1>1, <2>1 DEF RuntimeInv, NotAhead, OneLatest, LatestIsNewest,
       Runtime!LoadingIsFetched, Runtime!entry
<1>2. CASE /\ StartedAt(f) /\ joinable' = f /\ loading' = TRUE
           /\ data' = data /\ failed' = failed
  <2>1. Runtime!TypeOK' BY <1>0, <1>2 DEF Runtime!TypeOK, StartedAt
  <2>2. NotAhead'
    BY <1>0, <1>2, TurnsAreInts DEF NotAhead, StartedAt, Runtime!TypeOK, Runtime!Turns,
       Runtime!None,
       Runtime!RuntimeStatusAssumption
  <2>3. OneLatest' /\ LatestIsNewest' /\ Runtime!LoadingIsFetched'
    BY <1>2 DEF OneLatest, LatestIsNewest, Runtime!LoadingIsFetched, StartedAt
  <2> QED BY <2>1, <2>2, <2>3 DEF RuntimeInv
<1> QED BY <1>0, <1>1, <1>2, RefreshStarts

\* One step per action.
LEMMA RuntimeStep ==
    ASSUME Runtime!RuntimeStatusAssumption, RuntimeInv, [Runtime!Next]_(Runtime!vars)
    PROVE  RuntimeInv'
<1>0. Runtime!TypeOK /\ NotAhead /\ OneLatest /\ LatestIsNewest /\ Runtime!LoadingIsFetched
  BY DEF RuntimeInv
<1>i. /\ turn \in Runtime!Turns
      /\ Runtime!Turns \subseteq Nat
      /\ turn \in Nat
      /\ Runtime!None = -1
      /\ payloads \in Seq(Runtime!Turns \cup {Runtime!None})
      /\ Runtime!Turns \cup {Runtime!None} \subseteq Int
  BY <1>0 DEF Runtime!TypeOK, Runtime!Turns, Runtime!None, Runtime!RuntimeStatusAssumption
<1>1. ASSUME NEW payload \in BOOLEAN, Runtime!Change(payload) PROVE RuntimeInv'
  <2>1. turn' = turn + 1 /\ turn' \in Runtime!Turns
    BY <1>i, <1>1 DEF Runtime!Change, Runtime!Turns, Runtime!RuntimeStatusAssumption
  <2> DEFINE v == IF payload THEN turn + 1 ELSE Runtime!None
  <2>2. v \in Runtime!Turns \cup {Runtime!None} /\ v <= turn' BY <1>i, <2>1
  <2>3. payloads' = Append(payloads, v) BY <1>1 DEF Runtime!Change
  <2>4. /\ payloads' \in Seq(Runtime!Turns \cup {Runtime!None})
        /\ Len(payloads') = Len(payloads) + 1
        /\ \A i \in 1..Len(payloads) : payloads'[i] = payloads[i]
        /\ payloads'[Len(payloads) + 1] = v
    BY <1>i, <2>2, <2>3
  <2>5. Runtime!TypeOK'
    BY <1>0, <1>1, <2>1, <2>4 DEF Runtime!TypeOK, Runtime!Change, Runtime!entry
  <2>6. \A i \in 1..Len(payloads') : payloads'[i] <= turn'
    <3> SUFFICES ASSUME NEW i \in 1..Len(payloads') PROVE payloads'[i] <= turn'
      OBVIOUS
    <3>1. Len(payloads) \in Nat BY <1>i
    <3>2. CASE i \in 1..Len(payloads)
      <4>1. payloads[i] \in Runtime!Turns \cup {Runtime!None} BY <1>i, <3>1, <3>2
      <4>2. payloads[i] \in Int /\ payloads[i] <= turn
        BY <1>0, <1>i, <3>2, <4>1 DEF NotAhead
      <4> QED BY <1>i, <2>1, <2>4, <3>2, <4>2
    <3>3. CASE i = Len(payloads) + 1 BY <2>2, <2>4, <3>3
    <3> QED BY <2>4, <3>1, <3>2, <3>3
  <2>7. NotAhead'
    <3>1. UNCHANGED <<data, readers, fetches>> BY <1>1 DEF Runtime!Change, Runtime!entry
    <3>2. /\ data \in Int /\ \A p \in Readers : readers[p] \in Int
          /\ \A f \in Fetches : fetches[f].seen \in Int
      BY <1>0, <1>i, FetchTyped DEF Runtime!TypeOK
    <3> QED BY <1>0, <1>i, <2>1, <2>6, <3>1, <3>2 DEF NotAhead
  <2> QED
    BY <1>0, <1>1, <2>5, <2>7 DEF RuntimeInv, OneLatest, LatestIsNewest,
       Runtime!LoadingIsFetched, Runtime!Change, Runtime!entry
<1>2. ASSUME Runtime!Event PROVE RuntimeInv'
  <2>1. /\ payloads # <<>> /\ payloads' = Tail(payloads)
        /\ UNCHANGED <<turn, joinable, readers>> /\ queued' \in BOOLEAN
    BY <1>0, <1>2 DEF Runtime!Event, Runtime!TypeOK
  <2>2. /\ payloads' \in Seq(Runtime!Turns \cup {Runtime!None})
        /\ Len(payloads') = Len(payloads) - 1
        /\ \A i \in 1..Len(payloads') : payloads'[i] = payloads[i + 1]
        /\ Head(payloads) = payloads[1] /\ 1 \in 1..Len(payloads)
        /\ Head(payloads) \in Runtime!Turns \cup {Runtime!None}
    BY <1>i, <2>1
  <2>3. \A i \in 1..Len(payloads') : payloads'[i] <= turn
    BY <1>0, <1>i, <2>2 DEF NotAhead
  <2>4. CASE Head(payloads) = Runtime!None
    <3>1. UNCHANGED <<Runtime!entry, fetches>> BY <1>2, <2>4 DEF Runtime!Event
    <3>2. Runtime!TypeOK' BY <1>0, <2>1, <2>2, <3>1 DEF Runtime!TypeOK, Runtime!entry
    <3>3. NotAhead' BY <1>0, <2>1, <2>3, <3>1 DEF NotAhead, Runtime!entry
    <3> QED
      BY <1>0, <3>1, <3>2, <3>3 DEF RuntimeInv, OneLatest, LatestIsNewest,
         Runtime!LoadingIsFetched, Runtime!entry
  <2>5. CASE Head(payloads) # Runtime!None
    <3>1. Runtime!Published(Head(payloads)) BY <1>2, <2>5 DEF Runtime!Event
    <3>2. Head(payloads) \in Runtime!Turns /\ Head(payloads) <= turn
      BY <1>0, <2>2, <2>5 DEF NotAhead
    <3>3. readers' \in [Readers -> Runtime!Turns \cup {Runtime!None}] /\ \A p \in Readers : readers'[p] <= turn
      BY <1>0, <2>1 DEF Runtime!TypeOK, NotAhead
    <3> QED BY <2>1, <2>2, <2>3, <3>1, <3>2, <3>3, PublishedKeeps
  <2> QED BY <2>4, <2>5
<1>3. ASSUME NEW f \in Fetches, NEW force \in BOOLEAN, Runtime!Ask(f, force)
      PROVE  RuntimeInv'
  BY <1>0, <1>3, RuntimeRefresh DEF Runtime!Ask, Runtime!TypeOK
<1>4. ASSUME NEW f \in Fetches, Runtime!Fallback(f) PROVE RuntimeInv'
  BY <1>4, RuntimeRefresh DEF Runtime!Fallback
<1>5. ASSUME NEW f \in Fetches, NEW ok \in BOOLEAN, Runtime!Answer(f, ok)
      PROVE  RuntimeInv'
  <2>1. /\ fetches' \in [Fetches -> Runtime!FetchStates]
        /\ fetches'[f].pc = "answered" /\ fetches'[f].latest = fetches[f].latest
        /\ fetches'[f].seen = IF ok THEN turn ELSE Runtime!None
        /\ \A g \in Fetches \ {f} : fetches'[g] = fetches[g]
    BY <1>0, <1>5, AnswerFields
  <2>2. UNCHANGED <<turn, payloads, Runtime!entry, joinable, queued, readers>>
    BY <1>5 DEF Runtime!Answer
  <2>3. Runtime!TypeOK' BY <1>0, <2>1, <2>2 DEF Runtime!TypeOK, Runtime!entry
  <2>4. NotAhead' BY <1>0, <1>i, <2>1, <2>2 DEF NotAhead, Runtime!entry
  <2>5. OneLatest' BY <1>0, <2>1 DEF OneLatest
  <2>6. LatestIsNewest' BY <1>0, <2>1, <2>2 DEF LatestIsNewest, NotAhead, Runtime!entry
  <2>7. Runtime!LoadingIsFetched'
    BY <1>0, <2>1, <2>2, <1>5 DEF Runtime!LoadingIsFetched, Runtime!Answer,
       Runtime!entry
  <2> QED BY <2>3, <2>4, <2>5, <2>6, <2>7 DEF RuntimeInv
<1>6. ASSUME NEW f \in Fetches, Runtime!Land(f) PROVE RuntimeInv'
  <2>1. /\ fetches' \in [Fetches -> Runtime!FetchStates]
        /\ fetches'[f] = Runtime!IdleFetch
        /\ \A g \in Fetches \ {f} : fetches'[g] = fetches[g]
        /\ UNCHANGED <<turn, payloads, queued, readers>>
        /\ joinable' \in Fetches \cup {NoFetch}
        /\ fetches[f].pc = "answered"
        /\ \/ ~fetches[f].latest /\ UNCHANGED Runtime!entry
           \/ /\ fetches[f].latest /\ fetches[f].seen # Runtime!None
              /\ data' = fetches[f].seen /\ loading' = FALSE /\ failed' = FALSE
           \/ /\ fetches[f].latest /\ fetches[f].seen = Runtime!None
              /\ data' = data /\ loading' = FALSE /\ failed' = TRUE
    BY <1>0, <1>6, LandFields
  <2>2. fetches[f].seen \in Runtime!Turns \cup {Runtime!None} BY <1>0, FetchTyped
  <2>3. Runtime!TypeOK' BY <1>0, <2>1, <2>2 DEF Runtime!TypeOK, Runtime!entry
  <2>4. NotAhead' BY <1>0, <1>i, <2>1, IdleFetchTyped DEF NotAhead, Runtime!entry
  <2>5. OneLatest' BY <1>0, <2>1, IdleFetchTyped DEF OneLatest
  <2>6. LatestIsNewest'
    BY <1>0, <2>1, IdleFetchTyped DEF LatestIsNewest, OneLatest, Runtime!entry
  <2>7. Runtime!LoadingIsFetched'
    BY <1>0, <2>1 DEF Runtime!LoadingIsFetched, Runtime!entry
  <2> QED BY <2>3, <2>4, <2>5, <2>6, <2>7 DEF RuntimeInv
<1>7. ASSUME NEW p \in Readers, Runtime!PageReads(p) PROVE RuntimeInv'
  <2>1. /\ readers' \in [Readers -> Runtime!Turns \cup {Runtime!None}]
        /\ \A q \in Readers : readers'[q] = readers[q] \/ readers'[q] = turn
        /\ UNCHANGED <<turn, payloads, Runtime!entry, joinable, queued, fetches>>
    BY <1>0, <1>7 DEF Runtime!PageReads, Runtime!TypeOK
  <2>2. Runtime!TypeOK' BY <1>0, <2>1 DEF Runtime!TypeOK, Runtime!entry
  <2>3. NotAhead' BY <1>0, <1>i, <2>1 DEF NotAhead, Runtime!entry
  <2> QED
    BY <1>0, <2>1, <2>2, <2>3 DEF RuntimeInv, OneLatest, LatestIsNewest,
       Runtime!LoadingIsFetched, Runtime!entry
<1>8. ASSUME NEW p \in Readers, Runtime!PagePublishes(p) PROVE RuntimeInv'
  <2>1. /\ readers[p] # Runtime!None /\ Runtime!Published(readers[p])
        /\ UNCHANGED <<turn, payloads, joinable, queued>>
        /\ readers' = [readers EXCEPT ![p] = Runtime!None]
    BY <1>8 DEF Runtime!PagePublishes
  <2>2. readers[p] \in Runtime!Turns /\ readers[p] <= turn
    BY <1>0, <2>1 DEF Runtime!TypeOK, NotAhead
  <2>3. /\ readers' \in [Readers -> Runtime!Turns \cup {Runtime!None}]
        /\ \A q \in Readers : readers'[q] <= turn
    BY <1>0, <1>i, <2>1 DEF Runtime!TypeOK, NotAhead
  <2>4. /\ payloads' \in Seq(Runtime!Turns \cup {Runtime!None}) /\ queued' \in BOOLEAN
        /\ \A i \in 1..Len(payloads') : payloads'[i] <= turn
    BY <1>0, <2>1 DEF Runtime!TypeOK, NotAhead
  <2> QED BY <2>1, <2>2, <2>3, <2>4, PublishedKeeps
<1>9. CASE UNCHANGED Runtime!vars
  <2>1. Runtime!TypeOK' BY <1>0, <1>9 DEF Runtime!TypeOK, Runtime!vars, Runtime!entry
  <2> QED
    BY <1>0, <1>9, <2>1 DEF RuntimeInv, NotAhead, OneLatest, LatestIsNewest,
       Runtime!LoadingIsFetched, Runtime!vars, Runtime!entry
<1> QED
  BY <1>1, <1>2, <1>3, <1>4, <1>5, <1>6, <1>7, <1>8, <1>9 DEF Runtime!Next

\* All of it holds in every state.
LEMMA AlwaysRuntimeInv ==
    ASSUME Runtime!RuntimeStatusAssumption
    PROVE  Runtime!Spec => []RuntimeInv
<1>1. Runtime!Init => RuntimeInv BY RuntimeInit
<1>2. RuntimeInv /\ [Runtime!Next]_(Runtime!vars) => RuntimeInv' BY RuntimeStep
<1> QED BY <1>1, <1>2, PTL DEF Runtime!Spec

\* A step that takes the entry back is no reply.
LEMMA NoReplyGoesBack ==
    ASSUME Runtime!RuntimeStatusAssumption, RuntimeInv, [Runtime!Next]_(Runtime!vars)
    PROVE  [data' < data => \A f \in Fetches : fetches'[f].pc = fetches[f].pc]_(Runtime!vars)
<1>0. Runtime!TypeOK /\ LatestIsNewest BY DEF RuntimeInv
<1> SUFFICES ASSUME Runtime!Next, data' < data
             PROVE  \A f \in Fetches : fetches'[f].pc = fetches[f].pc
  OBVIOUS
<1>i. data \in Int BY <1>0, TurnsAreInts DEF Runtime!TypeOK
<1>1. ASSUME data' = data PROVE FALSE BY <1>1, <1>i
<1>2. ASSUME NEW v, Runtime!Published(v)
      PROVE  \A f \in Fetches : fetches'[f].pc = fetches[f].pc
  BY <1>0, <1>2, OutdatedFields DEF Runtime!Published
<1>3. ASSUME NEW payload \in BOOLEAN, Runtime!Change(payload) PROVE FALSE
  BY <1>1, <1>3 DEF Runtime!Change, Runtime!entry
<1>4. ASSUME Runtime!Event PROVE \A f \in Fetches : fetches'[f].pc = fetches[f].pc
  BY <1>1, <1>2, <1>4 DEF Runtime!Event, Runtime!entry
<1>5. ASSUME NEW f \in Fetches, NEW b \in BOOLEAN, Runtime!Ask(f, b) \/ Runtime!Answer(f, b)
      PROVE  FALSE
  BY <1>1, <1>5 DEF Runtime!Ask, Runtime!Answer, Runtime!Refresh, Runtime!entry
<1>6. ASSUME NEW f \in Fetches, Runtime!Fallback(f) PROVE FALSE
  BY <1>1, <1>6 DEF Runtime!Fallback, Runtime!Refresh, Runtime!entry
<1>7. ASSUME NEW f \in Fetches, Runtime!Land(f) PROVE FALSE
  <2>1. \/ data' = data
        \/ fetches[f].latest /\ fetches[f].seen # Runtime!None /\ data' = fetches[f].seen
    BY <1>7 DEF Runtime!Land, Runtime!entry
  <2>2. fetches[f].seen \in Int BY <1>0, FetchTyped, TurnsAreInts
  <2>3. fetches[f].pc = "answered" BY <1>7 DEF Runtime!Land
  <2> QED BY <1>0, <1>1, <1>i, <2>1, <2>2, <2>3 DEF LatestIsNewest
<1>8. ASSUME NEW p \in Readers, Runtime!PageReads(p) PROVE FALSE
  BY <1>1, <1>8 DEF Runtime!PageReads, Runtime!entry
<1>9. ASSUME NEW p \in Readers, Runtime!PagePublishes(p)
      PROVE  \A f \in Fetches : fetches'[f].pc = fetches[f].pc
  BY <1>2, <1>9 DEF Runtime!PagePublishes
<1> QED BY <1>3, <1>4, <1>5, <1>6, <1>7, <1>8, <1>9 DEF Runtime!Next

\* No reply takes the status back that the pages share, in whatever order replies,
\* events and publications come.
THEOREM RuntimeNeverGoesBack ==
    ASSUME Runtime!RuntimeStatusAssumption
    PROVE  Runtime!Spec => Runtime!RepliesNeverGoBack
<1>1. RuntimeInv /\ [Runtime!Next]_(Runtime!vars) =>
        [data' < data => \A f \in Fetches : fetches'[f].pc = fetches[f].pc]_(Runtime!vars)
  BY NoReplyGoesBack
<1> QED BY <1>1, AlwaysRuntimeInv, PTL DEF Runtime!Spec, Runtime!RepliesNeverGoBack

-----------------------------------------------------------------------------
(*************************************************************************)
(* CloudAgentPage: what is shown was read of the host that is selected,  *)
(* and spinners stop.                                                    *)
(*                                                                       *)
(* The argument. The properties are inductive together. A change of the  *)
(* host clears what is shown and raises the generation, after which no   *)
(* read of the old host is live; a reply that is not live changes        *)
(* nothing, and the reads of one kind that a spinner waits for are live  *)
(* until something that stops it or reads again makes them stale.        *)
(*************************************************************************)
\* What the run checks is inductive with the types.
CloudAgentInv == CloudAgent!TypeOK /\ CloudAgent!OwnHostOnly /\ CloudAgent!SpinnersStop

\* The fields of a read, and of one whose generation was raised.
LEMMA HostReadFields ==
    ASSUME NEW r \in CloudAgent!HostRead
    PROVE  /\ r.kind \in CloudAgent!HostKinds /\ r.host \in Hosts /\ r.live \in BOOLEAN
           /\ CloudAgent!Raised(r) \in CloudAgent!HostRead
           /\ CloudAgent!Raised(r).kind = r.kind
           /\ CloudAgent!Raised(r).host = r.host /\ CloudAgent!Raised(r).live = FALSE
           /\ CloudAgent!Raised(r) = r \/ r = [CloudAgent!Raised(r) EXCEPT !.live = TRUE]
<1>1. /\ CloudAgent!Raised(r) \in CloudAgent!HostRead
      /\ CloudAgent!Raised(r).kind = r.kind
      /\ CloudAgent!Raised(r).host = r.host /\ CloudAgent!Raised(r).live = FALSE
      /\ r.kind \in CloudAgent!HostKinds /\ r.host \in Hosts /\ r.live \in BOOLEAN
  BY DEF CloudAgent!HostRead, CloudAgent!Raised
<1>2. CASE r.live = FALSE
  <2>1. CloudAgent!Raised(r) = r BY <1>2 DEF CloudAgent!HostRead, CloudAgent!Raised
  <2> QED BY <1>1, <2>1
<1>3. CASE r.live = TRUE
  <2>1. r = [CloudAgent!Raised(r) EXCEPT !.live = TRUE]
    BY <1>3 DEF CloudAgent!HostRead, CloudAgent!Raised
  <2> QED BY <1>1, <2>1
<1> QED BY <1>1, <1>2, <1>3

\* The bags of the reads: what raising the generation, beginning and ending make of
\* them.
LEMMA OutdatedReads ==
    ASSUME CloudAgent!IsABag(hostReads),
           CloudAgent!BagToSet(hostReads) \subseteq CloudAgent!HostRead
    PROVE  /\ CloudAgent!IsABag(CloudAgent!Outdated)
           /\ \A r \in CloudAgent!BagToSet(CloudAgent!Outdated) : r \in CloudAgent!HostRead /\ r.live = FALSE
<1>1. ASSUME NEW r \in {CloudAgent!Raised(q) : q \in CloudAgent!BagToSet(hostReads)}
      PROVE  /\ CloudAgent!Copies(r, hostReads) + CloudAgent!Copies([r EXCEPT !.live = TRUE], hostReads)
                    \in {n \in Nat : n > 0}
             /\ r \in CloudAgent!HostRead /\ r.live = FALSE
  <2>1. PICK q \in CloudAgent!BagToSet(hostReads) : r = CloudAgent!Raised(q) BY <1>1
  <2>2. r = q \/ q = [r EXCEPT !.live = TRUE] BY <2>1, HostReadFields
  <2>3. \A e : CloudAgent!Copies(e, hostReads) \in Nat
    BY DEF CloudAgent!Copies, CloudAgent!IsABag, CloudAgent!BagToSet
  <2>4. CloudAgent!Copies(q, hostReads) > 0
    BY <2>1 DEF CloudAgent!Copies, CloudAgent!IsABag, CloudAgent!BagToSet
  <2> DEFINE alive == [r EXCEPT !.live = TRUE]
  <2>5. r = q \/ q = alive BY <2>2
  <2> HIDE DEF alive
  <2>6. CloudAgent!Copies(r, hostReads) + CloudAgent!Copies(alive, hostReads) \in {n \in Nat : n > 0}
    BY <2>3, <2>4, <2>5
  <2> QED BY <2>1, <2>6, HostReadFields DEF alive
<1>2. DOMAIN CloudAgent!Outdated = {CloudAgent!Raised(q) : q \in CloudAgent!BagToSet(hostReads)}
  BY DEF CloudAgent!Outdated
<1>3. \A r \in DOMAIN CloudAgent!Outdated : CloudAgent!Outdated[r] \in {n \in Nat : n > 0}
  BY <1>1 DEF CloudAgent!Outdated
<1>4. CloudAgent!IsABag(CloudAgent!Outdated)
  BY <1>2, <1>3 DEF CloudAgent!IsABag, CloudAgent!Outdated
<1> QED BY <1>1, <1>2, <1>4 DEF CloudAgent!BagToSet

\* The reads that have just begun, of some kinds and a host.
Fresh(kinds, h) == [kind : kinds, host : {h}, live : {TRUE}]
\* They are added to those under way.
LEMMA BegunReads ==
    ASSUME NEW bag, CloudAgent!IsABag(bag), NEW kinds, NEW h
    PROVE  /\ CloudAgent!IsABag(CloudAgent!Begun(bag, kinds, h))
           /\ CloudAgent!BagToSet(CloudAgent!Begun(bag, kinds, h)) =
                CloudAgent!BagToSet(bag) \cup Fresh(kinds, h)
<1> DEFINE new == Fresh(kinds, h)
           both == CloudAgent!Begun(bag, kinds, h)
           n(e) == (IF e \in DOMAIN bag THEN bag[e] ELSE 0)
                     + (IF e \in new THEN 1 ELSE 0)
<1>1. both = [e \in DOMAIN bag \cup new |-> n(e)]
  BY DEF CloudAgent!Begun, Fresh, CloudAgent!SetToBag, CloudAgent!(+)
<1> HIDE DEF new, both
<1>2. \A e \in DOMAIN bag : bag[e] \in Nat /\ bag[e] > 0 BY DEF CloudAgent!IsABag
<1>3. \A e \in DOMAIN bag \cup new : n(e) \in {m \in Nat : m > 0} BY <1>2
<1> HIDE DEF n
<1>4. CloudAgent!IsABag(both) BY <1>1, <1>3 DEF CloudAgent!IsABag
<1>5. CloudAgent!BagToSet(both) = CloudAgent!BagToSet(bag) \cup new
  BY <1>1 DEF CloudAgent!BagToSet
<1> QED BY <1>4, <1>5 DEF new, both

\* A reply takes one of them away.
LEMMA RepliedReads ==
    ASSUME CloudAgent!IsABag(hostReads), NEW r, CloudAgent!Replied(r)
    PROVE  /\ CloudAgent!IsABag(hostReads')
           /\ CloudAgent!BagToSet(hostReads') \subseteq CloudAgent!BagToSet(hostReads)
           /\ CloudAgent!BagToSet(hostReads) \ {r} \subseteq CloudAgent!BagToSet(hostReads')
BY DEF CloudAgent!Replied, CloudAgent!IsABag, CloudAgent!BagToSet, CloudAgent!SetToBag,
   CloudAgent!(-)

\* Whatever selects a host keeps it.
LEMMA ApplyKeeps ==
    ASSUME CloudAgentInv, NEW h \in Hosts \cup {NoHost}, CloudAgent!ApplyHost(h),
           UNCHANGED <<deploying, acts>>, booted' \in BOOLEAN
    PROVE  CloudAgentInv'
<1>1. /\ CloudAgent!IsABag(CloudAgent!Outdated)
      /\ \A r \in CloudAgent!BagToSet(CloudAgent!Outdated) : r \in CloudAgent!HostRead /\ r.live = FALSE
  BY OutdatedReads DEF CloudAgentInv, CloudAgent!TypeOK
<1>2. /\ selectedHost' = h
      /\ online' = NoHost
      /\ lists' = NoHost
      /\ installation' = NoHost
      /\ installationError' = FALSE
      /\ hostLoading' = (h # NoHost) /\ installationLoading' = (h # NoHost)
  BY DEF CloudAgent!ApplyHost
<1>3. CloudAgent!OwnHostOnly' BY <1>2 DEF CloudAgent!OwnHostOnly
<1>4. CASE h = NoHost
  <2>1. hostReads' = CloudAgent!Outdated BY <1>4 DEF CloudAgent!ApplyHost
  <2>2. CloudAgent!TypeOK' BY <1>1, <1>2, <2>1 DEF CloudAgentInv, CloudAgent!TypeOK
  <2>3. CloudAgent!SpinnersStop' BY <1>2, <1>4 DEF CloudAgent!SpinnersStop
  <2> QED BY <1>3, <2>2, <2>3 DEF CloudAgentInv
<1>5. CASE h # NoHost
  <2> DEFINE new == Fresh({"all", "installation"}, h)
  <2>1. hostReads' = CloudAgent!Begun(CloudAgent!Outdated, {"all", "installation"}, h)
    BY <1>5 DEF CloudAgent!ApplyHost
  <2>2. CloudAgent!IsABag(hostReads') /\ CloudAgent!BagToSet(hostReads') = CloudAgent!BagToSet(CloudAgent!Outdated) \cup new
    <3>1. /\ CloudAgent!IsABag(CloudAgent!Begun(CloudAgent!Outdated, {"all", "installation"}, h))
          /\ CloudAgent!BagToSet(CloudAgent!Begun(CloudAgent!Outdated, {"all", "installation"}, h)) = CloudAgent!BagToSet(CloudAgent!Outdated) \cup new
      BY <1>1, BegunReads
    <3> QED BY <2>1, <3>1
  <2>3. new \subseteq CloudAgent!HostRead
    BY <1>5 DEF Fresh, CloudAgent!HostRead, CloudAgent!HostKinds
  <2>4. CloudAgent!TypeOK' BY <1>1, <1>2, <2>2, <2>3 DEF CloudAgentInv, CloudAgent!TypeOK
  <2>5. /\ [kind |-> "all", host |-> h, live |-> TRUE] \in CloudAgent!BagToSet(hostReads')
        /\ [kind |-> "installation", host |-> h, live |-> TRUE] \in CloudAgent!BagToSet(hostReads')
    BY <2>2 DEF Fresh
  <2>6. CloudAgent!SpinnersStop'
    BY <1>2, <2>5 DEF CloudAgent!SpinnersStop, CloudAgent!Current
  <2> QED BY <1>3, <2>4, <2>6 DEF CloudAgentInv
<1> QED BY <1>4, <1>5

\* refreshAll, with what its callers leave alone.
LEMMA HostRefresh ==
    ASSUME CloudAgentInv, CloudAgent!RefreshAll, acts' \in 0..MaxActs,
           UNCHANGED <<booted, selectedHost, installation, installationError,
                       installationLoading, deploying>>
    PROVE  CloudAgentInv'
<1>0. CloudAgent!TypeOK /\ CloudAgent!OwnHostOnly /\ CloudAgent!SpinnersStop
  BY DEF CloudAgentInv
<1>1. CASE selectedHost = NoHost
  <2>1. online' = NoHost /\ lists' = NoHost /\ hostLoading' = FALSE /\ hostReads' = hostReads
    BY <1>1 DEF CloudAgent!RefreshAll
  <2> QED
    BY <1>0, <2>1 DEF CloudAgentInv, CloudAgent!TypeOK, CloudAgent!OwnHostOnly,
       CloudAgent!SpinnersStop, CloudAgent!Current
<1>2. CASE selectedHost # NoHost
  <2> DEFINE new == Fresh({"all"}, selectedHost)
  <2>1. /\ hostReads' = CloudAgent!Begun(hostReads, {"all"}, selectedHost)
        /\ hostLoading' = TRUE
        /\ UNCHANGED <<online, lists>>
    BY <1>2 DEF CloudAgent!RefreshAll
  <2>2. CloudAgent!IsABag(hostReads') /\ CloudAgent!BagToSet(hostReads') = CloudAgent!BagToSet(hostReads) \cup new
    <3>1. /\ CloudAgent!IsABag(CloudAgent!Begun(hostReads, {"all"}, selectedHost))
          /\ CloudAgent!BagToSet(CloudAgent!Begun(hostReads, {"all"}, selectedHost)) = CloudAgent!BagToSet(hostReads) \cup new
      BY <1>0, BegunReads DEF CloudAgent!TypeOK
    <3> QED BY <2>1, <3>1
  <2>3. new \subseteq CloudAgent!HostRead
    BY <1>0, <1>2 DEF Fresh, CloudAgent!HostRead, CloudAgent!HostKinds,
       CloudAgent!TypeOK
  <2>4. CloudAgent!TypeOK' BY <1>0, <2>1, <2>2, <2>3 DEF CloudAgent!TypeOK
  <2>5. CloudAgent!OwnHostOnly' BY <1>0, <2>1 DEF CloudAgent!OwnHostOnly
  <2>6. [kind |-> "all", host |-> selectedHost, live |-> TRUE] \in CloudAgent!BagToSet(hostReads')
    BY <2>2 DEF Fresh
  <2>7. CloudAgent!SpinnersStop'
    BY <1>0, <2>1, <2>2, <2>6 DEF CloudAgent!SpinnersStop, CloudAgent!Current
  <2> QED BY <2>4, <2>5, <2>7 DEF CloudAgentInv
<1> QED BY <1>1, <1>2

\* The invariant in the initial state.
LEMMA CloudAgentInit ==
    ASSUME CloudAgent!CloudAgentPageAssumption, CloudAgent!Init
    PROVE  CloudAgentInv
<1>1. CloudAgent!IsABag(CloudAgent!EmptyBag) /\ CloudAgent!BagToSet(CloudAgent!EmptyBag) = {}
  BY DEF CloudAgent!EmptyBag, CloudAgent!IsABag, CloudAgent!BagToSet, CloudAgent!SetToBag
<1>2. 0 \in 0..MaxActs BY DEF CloudAgent!CloudAgentPageAssumption
<1> QED
  BY <1>1, <1>2 DEF CloudAgent!Init, CloudAgentInv, CloudAgent!TypeOK,
     CloudAgent!OwnHostOnly, CloudAgent!SpinnersStop

\* One step per action.
LEMMA CloudAgentStep ==
    ASSUME CloudAgent!CloudAgentPageAssumption, CloudAgentInv,
           [CloudAgent!Next]_(CloudAgent!vars)
    PROVE  CloudAgentInv'
<1>0. CloudAgent!TypeOK /\ CloudAgent!OwnHostOnly /\ CloudAgent!SpinnersStop
  BY DEF CloudAgentInv
<1>1. ASSUME NEW h \in Hosts \cup {NoHost}, CloudAgent!Boot(h) PROVE CloudAgentInv'
  BY <1>1, ApplyKeeps DEF CloudAgent!Boot
<1>2. ASSUME NEW h \in Hosts \cup {NoHost}, CloudAgent!Choose(h) PROVE CloudAgentInv'
  BY <1>0, <1>2, ApplyKeeps DEF CloudAgent!Choose, CloudAgent!TypeOK
<1>3. ASSUME CloudAgent!Deploy \/ CloudAgent!Act \/ CloudAgent!ActFails \/ UNCHANGED CloudAgent!vars
      PROVE  CloudAgentInv'
  <2>1. UNCHANGED <<booted, selectedHost, CloudAgent!shown, CloudAgent!spinners, hostReads>>
    BY <1>3 DEF CloudAgent!Deploy, CloudAgent!Act, CloudAgent!ActFails, CloudAgent!vars
  <2>2. deploying' \in BOOLEAN
    BY <1>0, <1>3 DEF CloudAgent!Deploy, CloudAgent!Act, CloudAgent!ActFails,
       CloudAgent!TypeOK, CloudAgent!vars
  <2>3. acts' \in 0..MaxActs
    <3>1. CASE CloudAgent!Deploy \/ UNCHANGED CloudAgent!vars
      BY <1>0, <3>1 DEF CloudAgent!Deploy, CloudAgent!vars, CloudAgent!TypeOK
    <3>2. CASE CloudAgent!Act
      BY <1>0, <3>2 DEF CloudAgent!Act, CloudAgent!TypeOK,
         CloudAgent!CloudAgentPageAssumption
    <3>3. CASE CloudAgent!ActFails
      BY <1>0, <3>3 DEF CloudAgent!ActFails, CloudAgent!TypeOK,
         CloudAgent!CloudAgentPageAssumption
    <3> QED BY <1>3, <3>1, <3>2, <3>3
  <2> QED
    BY <1>0, <2>1, <2>2, <2>3 DEF CloudAgentInv, CloudAgent!TypeOK,
       CloudAgent!OwnHostOnly, CloudAgent!SpinnersStop,
       CloudAgent!Current, CloudAgent!shown, CloudAgent!spinners
<1>4. ASSUME CloudAgent!Poll PROVE CloudAgentInv'
  BY <1>0, <1>4, HostRefresh DEF CloudAgent!Poll, CloudAgent!TypeOK
<1>5. ASSUME CloudAgent!ActSucceeds PROVE CloudAgentInv'
  <2>1. acts' \in 0..MaxActs
    BY <1>0, <1>5 DEF CloudAgent!ActSucceeds, CloudAgent!TypeOK,
       CloudAgent!CloudAgentPageAssumption
  <2> QED BY <1>5, <2>1, HostRefresh DEF CloudAgent!ActSucceeds
<1>6. ASSUME CloudAgent!Retest PROVE CloudAgentInv'
  <2> DEFINE new == Fresh({"status", "installation"}, selectedHost)
  <2>1. /\ hostReads' = CloudAgent!Begun(hostReads, {"status", "installation"}, selectedHost)
        /\ installationLoading' = TRUE
        /\ installationError' = FALSE
        /\ selectedHost # NoHost
        /\ UNCHANGED <<booted, selectedHost, online, lists, installation, hostLoading, deploying,
                       acts>>
    BY <1>6 DEF CloudAgent!Retest
  <2>2. CloudAgent!IsABag(hostReads') /\ CloudAgent!BagToSet(hostReads') = CloudAgent!BagToSet(hostReads) \cup new
    <3>1. /\ CloudAgent!IsABag(CloudAgent!Begun(hostReads, {"status", "installation"}, selectedHost))
          /\ CloudAgent!BagToSet(CloudAgent!Begun(hostReads, {"status", "installation"}, selectedHost)) = CloudAgent!BagToSet(hostReads) \cup new
      BY <1>0, BegunReads DEF CloudAgent!TypeOK
    <3> QED BY <2>1, <3>1
  <2>3. new \subseteq CloudAgent!HostRead
    BY <1>0, <2>1 DEF Fresh, CloudAgent!HostRead, CloudAgent!HostKinds,
       CloudAgent!TypeOK
  <2>4. CloudAgent!TypeOK' BY <1>0, <2>1, <2>2, <2>3 DEF CloudAgent!TypeOK
  <2>5. CloudAgent!OwnHostOnly' BY <1>0, <2>1 DEF CloudAgent!OwnHostOnly
  <2>6. [kind |-> "installation", host |-> selectedHost, live |-> TRUE] \in CloudAgent!BagToSet(hostReads')
    BY <2>2 DEF Fresh
  <2>7. CloudAgent!SpinnersStop'
    BY <1>0, <2>1, <2>2, <2>6 DEF CloudAgent!SpinnersStop, CloudAgent!Current
  <2> QED BY <2>4, <2>5, <2>7 DEF CloudAgentInv
<1>7. ASSUME NEW r \in CloudAgent!BagToSet(hostReads), NEW ok \in BOOLEAN,
             CloudAgent!Late(r) \/ CloudAgent!ReadsDone(r) \/ CloudAgent!StatusDone(r) \/ CloudAgent!InstallationDone(r, ok)
      PROVE  CloudAgentInv'
  <2>1. CloudAgent!Replied(r)
    BY <1>7 DEF CloudAgent!Late, CloudAgent!ReadsDone, CloudAgent!StatusDone,
       CloudAgent!InstallationDone
  <2>2. /\ CloudAgent!IsABag(hostReads')
        /\ CloudAgent!BagToSet(hostReads') \subseteq CloudAgent!BagToSet(hostReads)
        /\ CloudAgent!BagToSet(hostReads) \ {r} \subseteq CloudAgent!BagToSet(hostReads')
    BY <1>0, <2>1, RepliedReads DEF CloudAgent!TypeOK
  <2>3. r \in CloudAgent!HostRead /\ UNCHANGED <<booted, selectedHost, deploying, acts>>
    BY <1>0, <1>7, <2>1 DEF CloudAgent!TypeOK, CloudAgent!Replied
  <2>4. r.host \in Hosts BY <2>3, HostReadFields
  <2>5. CloudAgent!TypeOK'
    BY <1>0, <1>7, <2>2, <2>3, <2>4 DEF CloudAgent!TypeOK, CloudAgent!Late,
       CloudAgent!ReadsDone, CloudAgent!StatusDone,
       CloudAgent!InstallationDone, CloudAgent!shown, CloudAgent!spinners
  <2>6. CloudAgent!OwnHostOnly'
    BY <1>0, <1>7, <2>3 DEF CloudAgent!OwnHostOnly, CloudAgent!Late,
       CloudAgent!ReadsDone, CloudAgent!StatusDone, CloudAgent!InstallationDone,
       CloudAgent!Current, CloudAgent!shown
  <2>7. CloudAgent!SpinnersStop'
    <3>1. CASE CloudAgent!Late(r)
      BY <1>0, <2>2, <2>3, <3>1 DEF CloudAgent!SpinnersStop, CloudAgent!Late,
         CloudAgent!Current, CloudAgent!spinners
    <3>2. CASE CloudAgent!ReadsDone(r)
      BY <1>0, <2>2, <2>3, <3>2 DEF CloudAgent!SpinnersStop, CloudAgent!ReadsDone,
         CloudAgent!Current
    <3>3. CASE CloudAgent!StatusDone(r)
      BY <1>0, <2>2, <2>3, <3>3 DEF CloudAgent!SpinnersStop, CloudAgent!StatusDone,
         CloudAgent!Current, CloudAgent!spinners
    <3>4. CASE CloudAgent!InstallationDone(r, ok)
      BY <1>0, <2>2, <2>3, <3>4 DEF CloudAgent!SpinnersStop,
         CloudAgent!InstallationDone, CloudAgent!Current
    <3> QED BY <1>7, <3>1, <3>2, <3>3, <3>4
  <2> QED BY <2>5, <2>6, <2>7 DEF CloudAgentInv
<1> QED BY <1>1, <1>2, <1>3, <1>4, <1>5, <1>6, <1>7 DEF CloudAgent!Next

\* All of it holds in every state.
LEMMA AlwaysCloudAgentInv ==
    ASSUME CloudAgent!CloudAgentPageAssumption
    PROVE  CloudAgent!Spec => []CloudAgentInv
<1>1. CloudAgent!Init => CloudAgentInv BY CloudAgentInit
<1>2. CloudAgentInv /\ [CloudAgent!Next]_(CloudAgent!vars) => CloudAgentInv'
  BY CloudAgentStep
<1> QED BY <1>1, <1>2, PTL DEF CloudAgent!Spec

-----------------------------------------------------------------------------
(*************************************************************************)
(* WorkspacePage: what is shown was read of the workspace that is        *)
(* active, and spinners stop.                                            *)
(*                                                                       *)
(* The argument. The active workspace, the ones that what is shown was   *)
(* read of and the ones that live requests are about are one and the     *)
(* same (OnePlace) until a command goes on that began when another was   *)
(* active, which strayed remembers. Commands other than a save are about *)
(* the workspace they began in (TasksKnow).                              *)
(*************************************************************************)
\* The requests whose reply will count.
Live(bag) == {r \in Workspace!BagToSet(bag) : r.live}

\* Whatever workspace the page names, as the active one, in what it shows or in a
\* reply it would take, it is one and the same, unless a command strayed.
Named == {w \in Workspaces : w \in {active, detail, sessions}
                               \/ \E r \in Live(requests) : r.of = w}
OnePlace == ~strayed => \A v, w \in Named : v = w

\* Only a save is about another workspace than the one that was active.
TasksKnow == \A k \in Workspace!BagToSet(tasks) : k.kind # "save" => k.of = k.from

\* The inductive invariant.
WorkspaceInv == Workspace!TypeOK /\ OnePlace /\ TasksKnow /\ Workspace!WorkspaceSpinnersStop

\* What And, Less and Raised make of a bag of requests or commands.
LEMMA OneRequestMore ==
    ASSUME NEW bag, Workspace!IsABag(bag), NEW e
    PROVE  Workspace!IsABag(Workspace!And(bag, e)) /\ Workspace!BagToSet(Workspace!And(bag, e)) = Workspace!BagToSet(bag) \cup {e}
<1> DEFINE both == Workspace!And(bag, e)
           n(x) == (IF x \in DOMAIN bag THEN bag[x] ELSE 0)
                     + (IF x \in {e} THEN 1 ELSE 0)
<1>1. both = [x \in DOMAIN bag \cup {e} |-> n(x)]
  BY DEF Workspace!And, Workspace!SetToBag, Workspace!(+)
<1> HIDE DEF both
<1>2. \A x \in DOMAIN bag : bag[x] \in Nat /\ bag[x] > 0 BY DEF Workspace!IsABag
<1>3. \A x \in DOMAIN bag \cup {e} : n(x) \in {m \in Nat : m > 0} BY <1>2
<1> HIDE DEF n
<1>4. Workspace!IsABag(both) BY <1>1, <1>3 DEF Workspace!IsABag
<1>5. Workspace!BagToSet(both) = Workspace!BagToSet(bag) \cup {e}
  BY <1>1 DEF Workspace!BagToSet
<1> QED BY <1>4, <1>5 DEF both

\* The same of one less.
LEMMA OneRequestLess ==
    ASSUME NEW bag, Workspace!IsABag(bag), NEW e
    PROVE  /\ Workspace!IsABag(Workspace!Less(bag, e))
           /\ Workspace!BagToSet(Workspace!Less(bag, e)) \subseteq Workspace!BagToSet(bag)
           /\ Workspace!BagToSet(bag) \ {e} \subseteq Workspace!BagToSet(Workspace!Less(bag, e))
BY DEF Workspace!Less, Workspace!IsABag, Workspace!BagToSet, Workspace!SetToBag,
   Workspace!(-)

\* The fields of a request whose generation may have been raised.
LEMMA LoweredFields ==
    ASSUME NEW r \in Workspace!Request, NEW kinds
    PROVE  /\ Workspace!Lowered(r, kinds) \in Workspace!Request
           /\ Workspace!Lowered(r, kinds).kind = r.kind
           /\ Workspace!Lowered(r, kinds).of = r.of
           /\ Workspace!Lowered(r, kinds).live = (r.live /\ r.kind \notin kinds)
           /\ \/ Workspace!Lowered(r, kinds) = r
              \/ /\ ~Workspace!Lowered(r, kinds).live /\ r.kind \in kinds
                 /\ r = [Workspace!Lowered(r, kinds) EXCEPT !.live = TRUE]
<1> DEFINE l == r.live /\ r.kind \notin kinds
<1>1. Workspace!Lowered(r, kinds) = [r EXCEPT !.live = l] BY DEF Workspace!Lowered
<1>2. r.live \in BOOLEAN /\ l \in BOOLEAN BY DEF Workspace!Request
<1>3. l = r.live \/ (~l /\ r.live /\ r.kind \in kinds) BY <1>2
<1>4. l = (r.live /\ r.kind \notin kinds) OBVIOUS
<1> HIDE DEF l
<1>5. /\ Workspace!Lowered(r, kinds) \in Workspace!Request
      /\ Workspace!Lowered(r, kinds).kind = r.kind
      /\ Workspace!Lowered(r, kinds).of = r.of
      /\ Workspace!Lowered(r, kinds).live = l
  BY <1>1, <1>2 DEF Workspace!Request
<1>6. CASE l = r.live
  <2>1. Workspace!Lowered(r, kinds) = r BY <1>1, <1>6 DEF Workspace!Request
  <2> QED BY <1>4, <1>5, <2>1
<1>7. CASE ~l /\ r.live /\ r.kind \in kinds
  <2>1. r.live = TRUE BY <1>2, <1>7
  <2>2. r = [Workspace!Lowered(r, kinds) EXCEPT !.live = TRUE]
    BY <1>1, <2>1 DEF Workspace!Request
  <2> QED BY <1>4, <1>5, <1>7, <2>2
<1> QED BY <1>3, <1>6, <1>7

\* Of the requests after the generation of some kinds was raised, those count that are
\* of the others.
LEMMA RaisedRequests ==
    ASSUME NEW bag, Workspace!IsABag(bag),
           Workspace!BagToSet(bag) \subseteq Workspace!Request, NEW kinds
    PROVE  /\ Workspace!IsABag(Workspace!Raised(bag, kinds))
           /\ Workspace!BagToSet(Workspace!Raised(bag, kinds)) \subseteq Workspace!Request
           /\ Live(Workspace!Raised(bag, kinds)) = {r \in Live(bag) : r.kind \notin kinds}
<1> DEFINE S == {Workspace!Lowered(q, kinds) : q \in Workspace!BagToSet(bag)}
           Alive(r) == [r EXCEPT !.live = TRUE]
           n(r) == Workspace!Copies(r, bag) + (IF ~r.live /\ r.kind \in kinds
                                     THEN Workspace!Copies(Alive(r), bag) ELSE 0)
           all == Workspace!Raised(bag, kinds)
<1>1. all = [r \in S |-> n(r)] BY DEF Workspace!Raised
<1>2. \A x : Workspace!Copies(x, bag) \in Nat
  BY DEF Workspace!Copies, Workspace!IsABag, Workspace!BagToSet
<1>3. \A x \in Workspace!BagToSet(bag) : Workspace!Copies(x, bag) > 0
  BY DEF Workspace!Copies, Workspace!IsABag, Workspace!BagToSet
<1> HIDE DEF all, Alive
<1>4. ASSUME NEW r \in S
      PROVE  n(r) \in {m \in Nat : m > 0} /\ r \in Workspace!Request
  <2>1. PICK q \in Workspace!BagToSet(bag) : r = Workspace!Lowered(q, kinds) OBVIOUS
  <2>2. r = q \/ (~r.live /\ r.kind \in kinds /\ q = Alive(r))
    BY <2>1, LoweredFields DEF Alive
  <2> QED BY <1>2, <1>3, <2>1, <2>2, LoweredFields
<1> HIDE DEF n
<1>5. Workspace!IsABag(all) BY <1>1, <1>4 DEF Workspace!IsABag
<1>6. Workspace!BagToSet(all) = S BY <1>1 DEF Workspace!BagToSet
<1>7. ASSUME NEW r \in S, r.live
      PROVE  r \in Workspace!BagToSet(bag) /\ r.kind \notin kinds
  <2>1. PICK q \in Workspace!BagToSet(bag) : r = Workspace!Lowered(q, kinds) OBVIOUS
  <2> QED BY <1>7, <2>1, LoweredFields
<1>8. ASSUME NEW r \in Workspace!BagToSet(bag), r.live, r.kind \notin kinds PROVE r \in S
  <2>1. Workspace!Lowered(r, kinds) = r BY <1>8, LoweredFields
  <2> QED BY <2>1
<1> HIDE DEF S
<1> QED BY <1>4, <1>5, <1>6, <1>7, <1>8 DEF Live, all

\* A request of the sessions, and the requests with one of them.
NewSessions(w, silent) ==
    [kind |-> "sessions", of |-> w, live |-> TRUE, silent |-> silent, on |-> FALSE]

\* The requests after the sessions were asked for: of theirs, that one counts.
LEMMA AskedRequests ==
    ASSUME NEW bag, Workspace!IsABag(bag),
           Workspace!BagToSet(bag) \subseteq Workspace!Request,
           NEW w \in Workspaces, NEW silent \in BOOLEAN
    PROVE  /\ Workspace!IsABag(Workspace!Asked(bag, w, silent))
           /\ Workspace!BagToSet(Workspace!Asked(bag, w, silent)) \subseteq Workspace!Request
           /\ Live(Workspace!Asked(bag, w, silent)) =
                {r \in Live(bag) : r.kind \notin Workspace!OfSessions} \cup {NewSessions(w, silent)}
<1> DEFINE old == Workspace!Raised(bag, Workspace!OfSessions)
           new == NewSessions(w, silent)
<1>1. /\ Workspace!IsABag(old) /\ Workspace!BagToSet(old) \subseteq Workspace!Request
      /\ Live(old) = {r \in Live(bag) : r.kind \notin Workspace!OfSessions}
  BY RaisedRequests
<1>2. Workspace!Asked(bag, w, silent) = Workspace!And(old, new)
  BY DEF Workspace!Asked, NewSessions
<1>3. new \in Workspace!Request /\ new.live BY DEF Workspace!Request, NewSessions
<1> HIDE DEF old, new
<1>4. Workspace!IsABag(Workspace!And(old, new)) /\ Workspace!BagToSet(Workspace!And(old, new)) = Workspace!BagToSet(old) \cup {new}
  BY <1>1, OneRequestMore
<1>5. Live(Workspace!And(old, new)) = Live(old) \cup {new} BY <1>3, <1>4 DEF Live
<1> QED BY <1>1, <1>2, <1>3, <1>4, <1>5 DEF new

\* The effect keeps the requests of the detail, asks for no other workspace than the
\* active one, and leaves no spinner turning that did not turn before.
LEMMA EffectAsks ==
    ASSUME NEW changed, NEW bag, NEW spin, Workspace!Effect(changed, bag, spin),
           Workspace!IsABag(bag), Workspace!BagToSet(bag) \subseteq Workspace!Request,
           active' \in Workspace!Places, spin \in BOOLEAN, idleSpin \in BOOLEAN
    PROVE  /\ Workspace!IsABag(requests')
           /\ Workspace!BagToSet(requests') \subseteq Workspace!Request
           /\ sessionsLoading' \in BOOLEAN /\ idleSpin' \in BOOLEAN
           /\ \A r \in Live(requests') : r \in Live(bag) \/ r.of = active'
           /\ \A r \in Live(bag) : r.kind = "detail" => r \in Live(requests')
           /\ \/ \E r \in Live(requests') : r.kind \in Workspace!OfSessions
              \/ /\ requests' = bag /\ sessionsLoading' = spin /\ idleSpin' = idleSpin
<1>1. CASE changed /\ onSessions' /\ active' # NoWorkspace
  <2>1. /\ requests' = Workspace!Asked(bag, active', FALSE)
        /\ sessionsLoading' = TRUE /\ idleSpin' = FALSE
    BY <1>1 DEF Workspace!Effect
  <2> DEFINE new == NewSessions(active', FALSE)
  <2>2. active' \in Workspaces BY <1>1 DEF Workspace!Places
  <2>3. /\ Workspace!IsABag(requests')
        /\ Workspace!BagToSet(requests') \subseteq Workspace!Request
        /\ Live(requests') = {r \in Live(bag) : r.kind \notin Workspace!OfSessions} \cup {new}
    <3>1. /\ Workspace!IsABag(Workspace!Asked(bag, active', FALSE))
          /\ Workspace!BagToSet(Workspace!Asked(bag, active', FALSE)) \subseteq Workspace!Request
          /\ Live(Workspace!Asked(bag, active', FALSE)) =
               {r \in Live(bag) : r.kind \notin Workspace!OfSessions} \cup {new}
      BY <2>2, AskedRequests
    <3> QED BY <2>1, <3>1
  <2>4. new.of = active' /\ new.kind \in Workspace!OfSessions
    BY DEF NewSessions, Workspace!OfSessions
  <2> HIDE DEF new
  <2> QED BY <2>1, <2>3, <2>4 DEF Workspace!OfSessions
<1>2. CASE ~(changed /\ onSessions' /\ active' # NoWorkspace)
  <2>1. requests' = bag /\ sessionsLoading' = spin /\ UNCHANGED idleSpin
    BY <1>2 DEF Workspace!Effect
  <2> QED BY <2>1
<1> QED BY <1>1, <1>2

\* A request of the detail.
NewDetail(w, on) ==
    [kind |-> "detail", of |-> w, live |-> TRUE, silent |-> FALSE, on |-> on]

\* Reading the detail of a workspace, for a caller that knows the active one or
\* strays.
LEMMA LoadDetailStep ==
    ASSUME Workspace!WorkspacePageAssumption, WorkspaceInv, NEW w \in Workspaces, NEW from,
           NEW view \in BOOLEAN,
           NEW on \in BOOLEAN, Workspace!LoadDetail(w, from, view, on), onSessions' \in BOOLEAN,
           strayed' = (strayed \/ from # active),
           Workspace!IsABag(tasks'), Workspace!BagToSet(tasks') \subseteq Workspace!BagToSet(tasks)
    PROVE  WorkspaceInv'
<1>0. Workspace!TypeOK /\ OnePlace /\ TasksKnow /\ Workspace!WorkspaceSpinnersStop
  BY DEF WorkspaceInv
<1> DEFINE switching == w # from
           old == Workspace!Raised(requests, Workspace!Superseded(switching))
           new == NewDetail(w, on)
           bag == Workspace!And(old, new)
           spin == IF switching THEN FALSE ELSE sessionsLoading
<1>1. PICK query \in {FALSE, switching} : Workspace!Effect(active' # active \/ query, bag, spin)
  BY DEF Workspace!LoadDetail, NewDetail
<1>2. /\ detailLoading' = TRUE /\ active' = w
      /\ detail' = IF view THEN w ELSE IF switching THEN NoWorkspace ELSE detail
      /\ sessions' = IF switching THEN NoWorkspace ELSE sessions
  BY DEF Workspace!LoadDetail
<1>3. /\ Workspace!IsABag(old) /\ Workspace!BagToSet(old) \subseteq Workspace!Request
      /\ Live(old) = {r \in Live(requests) : r.kind \notin Workspace!Superseded(switching)}
  BY <1>0, RaisedRequests DEF Workspace!TypeOK
<1>4. new \in Workspace!Request /\ new.live /\ new.of = w /\ new.kind = "detail"
  BY DEF Workspace!Request, NewDetail
<1>5. switching \in BOOLEAN /\ spin \in BOOLEAN BY <1>0 DEF Workspace!TypeOK
<1>6. switching => Live(old) = {}
  BY <1>0, <1>3 DEF Workspace!Superseded, Workspace!OfSessions, Live, Workspace!TypeOK,
     Workspace!Request
<1>7. "detail" \in Workspace!Superseded(switching) /\ (~switching => Workspace!Superseded(switching) = {"detail"})
  BY DEF Workspace!Superseded
<1> HIDE DEF old, new
<1>8. Workspace!IsABag(bag) /\ Workspace!BagToSet(bag) = Workspace!BagToSet(old) \cup {new}
  BY <1>3, OneRequestMore
<1>9. Workspace!BagToSet(bag) \subseteq Workspace!Request /\ Live(bag) = Live(old) \cup {new}
  BY <1>3, <1>4, <1>8 DEF Live
<1>10. active' \in Workspace!Places /\ idleSpin \in BOOLEAN
  BY <1>0, <1>2 DEF Workspace!Places, Workspace!TypeOK
<1> HIDE DEF bag, spin, switching
<1>11. /\ Workspace!IsABag(requests')
       /\ Workspace!BagToSet(requests') \subseteq Workspace!Request
       /\ sessionsLoading' \in BOOLEAN /\ idleSpin' \in BOOLEAN
       /\ \A r \in Live(requests') : r \in Live(bag) \/ r.of = active'
       /\ \A r \in Live(bag) : r.kind = "detail" => r \in Live(requests')
       /\ \/ \E r \in Live(requests') : r.kind \in Workspace!OfSessions
          \/ requests' = bag /\ sessionsLoading' = spin /\ idleSpin' = idleSpin
  BY <1>1, <1>5, <1>8, <1>9, <1>10, EffectAsks
<1>12. Workspace!TypeOK'
  <2>1. {active', detail', sessions'} \subseteq Workspace!Places
    BY <1>0, <1>2 DEF Workspace!TypeOK, Workspace!Places
  <2>2. detailLoading' \in BOOLEAN /\ strayed' \in BOOLEAN
    BY <1>0, <1>2 DEF Workspace!TypeOK
  <2> QED BY <1>0, <1>11, <2>1, <2>2 DEF Workspace!TypeOK
<1>13. OnePlace'
  <2> SUFFICES ASSUME ~strayed' PROVE \A v \in Named' : v = w
    BY DEF OnePlace
  <2>1. ~strayed /\ from = active BY <1>0 DEF Workspace!TypeOK
  <2>2. \A r \in Live(requests') : r.of = w
    <3>1. \A r \in Live(old) : r.of = w
      <4> SUFFICES ASSUME NEW r \in Live(old) PROVE r.of = w OBVIOUS
      <4>1. ~switching /\ r \in Live(requests) BY <1>3, <1>6
      <4>2. active = w BY <2>1, <4>1 DEF switching
      <4>3. r.of \in Workspaces
        BY <1>0, <4>1 DEF Workspace!TypeOK, Live, Workspace!Request
      <4>4. r.of \in Named /\ active \in Named BY <4>1, <4>2, <4>3 DEF Named
      <4> QED BY <1>0, <2>1, <4>2, <4>4 DEF OnePlace
    <3> QED BY <1>2, <1>4, <1>9, <1>11, <3>1
  <2>3. {detail', sessions'} \cap Workspaces \subseteq {w} \/ ~switching
    BY <1>2 DEF switching, Workspace!WorkspacePageAssumption
  <2>4. ~switching => {detail', sessions'} \cap Workspaces \subseteq {w}
    <3> SUFFICES ASSUME ~switching PROVE {detail', sessions'} \cap Workspaces \subseteq {w}
      OBVIOUS
    <3>1. active = w BY <2>1 DEF switching
    <3>2. active \in Named BY <3>1 DEF Named
    <3>3. \A v \in {detail, sessions} \cap Workspaces : v = w
      BY <1>0, <2>1, <3>1, <3>2 DEF OnePlace, Named
    <3> QED BY <1>2, <3>3
  <2> QED BY <1>2, <2>2, <2>3, <2>4 DEF Named
<1>14. TasksKnow' BY <1>0 DEF TasksKnow
<1>15. Workspace!WorkspaceSpinnersStop'
  <2>1. new \in Live(requests') BY <1>4, <1>9, <1>11
  <2>2. sessionsLoading' /\ ~idleSpin' =>
            \E r \in Workspace!BagToSet(requests') : r.kind \in Workspace!OfSessions /\ r.live
    <3> SUFFICES ASSUME requests' = bag, sessionsLoading' = spin, idleSpin' = idleSpin,
                        sessionsLoading', ~idleSpin'
                 PROVE  \E r \in Workspace!BagToSet(requests') : r.kind \in Workspace!OfSessions /\ r.live
      BY <1>11 DEF Live
    <3>1. ~switching /\ sessionsLoading BY DEF spin
    <3>2. PICK r \in Workspace!BagToSet(requests) : r.kind \in Workspace!OfSessions /\ r.live
      BY <1>0, <3>1 DEF Workspace!WorkspaceSpinnersStop
    <3>3. r \in Live(old) BY <1>3, <1>7, <3>1, <3>2 DEF Live, Workspace!OfSessions
    <3> QED BY <1>9, <3>2, <3>3 DEF Live
  <2> QED BY <1>4, <2>1, <2>2 DEF Workspace!WorkspaceSpinnersStop, Live
<1> QED BY <1>12, <1>13, <1>14, <1>15 DEF WorkspaceInv

\* The invariant in the initial state.
LEMMA WorkspaceInit ==
    ASSUME Workspace!WorkspacePageAssumption, Workspace!Init
    PROVE  WorkspaceInv
<1>1. Workspace!IsABag(Workspace!EmptyBag) /\ Workspace!BagToSet(Workspace!EmptyBag) = {}
  BY DEF Workspace!EmptyBag, Workspace!IsABag, Workspace!BagToSet, Workspace!SetToBag
<1>2. Named = {}
  BY <1>1 DEF Workspace!Init, Named, Live, Workspace!WorkspacePageAssumption
<1>3. Workspace!TypeOK BY <1>1 DEF Workspace!Init, Workspace!TypeOK, Workspace!Places
<1> QED
  BY <1>1, <1>2, <1>3 DEF Workspace!Init, WorkspaceInv, OnePlace, TasksKnow,
     Workspace!WorkspaceSpinnersStop

\* What changes neither the requests nor a spinner, and names no other workspace.
LEMMA WorkspaceQuiet ==
    ASSUME WorkspaceInv, Workspace!TypeOK', TasksKnow', OnePlace',
           UNCHANGED <<detailLoading, sessionsLoading, requests, idleSpin>>
    PROVE  WorkspaceInv'
BY DEF WorkspaceInv, Workspace!WorkspaceSpinnersStop

\* An effect of the page that reads again.
LEMMA EffectStep ==
    ASSUME WorkspaceInv, Workspace!Requery \/ Workspace!SelectSessions,
           onSessions' \in BOOLEAN
    PROVE  WorkspaceInv'
<1>0. Workspace!TypeOK /\ OnePlace /\ TasksKnow /\ Workspace!WorkspaceSpinnersStop
  BY DEF WorkspaceInv
<1>1. UNCHANGED <<active, detail, sessions, detailLoading, tasks, strayed>>
  BY DEF Workspace!Requery, Workspace!SelectSessions, Workspace!shownHere
<1>2. CASE \/ Workspace!Effect(TRUE, requests, sessionsLoading)
           \/ Workspace!Effect(TRUE, requests, TRUE) /\ active # NoWorkspace /\ onSessions'
  <2>1. PICK spin \in BOOLEAN :
            /\ Workspace!Effect(TRUE, requests, spin)
            /\ spin = sessionsLoading \/ (active # NoWorkspace /\ onSessions')
    BY <1>0, <1>2 DEF Workspace!TypeOK
  <2>2. active' \in Workspace!Places /\ idleSpin \in BOOLEAN /\ Workspace!IsABag(requests)
        /\ Workspace!BagToSet(requests) \subseteq Workspace!Request
    BY <1>0, <1>1 DEF Workspace!TypeOK
  <2>3. /\ Workspace!IsABag(requests')
        /\ Workspace!BagToSet(requests') \subseteq Workspace!Request
        /\ sessionsLoading' \in BOOLEAN /\ idleSpin' \in BOOLEAN
        /\ \A r \in Live(requests') : r \in Live(requests) \/ r.of = active'
        /\ \A r \in Live(requests) : r.kind = "detail" => r \in Live(requests')
        /\ \/ \E r \in Live(requests') : r.kind \in Workspace!OfSessions
           \/ requests' = requests /\ sessionsLoading' = spin /\ idleSpin' = idleSpin
    BY <2>1, <2>2, EffectAsks
  <2>4. Workspace!TypeOK' BY <1>0, <1>1, <2>3 DEF Workspace!TypeOK
  <2>5. Named' \subseteq Named BY <1>1, <2>3 DEF Named
  <2>6. OnePlace' BY <1>0, <1>1, <2>5 DEF OnePlace
  <2>7. TasksKnow' BY <1>0, <1>1 DEF TasksKnow
  <2>8. detailLoading' => \E r \in Workspace!BagToSet(requests') : r.kind = "detail" /\ r.live
    BY <1>0, <1>1, <2>3 DEF Workspace!WorkspaceSpinnersStop, Live
  <2>9. sessionsLoading' /\ ~idleSpin' =>
            \E r \in Workspace!BagToSet(requests') : r.kind \in Workspace!OfSessions /\ r.live
    <3>1. CASE \E r \in Live(requests') : r.kind \in Workspace!OfSessions BY <3>1 DEF Live
    <3>2. CASE ~\E r \in Live(requests') : r.kind \in Workspace!OfSessions
      <4>1. requests' = requests /\ sessionsLoading' = spin /\ idleSpin' = idleSpin
        BY <2>3, <3>2
      <4>2. CASE spin = sessionsLoading
        BY <1>0, <4>1, <4>2 DEF Workspace!WorkspaceSpinnersStop
      <4>3. CASE active # NoWorkspace /\ onSessions'
        <5>1. requests' = Workspace!Asked(requests, active', FALSE)
          BY <1>1, <2>1, <4>3 DEF Workspace!Effect
        <5>2. active' \in Workspaces
          BY <1>0, <1>1, <4>3 DEF Workspace!TypeOK, Workspace!Places
        <5>3. Live(Workspace!Asked(requests, active', FALSE)) =
                {r \in Live(requests) : r.kind \notin Workspace!OfSessions}
                  \cup {NewSessions(active', FALSE)}
          BY <2>2, <5>2, AskedRequests
        <5>4. NewSessions(active', FALSE) \in Live(requests') BY <5>1, <5>3
        <5>5. NewSessions(active', FALSE).kind \in Workspace!OfSessions
          BY DEF NewSessions, Workspace!OfSessions
        <5> QED BY <3>2, <5>4, <5>5
      <4> QED BY <2>1, <4>2, <4>3
    <3> QED BY <3>1, <3>2
  <2> QED
    BY <2>4, <2>6, <2>7, <2>8, <2>9 DEF WorkspaceInv, Workspace!WorkspaceSpinnersStop
<1>3. CASE /\ sessionsLoading' = TRUE /\ idleSpin' = TRUE /\ UNCHANGED requests
  <2>1. Workspace!TypeOK' BY <1>0, <1>1, <1>3 DEF Workspace!TypeOK
  <2>2. Named' = Named BY <1>1, <1>3 DEF Named
  <2> QED
    BY <1>0, <1>1, <1>3, <2>1, <2>2 DEF WorkspaceInv, OnePlace, TasksKnow,
       Workspace!WorkspaceSpinnersStop
<1> QED BY <1>1, <1>2, <1>3 DEF Workspace!Requery, Workspace!SelectSessions

\* A command that goes on, and one that fails.
LEMMA TaskStep ==
    ASSUME Workspace!WorkspacePageAssumption, WorkspaceInv,
           NEW k \in Workspace!BagToSet(tasks),
           Workspace!GoesOn(k) \/ Workspace!Fails(k)
    PROVE  WorkspaceInv'
<1>0. Workspace!TypeOK /\ OnePlace /\ TasksKnow /\ Workspace!WorkspaceSpinnersStop
  BY DEF WorkspaceInv
<1>1. tasks' = Workspace!Less(tasks, k) /\ UNCHANGED onSessions
  BY DEF Workspace!GoesOn, Workspace!Fails
<1>2. /\ Workspace!IsABag(Workspace!Less(tasks, k))
      /\ Workspace!BagToSet(Workspace!Less(tasks, k)) \subseteq Workspace!BagToSet(tasks)
  BY <1>0, OneRequestLess DEF Workspace!TypeOK
<1>3. Workspace!IsABag(tasks') /\ Workspace!BagToSet(tasks') \subseteq Workspace!BagToSet(tasks)
  BY <1>1, <1>2
<1>4. /\ k.of \in Workspaces /\ k.from \in Workspace!Places /\ k.on \in BOOLEAN
      /\ k.kind \in {"refresh", "save", "bind"}
  BY <1>0 DEF Workspace!TypeOK, Workspace!Task
<1>5. TasksKnow' BY <1>0, <1>3 DEF TasksKnow
<1>6. CASE Workspace!Fails(k)
  <2>1. UNCHANGED <<onSessions, active, detail, sessions, detailLoading,
                    sessionsLoading, requests, strayed, idleSpin>>
    BY <1>6 DEF Workspace!Fails, Workspace!shownHere, Workspace!turning
  <2>2. Workspace!TypeOK' BY <1>0, <1>3, <2>1 DEF Workspace!TypeOK
  <2>3. OnePlace' BY <1>0, <2>1 DEF OnePlace, Named
  <2> QED BY <1>5, <2>1, <2>2, <2>3, WorkspaceQuiet
<1>7. CASE Workspace!GoesOn(k) /\ k.kind = "bind"
  <2>1. /\ strayed' = (strayed \/ k.from # active) /\ detail' = k.of
        /\ UNCHANGED <<active, sessions, detailLoading, sessionsLoading, requests,
                       idleSpin>>
    BY <1>7 DEF Workspace!GoesOn, Workspace!turning
  <2>2. Workspace!TypeOK'
    BY <1>0, <1>1, <1>3, <1>4, <2>1 DEF Workspace!TypeOK, Workspace!Places
  <2>3. k.of = k.from BY <1>0, <1>7 DEF TasksKnow
  <2>4. OnePlace'
    <3>1. ~strayed' => ~strayed /\ active = k.of BY <1>0, <2>1, <2>3 DEF Workspace!TypeOK
    <3>2. active = k.of => Named' \subseteq Named BY <1>4, <2>1 DEF Named
    <3> QED BY <1>0, <3>1, <3>2 DEF OnePlace
  <2> QED BY <1>5, <2>1, <2>2, <2>4, WorkspaceQuiet
<1>8. CASE Workspace!GoesOn(k) /\ k.kind # "bind"
  <2>1. /\ strayed' = (strayed \/ k.from # active)
        /\ Workspace!LoadDetail(k.of, k.from, k.kind = "save", k.on)
    BY <1>8 DEF Workspace!GoesOn
  <2>2. (k.kind = "save") \in BOOLEAN OBVIOUS
  <2>3. onSessions' \in BOOLEAN BY <1>0, <1>1 DEF Workspace!TypeOK
  <2> QED BY <1>3, <1>4, <2>1, <2>2, <2>3, LoadDetailStep
<1> QED BY <1>6, <1>7, <1>8

\* The reply of the detail.
LEMMA DetailStep ==
    ASSUME WorkspaceInv, NEW r \in Workspace!BagToSet(requests), NEW ok \in BOOLEAN,
           Workspace!DetailDone(r, ok)
    PROVE  WorkspaceInv'
<1>0. Workspace!TypeOK /\ OnePlace /\ TasksKnow /\ Workspace!WorkspaceSpinnersStop
  BY DEF WorkspaceInv
<1> DEFINE rest == Workspace!Without(r)
           on == IF r.on THEN Workspace!Asked(rest, r.of, TRUE) ELSE rest
<1>1. /\ r.kind = "detail" /\ UNCHANGED <<onSessions, sessions, tasks>>
      /\ IF r.live /\ ok THEN active' = r.of /\ detail' = r.of
         ELSE UNCHANGED <<active, detail>>
      /\ detailLoading' = (detailLoading /\ ~r.live)
      /\ Workspace!Effect(active' # active, on, sessionsLoading)
      /\ strayed' = (strayed \/ (r.on /\ r.of # active'))
  BY DEF Workspace!DetailDone
<1>2. r \in Workspace!Request BY <1>0 DEF Workspace!TypeOK
<1>3. r.of \in Workspaces /\ r.live \in BOOLEAN /\ r.on \in BOOLEAN
  BY <1>2 DEF Workspace!Request
<1>4. /\ Workspace!IsABag(rest)
      /\ Workspace!BagToSet(rest) \subseteq Workspace!BagToSet(requests)
      /\ Workspace!BagToSet(requests) \ {r} \subseteq Workspace!BagToSet(rest)
  BY <1>0, OneRequestLess DEF Workspace!Without, Workspace!TypeOK
<1> HIDE DEF rest
<1>5. Workspace!BagToSet(rest) \subseteq Workspace!Request
  BY <1>0, <1>4 DEF Workspace!TypeOK
<1>6. /\ Workspace!IsABag(on) /\ Workspace!BagToSet(on) \subseteq Workspace!Request
      /\ \A q \in Live(on) : q \in Live(requests) \/ (r.on /\ q.of = r.of)
      /\ \A q \in Live(requests) : q.kind = "detail" /\ q # r => q \in Live(on)
      /\ \/ \E q \in Live(on) : q.kind \in Workspace!OfSessions
         \/ \A q \in Live(requests) : q # r => q \in Live(on)
  <2>1. CASE r.on
    <3> DEFINE new == NewSessions(r.of, TRUE)
               bag == Workspace!Asked(rest, r.of, TRUE)
    <3>1. /\ Workspace!IsABag(bag) /\ Workspace!BagToSet(bag) \subseteq Workspace!Request
          /\ Live(bag) = {q \in Live(rest) : q.kind \notin Workspace!OfSessions} \cup {new}
      BY <1>3, <1>4, <1>5, AskedRequests
    <3>2. new.of = r.of /\ new.kind \in Workspace!OfSessions
      BY DEF NewSessions, Workspace!OfSessions
    <3>3. "detail" \notin Workspace!OfSessions BY DEF Workspace!OfSessions
    <3>4. on = bag BY <2>1
    <3> HIDE DEF new, bag, on
    <3> QED BY <1>4, <2>1, <3>1, <3>2, <3>3, <3>4 DEF Live
  <2>2. CASE ~r.on
    <3>1. on = rest BY <2>2
    <3> HIDE DEF on
    <3> QED BY <1>4, <1>5, <2>2, <3>1 DEF Live
  <2> QED BY <1>3, <2>1, <2>2
<1> HIDE DEF on
<1>7. active' \in Workspace!Places /\ sessionsLoading \in BOOLEAN /\ idleSpin \in BOOLEAN
  BY <1>0, <1>1, <1>3 DEF Workspace!TypeOK, Workspace!Places
<1>8. /\ Workspace!IsABag(requests')
      /\ Workspace!BagToSet(requests') \subseteq Workspace!Request
      /\ sessionsLoading' \in BOOLEAN /\ idleSpin' \in BOOLEAN
      /\ \A q \in Live(requests') : q \in Live(on) \/ q.of = active'
      /\ \A q \in Live(on) : q.kind = "detail" => q \in Live(requests')
      /\ \/ \E q \in Live(requests') : q.kind \in Workspace!OfSessions
         \/ requests' = on /\ sessionsLoading' = sessionsLoading /\ idleSpin' = idleSpin
  BY <1>1, <1>6, <1>7, EffectAsks
<1>9. Workspace!TypeOK'
  <2>1. {active', detail', sessions'} \subseteq Workspace!Places
    BY <1>0, <1>1, <1>3 DEF Workspace!TypeOK, Workspace!Places
  <2>2. detailLoading' \in BOOLEAN /\ strayed' \in BOOLEAN /\ onSessions' \in BOOLEAN
    BY <1>0, <1>1, <1>3 DEF Workspace!TypeOK
  <2> QED BY <1>0, <1>1, <1>8, <2>1, <2>2 DEF Workspace!TypeOK
<1>10. OnePlace'
  <2> SUFFICES ASSUME ~strayed' PROVE Named' \subseteq Named
    BY <1>0, <1>1 DEF OnePlace, Workspace!TypeOK
  <2>1. r.on => r.of = active' BY <1>1
  <2>2. r.live => r.of \in Named BY <1>3 DEF Named, Live
  <2>3. active' \in Named \/ active' \notin Workspaces
    BY <1>1, <2>2 DEF Named
  <2>4. detail' \in Named \/ detail' \notin Workspaces
    BY <1>1, <2>2 DEF Named
  <2>5. sessions' \in Named \/ sessions' \notin Workspaces BY <1>1 DEF Named
  <2>6. \A q \in Live(requests') : q.of \in Named \/ q.of \notin Workspaces
    BY <1>6, <1>8, <2>1, <2>3 DEF Named
  <2> QED BY <2>3, <2>4, <2>5, <2>6 DEF Named
<1>11. TasksKnow' BY <1>0, <1>1 DEF TasksKnow
<1>12. detailLoading' => \E q \in Workspace!BagToSet(requests') : q.kind = "detail" /\ q.live
  <2> SUFFICES ASSUME detailLoading'
               PROVE  \E q \in Workspace!BagToSet(requests') : q.kind = "detail" /\ q.live
    OBVIOUS
  <2>1. detailLoading /\ ~r.live BY <1>1
  <2>2. PICK q \in Workspace!BagToSet(requests) : q.kind = "detail" /\ q.live
    BY <1>0, <2>1 DEF Workspace!WorkspaceSpinnersStop
  <2>3. q \in Live(requests') BY <1>6, <1>8, <2>1, <2>2 DEF Live
  <2> QED BY <2>2, <2>3 DEF Live
<1>13. sessionsLoading' /\ ~idleSpin' =>
           \E q \in Workspace!BagToSet(requests') : q.kind \in Workspace!OfSessions /\ q.live
  <2> SUFFICES ASSUME requests' = on, sessionsLoading' = sessionsLoading,
                      idleSpin' = idleSpin, sessionsLoading', ~idleSpin'
               PROVE  \E q \in Workspace!BagToSet(requests') : q.kind \in Workspace!OfSessions /\ q.live
    BY <1>8 DEF Live
  <2>1. PICK q \in Workspace!BagToSet(requests) : q.kind \in Workspace!OfSessions /\ q.live
    BY <1>0 DEF Workspace!WorkspaceSpinnersStop
  <2>2. q # r BY <1>1, <2>1 DEF Workspace!OfSessions
  <2> QED BY <1>6, <2>1, <2>2 DEF Live
<1> QED
  BY <1>9, <1>10, <1>11, <1>12, <1>13 DEF WorkspaceInv, Workspace!WorkspaceSpinnersStop

\* The replies of the sessions, and the end of a pause.
LEMMA SessionsStep ==
    ASSUME WorkspaceInv, NEW r \in Workspace!BagToSet(requests), NEW ok \in BOOLEAN,
           Workspace!SessionsDone(r, ok) \/ Workspace!PauseDone(r)
    PROVE  WorkspaceInv'
<1>0. Workspace!TypeOK /\ OnePlace /\ TasksKnow /\ Workspace!WorkspaceSpinnersStop
  BY DEF WorkspaceInv
<1> DEFINE rest == Workspace!Without(r)
           pause == [r EXCEPT !.kind = "pause"]
<1>1. r \in Workspace!Request BY <1>0 DEF Workspace!TypeOK
<1>2. r.of \in Workspaces /\ r.live \in BOOLEAN /\ r.silent \in BOOLEAN
  BY <1>1 DEF Workspace!Request
<1>3. /\ pause \in Workspace!Request /\ pause.kind = "pause" /\ pause.of = r.of
      /\ pause.live = r.live
  BY <1>1 DEF Workspace!Request
<1>4. /\ Workspace!IsABag(rest)
      /\ Workspace!BagToSet(rest) \subseteq Workspace!BagToSet(requests)
      /\ Workspace!BagToSet(requests) \ {r} \subseteq Workspace!BagToSet(rest)
  BY <1>0, OneRequestLess DEF Workspace!Without, Workspace!TypeOK
<1>5. /\ r.kind \in Workspace!OfSessions
      /\ UNCHANGED <<onSessions, active, detail, detailLoading, tasks, strayed, idleSpin>>
      /\ sessions' = sessions \/ (r.live /\ sessions' = r.of)
      /\ \/ requests' = rest
         \/ requests' = Workspace!And(rest, pause)
      /\ sessionsLoading' \in BOOLEAN
      /\ sessionsLoading' => sessionsLoading /\ (~r.live \/ requests' = Workspace!And(rest, pause))
  BY <1>0, <1>2 DEF Workspace!SessionsDone, Workspace!PauseDone, Workspace!shownHere,
     Workspace!TypeOK, Workspace!OfSessions
<1> HIDE DEF rest, pause
<1>6. Workspace!IsABag(Workspace!And(rest, pause)) /\ Workspace!BagToSet(Workspace!And(rest, pause)) = Workspace!BagToSet(rest) \cup {pause}
  BY <1>4, OneRequestMore
<1>7. /\ Workspace!IsABag(requests')
      /\ Workspace!BagToSet(requests') \subseteq Workspace!BagToSet(requests) \cup {pause}
      /\ Workspace!BagToSet(requests) \ {r} \subseteq Workspace!BagToSet(requests')
      /\ requests' = Workspace!And(rest, pause) => pause \in Workspace!BagToSet(requests')
  BY <1>4, <1>5, <1>6
<1>8. Workspace!BagToSet(requests') \subseteq Workspace!Request
  BY <1>0, <1>3, <1>7 DEF Workspace!TypeOK
<1>9. Workspace!TypeOK'
  BY <1>0, <1>2, <1>5, <1>7, <1>8 DEF Workspace!TypeOK, Workspace!Places
<1>10. Named' \subseteq Named
  <2>1. r.live => r.of \in Named BY <1>2 DEF Named, Live
  <2>2. sessions' \in Named \/ sessions' \notin Workspaces BY <1>5, <2>1 DEF Named
  <2>3. \A q \in Live(requests') : q.of \in Named \/ q.of \notin Workspaces
    <3> SUFFICES ASSUME NEW q \in Live(requests')
                 PROVE  q.of \in Named \/ q.of \notin Workspaces
      OBVIOUS
    <3>1. CASE q \in Workspace!BagToSet(requests) BY <3>1 DEF Named, Live
    <3>2. CASE q = pause BY <1>3, <2>1, <3>2 DEF Live
    <3> QED BY <1>7, <3>1, <3>2 DEF Live
  <2> QED BY <1>5, <2>2, <2>3 DEF Named
<1>11. OnePlace' BY <1>0, <1>5, <1>10 DEF OnePlace
<1>12. TasksKnow' BY <1>0, <1>5 DEF TasksKnow
<1>13. Workspace!WorkspaceSpinnersStop'
  <2>1. detailLoading' => \E q \in Workspace!BagToSet(requests') : q.kind = "detail" /\ q.live
    BY <1>0, <1>5, <1>7 DEF Workspace!WorkspaceSpinnersStop, Workspace!OfSessions
  <2>2. sessionsLoading' /\ ~idleSpin' =>
            \E q \in Workspace!BagToSet(requests') : q.kind \in Workspace!OfSessions /\ q.live
    <3> SUFFICES ASSUME sessionsLoading', ~idleSpin'
                 PROVE  \E q \in Workspace!BagToSet(requests') : q.kind \in Workspace!OfSessions /\ q.live
      OBVIOUS
    <3>1. PICK q \in Workspace!BagToSet(requests) : q.kind \in Workspace!OfSessions /\ q.live
      BY <1>0, <1>5 DEF Workspace!WorkspaceSpinnersStop
    <3>2. CASE q # r BY <1>7, <3>1, <3>2
    <3>3. CASE q = r
      <4>1. pause \in Workspace!BagToSet(requests') /\ pause.live
        BY <1>3, <1>5, <1>7, <3>1, <3>3
      <4> QED BY <1>3, <4>1 DEF Workspace!OfSessions
    <3> QED BY <3>2, <3>3
  <2> QED BY <2>1, <2>2 DEF Workspace!WorkspaceSpinnersStop
<1> QED BY <1>9, <1>11, <1>12, <1>13 DEF WorkspaceInv

\* One step per action.
LEMMA WorkspaceStep ==
    ASSUME Workspace!WorkspacePageAssumption, WorkspaceInv,
           [Workspace!Next]_(Workspace!vars)
    PROVE  WorkspaceInv'
<1>0. Workspace!TypeOK /\ OnePlace /\ TasksKnow /\ Workspace!WorkspaceSpinnersStop
  BY DEF WorkspaceInv
<1>1. ASSUME NEW w \in Workspaces, Workspace!Open(w) PROVE WorkspaceInv'
  <2>1. /\ onSessions' = TRUE /\ Workspace!LoadDetail(w, active, TRUE, FALSE)
        /\ tasks' = tasks /\ strayed' = (strayed \/ active # active)
    BY <1>0, <1>1 DEF Workspace!Open, Workspace!TypeOK
  <2> QED BY <1>0, <2>1, LoadDetailStep DEF Workspace!TypeOK
<1>2. ASSUME NEW w \in Workspaces, NEW kind \in {"refresh", "save", "bind"},
             Workspace!Begin(kind, w)
      PROVE  WorkspaceInv'
  <2> DEFINE task == [kind |-> kind, of |-> w, from |-> active,
                      on |-> kind = "refresh" /\ onSessions]
  <2>1. /\ kind # "save" => w = active
        /\ tasks' = Workspace!And(tasks, task)
        /\ UNCHANGED <<onSessions, active, detail, sessions, detailLoading,
                       sessionsLoading, requests, strayed, idleSpin>>
    BY <1>2 DEF Workspace!Begin, Workspace!shownHere, Workspace!turning
  <2>2. task \in Workspace!Task /\ (task.kind # "save" => task.of = task.from)
    BY <1>0, <2>1 DEF Workspace!Task, Workspace!TypeOK
  <2> HIDE DEF task
  <2>3. Workspace!IsABag(Workspace!And(tasks, task)) /\ Workspace!BagToSet(Workspace!And(tasks, task)) = Workspace!BagToSet(tasks) \cup {task}
    BY <1>0, OneRequestMore DEF Workspace!TypeOK
  <2>4. Workspace!IsABag(tasks') /\ Workspace!BagToSet(tasks') = Workspace!BagToSet(tasks) \cup {task}
    BY <2>1, <2>3
  <2>5. Workspace!TypeOK' BY <1>0, <2>1, <2>2, <2>4 DEF Workspace!TypeOK
  <2>6. TasksKnow' BY <1>0, <2>2, <2>4 DEF TasksKnow
  <2>7. OnePlace' BY <1>0, <2>1 DEF OnePlace, Named
  <2> QED BY <2>1, <2>5, <2>6, <2>7, WorkspaceQuiet
<1>3. ASSUME Workspace!Leave \/ Workspace!SelectOther \/ UNCHANGED Workspace!vars
      PROVE  WorkspaceInv'
  <2>1. /\ UNCHANGED <<detailLoading, sessionsLoading, requests, tasks, strayed,
                       idleSpin>>
        /\ onSessions' \in BOOLEAN
        /\ \/ UNCHANGED <<active, detail, sessions>>
           \/ active' = NoWorkspace /\ detail' = NoWorkspace /\ sessions' = NoWorkspace
    BY <1>0, <1>3 DEF Workspace!Leave, Workspace!SelectOther, Workspace!vars,
       Workspace!shownHere, Workspace!turning, Workspace!TypeOK
  <2>2. Workspace!TypeOK' /\ TasksKnow'
    BY <1>0, <2>1 DEF Workspace!TypeOK, TasksKnow, Workspace!Places
  <2>3. OnePlace' BY <1>0, <2>1 DEF OnePlace, Named, Workspace!WorkspacePageAssumption
  <2> QED BY <2>1, <2>2, <2>3, WorkspaceQuiet
<1>4. ASSUME Workspace!Requery \/ Workspace!SelectSessions PROVE WorkspaceInv'
  <2>1. onSessions' \in BOOLEAN
    BY <1>0, <1>4 DEF Workspace!Requery, Workspace!SelectSessions, Workspace!TypeOK
  <2> QED BY <1>4, <2>1, EffectStep
<1>5. ASSUME NEW k \in Workspace!BagToSet(tasks), Workspace!GoesOn(k) \/ Workspace!Fails(k)
      PROVE  WorkspaceInv'
  BY <1>5, TaskStep
<1>6. ASSUME NEW r \in Workspace!BagToSet(requests), NEW ok \in BOOLEAN,
             Workspace!PauseDone(r) \/ Workspace!DetailDone(r, ok) \/ Workspace!SessionsDone(r, ok)
      PROVE  WorkspaceInv'
  BY <1>6, DetailStep, SessionsStep
<1> QED BY <1>1, <1>2, <1>3, <1>4, <1>5, <1>6 DEF Workspace!Next

\* All of it holds in every state.
LEMMA AlwaysWorkspaceInv ==
    ASSUME Workspace!WorkspacePageAssumption PROVE Workspace!Spec => []WorkspaceInv
<1>1. Workspace!Init => WorkspaceInv BY WorkspaceInit
<1>2. WorkspaceInv /\ [Workspace!Next]_(Workspace!vars) => WorkspaceInv' BY WorkspaceStep
<1> QED BY <1>1, <1>2, PTL DEF Workspace!Spec

\* One place is one workspace, which is what the run checks.
LEMMA WorkspacePromises ==
    ASSUME WorkspaceInv
    PROVE  Workspace!OwnWorkspaceOnly /\ Workspace!WorkspaceSpinnersStop
<1>0. Workspace!TypeOK /\ OnePlace /\ Workspace!WorkspaceSpinnersStop BY DEF WorkspaceInv
<1>1. Workspace!OwnWorkspaceOnly
  <2> SUFFICES ASSUME ~strayed, active # NoWorkspace
               PROVE  {detail, sessions} \subseteq {active, NoWorkspace}
    BY DEF Workspace!OwnWorkspaceOnly
  <2>1. active \in Named BY <1>0 DEF Workspace!TypeOK, Workspace!Places, Named
  <2>2. \A w \in {detail, sessions} : w \in Named \/ w = NoWorkspace
    BY <1>0 DEF Workspace!TypeOK, Workspace!Places, Named
  <2> QED BY <1>0, <2>1, <2>2 DEF OnePlace
<1> QED BY <1>0, <1>1

-----------------------------------------------------------------------------
(*************************************************************************)
(* TunnelsPage: the list never goes back behind what it owes the user,   *)
(* and spinners stop.                                                    *)
(*                                                                       *)
(* The argument. A load makes the ones before it stale, so that one at   *)
(* most is live, and a command that is done or a broadcast that is taken *)
(* starts one: so what a live load has read has all that is owed by then *)
(* (LatestKnows), provided that whatever is owed has happened            *)
(* (ChangesHappened). A command about a group disables the others, so    *)
(* that one of them is under way, as a command or as the load that       *)
(* follows it (OneBatch), and the spinner that it stops is its own.      *)
(*************************************************************************)
\* A bag has at most one of S.
Single(bag, S) == \A x, y \in TunnelList!BagToSet(bag) \cap S : x = y /\ bag[x] = 1
\* The loads that count, and the loads and commands about a group.
LiveLoads == {r \in TunnelList!Load : r.live}
GroupLoads == {r \in TunnelList!Load : r.of = AllTunnels}
GroupOrders == {o \in TunnelList!Order : o.of = AllTunnels}

\* One load is the latest, at most, and what it has read has all that is owed.
LatestKnows ==
    /\ Single(loads, LiveLoads)
    /\ \A r \in TunnelList!BagToSet(loads) :
          /\ r.seen <= revision
          /\ r.live /\ r.seen # TunnelList!Unread => owed \subseteq TunnelList!Snapshot(r.seen)

\* What commands and dialogs have changed has happened, and only a command that
\* goes on with a load has changed anything.
ChangesHappened ==
    /\ \A v \in posted : v <= revision
    /\ \A o \in TunnelList!BagToSet(orders) :
          o.change <= revision /\ (o.pc # "load" => o.change = TunnelList!Unchanged)
    /\ \A d \in Dialogs : editing[d].pc = "saved" => editing[d].change \in 1..revision

\* One command about a group is under way, at most.
OneBatch ==
    /\ Single(loads, GroupLoads) /\ Single(orders, GroupOrders)
    /\ TunnelList!BagToSet(loads) \cap GroupLoads = {} \/ TunnelList!BagToSet(orders) \cap GroupOrders = {}

\* The inductive invariant.
TunnelsInv ==
    TunnelList!TypeOK /\ LatestKnows /\ ChangesHappened /\ OneBatch /\ TunnelList!TunnelSpinnersStop

\* What And, Less and Outdated make of a bag of loads or commands.
LEMMA OneLoadMore ==
    ASSUME NEW bag, TunnelList!IsABag(bag), NEW e
    PROVE  /\ TunnelList!IsABag(TunnelList!And(bag, e))
           /\ TunnelList!BagToSet(TunnelList!And(bag, e)) = TunnelList!BagToSet(bag) \cup {e}
           /\ \A x \in TunnelList!BagToSet(bag) \ {e} : TunnelList!And(bag, e)[x] = bag[x]
           /\ e \notin TunnelList!BagToSet(bag) => TunnelList!And(bag, e)[e] = 1
<1> DEFINE both == TunnelList!And(bag, e)
           n(x) == (IF x \in DOMAIN bag THEN bag[x] ELSE 0)
                     + (IF x \in {e} THEN 1 ELSE 0)
<1>1. both = [x \in DOMAIN bag \cup {e} |-> n(x)]
  BY DEF TunnelList!And, TunnelList!SetToBag, TunnelList!(+)
<1> HIDE DEF both
<1>2. \A x \in DOMAIN bag : bag[x] \in Nat /\ bag[x] > 0 BY DEF TunnelList!IsABag
<1>3. \A x \in DOMAIN bag \cup {e} : n(x) \in {m \in Nat : m > 0} BY <1>2
<1>6. /\ \A x \in TunnelList!BagToSet(bag) \ {e} : both[x] = bag[x]
      /\ e \notin TunnelList!BagToSet(bag) => both[e] = 1
  BY <1>1, <1>2 DEF TunnelList!BagToSet
<1> HIDE DEF n
<1>4. TunnelList!IsABag(both) BY <1>1, <1>3 DEF TunnelList!IsABag
<1>5. TunnelList!BagToSet(both) = TunnelList!BagToSet(bag) \cup {e}
  BY <1>1 DEF TunnelList!BagToSet
<1> QED BY <1>4, <1>5, <1>6 DEF both

\* The same of one less.
LEMMA OneLoadLess ==
    ASSUME NEW bag, TunnelList!IsABag(bag), NEW e
    PROVE  /\ TunnelList!IsABag(TunnelList!Less(bag, e))
           /\ TunnelList!BagToSet(TunnelList!Less(bag, e)) \subseteq TunnelList!BagToSet(bag)
           /\ TunnelList!BagToSet(bag) \ {e} \subseteq TunnelList!BagToSet(TunnelList!Less(bag, e))
           /\ \A x \in TunnelList!BagToSet(TunnelList!Less(bag, e)) :
                 TunnelList!Less(bag, e)[x] = IF x = e THEN bag[x] - 1 ELSE bag[x]
           /\ e \in TunnelList!BagToSet(bag) /\ bag[e] = 1 => e \notin TunnelList!BagToSet(TunnelList!Less(bag, e))
BY DEF TunnelList!Less, TunnelList!IsABag, TunnelList!BagToSet, TunnelList!SetToBag,
   TunnelList!(-)

\* A bag that has at most one of S, with one more of what it lacks,
LEMMA SingleMore ==
    ASSUME NEW bag, TunnelList!IsABag(bag), NEW e, NEW S, Single(bag, S),
           e \notin S \/ TunnelList!BagToSet(bag) \cap S = {}
    PROVE  Single(TunnelList!And(bag, e), S)
BY OneLoadMore DEF Single

\* and with one less.
LEMMA SingleLess ==
    ASSUME NEW bag, TunnelList!IsABag(bag), NEW e, NEW S, Single(bag, S)
    PROVE  /\ Single(TunnelList!Less(bag, e), S)
           /\ e \in TunnelList!BagToSet(bag) \cap S => TunnelList!BagToSet(TunnelList!Less(bag, e)) \cap S = {}
<1>1. ASSUME NEW x \in TunnelList!BagToSet(TunnelList!Less(bag, e)) \cap S
      PROVE  x # e /\ TunnelList!Less(bag, e)[x] = 1
  <2>1. x \in TunnelList!BagToSet(bag) /\ bag[x] = 1 BY <1>1, OneLoadLess DEF Single
  <2>2. x # e BY <1>1, <2>1, OneLoadLess
  <2> QED BY <1>1, <2>1, <2>2, OneLoadLess
<1>2. Single(TunnelList!Less(bag, e), S) BY <1>1, OneLoadLess DEF Single
<1>3. ASSUME e \in TunnelList!BagToSet(bag) \cap S
      PROVE  TunnelList!BagToSet(TunnelList!Less(bag, e)) \cap S = {}
  BY <1>1, <1>3, OneLoadLess DEF Single
<1> QED BY <1>2, <1>3

\* The fields of a load, and of one that was overtaken.
LEMMA LoadFields ==
    ASSUME NEW r \in TunnelList!Load
    PROVE  /\ TunnelList!Raised(r) \in TunnelList!Load
           /\ TunnelList!Raised(r).live = FALSE
           /\ TunnelList!Raised(r).of = r.of /\ TunnelList!Raised(r).seen = r.seen
           /\ TunnelList!Raised(r) = r \/ (r.live /\ r = [TunnelList!Raised(r) EXCEPT !.live = TRUE])
<1>1. /\ TunnelList!Raised(r) \in TunnelList!Load /\ TunnelList!Raised(r).live = FALSE
      /\ TunnelList!Raised(r).of = r.of
      /\ TunnelList!Raised(r).seen = r.seen
      /\ r.live \in BOOLEAN
  BY DEF TunnelList!Load, TunnelList!Raised
<1>2. CASE r.live = FALSE
  <2>1. TunnelList!Raised(r) = r BY <1>2 DEF TunnelList!Load, TunnelList!Raised
  <2> QED BY <1>1, <2>1
<1>3. CASE r.live = TRUE
  <2>1. r = [TunnelList!Raised(r) EXCEPT !.live = TRUE]
    BY <1>3 DEF TunnelList!Load, TunnelList!Raised
  <2> QED BY <1>1, <1>3, <2>1
<1> QED BY <1>1, <1>2, <1>3

\* The loads after all of them were overtaken: as many as before, and none counts.
LEMMA OutdatedLoads ==
    ASSUME TunnelList!IsABag(loads), TunnelList!BagToSet(loads) \subseteq TunnelList!Load
    PROVE  /\ TunnelList!IsABag(TunnelList!Outdated)
           /\ TunnelList!BagToSet(TunnelList!Outdated) \subseteq TunnelList!Load
           /\ TunnelList!BagToSet(TunnelList!Outdated) = {TunnelList!Raised(q) : q \in TunnelList!BagToSet(loads)}
           /\ \A r \in TunnelList!BagToSet(TunnelList!Outdated) : ~r.live
           /\ \A r \in TunnelList!BagToSet(TunnelList!Outdated) :
                 TunnelList!Outdated[r] = TunnelList!Copies(r, loads) + TunnelList!Copies([r EXCEPT !.live = TRUE], loads)
           /\ Single(loads, GroupLoads) => Single(TunnelList!Outdated, GroupLoads)
<1> DEFINE S == {TunnelList!Raised(q) : q \in TunnelList!BagToSet(loads)}
           Alive(r) == [r EXCEPT !.live = TRUE]
           n(r) == TunnelList!Copies(r, loads) + TunnelList!Copies(Alive(r), loads)
           all == TunnelList!Outdated
<1>1. all = [r \in S |-> n(r)] BY DEF TunnelList!Outdated
<1>2. \A x : TunnelList!Copies(x, loads) \in Nat
  BY DEF TunnelList!Copies, TunnelList!IsABag, TunnelList!BagToSet
<1>3. \A x \in TunnelList!BagToSet(loads) : TunnelList!Copies(x, loads) > 0
  BY DEF TunnelList!Copies, TunnelList!IsABag, TunnelList!BagToSet
<1>4. \A x : TunnelList!Copies(x, loads) > 0 => x \in TunnelList!BagToSet(loads) /\ TunnelList!Copies(x, loads) = loads[x]
  BY DEF TunnelList!Copies
<1>5. ASSUME NEW r \in TunnelList!Load PROVE Alive(r).live = TRUE /\ Alive(r).of = r.of
  BY DEF TunnelList!Load
<1> HIDE DEF all, Alive
<1>6. ASSUME NEW r \in S
      PROVE  /\ n(r) \in {m \in Nat : m > 0} /\ r \in TunnelList!Load /\ ~r.live
             /\ \E q \in TunnelList!BagToSet(loads) : q.of = r.of /\ r = TunnelList!Raised(q)
  <2>1. PICK q \in TunnelList!BagToSet(loads) : r = TunnelList!Raised(q) OBVIOUS
  <2>2. r = q \/ q = Alive(r) BY <2>1, LoadFields DEF Alive
  <2>3. TunnelList!Copies(q, loads) > 0 BY <1>3
  <2>4. TunnelList!Copies(r, loads) \in Nat /\ TunnelList!Copies(Alive(r), loads) \in Nat
    BY <1>2
  <2>5. TunnelList!Copies(r, loads) > 0 \/ TunnelList!Copies(Alive(r), loads) > 0
    BY <2>2, <2>3
  <2>6. n(r) \in {m \in Nat : m > 0} BY <2>4, <2>5
  <2>7. r \in TunnelList!Load /\ ~r.live /\ q.of = r.of BY <2>1, LoadFields
  <2> QED BY <2>1, <2>6, <2>7
<1>7. TunnelList!BagToSet(all) = S BY <1>1 DEF TunnelList!BagToSet
<1>8. TunnelList!IsABag(all) BY <1>1, <1>6 DEF TunnelList!IsABag
<1>9. ASSUME Single(loads, GroupLoads) PROVE Single(all, GroupLoads)
  <2> SUFFICES ASSUME NEW x \in S \cap GroupLoads, NEW y \in S \cap GroupLoads
               PROVE  x = y /\ n(x) = 1
    BY <1>1, <1>7 DEF Single
  <2>1. PICK p \in TunnelList!BagToSet(loads) : p.of = x.of /\ x = TunnelList!Raised(p)
    BY <1>6
  <2>2. PICK q \in TunnelList!BagToSet(loads) : q.of = y.of /\ y = TunnelList!Raised(q)
    BY <1>6
  <2>3. p \in GroupLoads /\ q \in GroupLoads BY <2>1, <2>2 DEF GroupLoads
  <2>4. p = q /\ loads[p] = 1 BY <1>9, <2>1, <2>2, <2>3 DEF Single
  <2>5. x # Alive(x) BY <1>5, <1>6
  <2>6. ASSUME NEW z \in {x, Alive(x)}, TunnelList!Copies(z, loads) > 0
        PROVE  z = p /\ TunnelList!Copies(z, loads) = 1
    <3>1. z \in TunnelList!BagToSet(loads) /\ TunnelList!Copies(z, loads) = loads[z]
      BY <1>4, <2>6
    <3>2. z.of = AllTunnels BY <1>5, <1>6 DEF GroupLoads
    <3>3. z \in GroupLoads BY <3>1, <3>2 DEF GroupLoads
    <3> QED BY <1>9, <2>1, <2>3, <3>1, <3>3 DEF Single
  <2>7. n(x) > 0 BY <1>6
  <2>8. n(x) = 1 BY <1>2, <2>5, <2>6, <2>7
  <2> QED BY <2>1, <2>2, <2>4, <2>8
<1> QED BY <1>1, <1>6, <1>7, <1>8, <1>9 DEF all, Alive

\* A new load is the latest, and leaves what waits for the others.
LEMMA NewLoads ==
    ASSUME TunnelsInv, NEW of \in Tunnels \cup {AllTunnels, NoTunnel},
           TunnelList!LoadData(of)
    PROVE  /\ TunnelList!IsABag(loads')
           /\ TunnelList!BagToSet(loads') \subseteq TunnelList!Load
           /\ listLoading' = TRUE
           /\ \E r \in TunnelList!BagToSet(loads') : r.live
           /\ \A r \in TunnelList!BagToSet(loads') : r.live => r.seen = TunnelList!Unread
           /\ Single(loads', LiveLoads)
           /\ \A r \in TunnelList!BagToSet(loads') : r.seen <= revision
           /\ \A t : (\E r \in TunnelList!BagToSet(loads') : r.of = t)
                        <=> t = of \/ \E r \in TunnelList!BagToSet(loads) : r.of = t
           /\ (of # AllTunnels \/ TunnelList!BagToSet(loads) \cap GroupLoads = {}) =>
                Single(loads', GroupLoads)
<1> DEFINE new == TunnelList!NewLoad(of)
<1>0. TunnelList!TypeOK /\ LatestKnows /\ OneBatch BY DEF TunnelsInv
<1>1. TunnelList!IsABag(loads) /\ TunnelList!BagToSet(loads) \subseteq TunnelList!Load /\ revision \in Nat
  BY <1>0 DEF TunnelList!TypeOK, TunnelList!Versions
<1>2. /\ TunnelList!IsABag(TunnelList!Outdated)
      /\ TunnelList!BagToSet(TunnelList!Outdated) \subseteq TunnelList!Load
      /\ TunnelList!BagToSet(TunnelList!Outdated) = {TunnelList!Raised(q) : q \in TunnelList!BagToSet(loads)}
      /\ \A r \in TunnelList!BagToSet(TunnelList!Outdated) : ~r.live
      /\ Single(TunnelList!Outdated, GroupLoads)
  BY <1>0, <1>1, OutdatedLoads DEF OneBatch
<1>a. ASSUME NEW r \in TunnelList!BagToSet(TunnelList!Outdated)
      PROVE  \E q \in TunnelList!BagToSet(loads) : q.of = r.of /\ q.seen = r.seen
  <2>1. PICK q \in TunnelList!BagToSet(loads) : r = TunnelList!Raised(q) BY <1>2
  <2> QED BY <1>1, <2>1, LoadFields
<1>b. ASSUME NEW q \in TunnelList!BagToSet(loads)
      PROVE  \E r \in TunnelList!BagToSet(TunnelList!Outdated) : r.of = q.of
  <2>1. TunnelList!Raised(q) \in TunnelList!BagToSet(TunnelList!Outdated) /\ TunnelList!Raised(q).of = q.of
    BY <1>1, <1>2, LoadFields
  <2> QED BY <2>1
<1>3. new \in TunnelList!Load /\ new.live /\ new.seen = TunnelList!Unread /\ new.of = of
  BY DEF TunnelList!NewLoad, TunnelList!Load
<1>4. loads' = TunnelList!And(TunnelList!Outdated, new) /\ listLoading' = TRUE
  BY DEF TunnelList!LoadData
<1> HIDE DEF new
<1>5. /\ TunnelList!IsABag(TunnelList!And(TunnelList!Outdated, new))
      /\ TunnelList!BagToSet(TunnelList!And(TunnelList!Outdated, new)) = TunnelList!BagToSet(TunnelList!Outdated) \cup {new}
  BY <1>2, OneLoadMore
<1>6. TunnelList!IsABag(loads') /\ TunnelList!BagToSet(loads') = TunnelList!BagToSet(TunnelList!Outdated) \cup {new}
  BY <1>4, <1>5
<1>7. Single(loads', LiveLoads)
  <2>1. TunnelList!BagToSet(TunnelList!Outdated) \cap LiveLoads = {} BY <1>2 DEF LiveLoads
  <2>2. Single(TunnelList!Outdated, LiveLoads) BY <2>1 DEF Single
  <2> QED BY <1>2, <1>4, <2>1, <2>2, SingleMore
<1>8. ASSUME of # AllTunnels \/ TunnelList!BagToSet(loads) \cap GroupLoads = {}
      PROVE  Single(loads', GroupLoads)
  <2>1. CASE of # AllTunnels
    <3>1. new \notin GroupLoads BY <1>3, <2>1 DEF GroupLoads
    <3> QED BY <1>2, <1>4, <3>1, SingleMore
  <2>2. CASE TunnelList!BagToSet(loads) \cap GroupLoads = {}
    <3>1. TunnelList!BagToSet(TunnelList!Outdated) \cap GroupLoads = {}
      BY <1>1, <1>a, <2>2 DEF GroupLoads
    <3> QED BY <1>2, <1>4, <3>1, SingleMore
  <2> QED BY <1>8, <2>1, <2>2
<1>9. \A r \in TunnelList!BagToSet(TunnelList!Outdated) : r.seen <= revision
  BY <1>0, <1>a DEF LatestKnows
<1>10. TunnelList!Unread <= revision BY <1>1 DEF TunnelList!Unread
<1>11. \A t : (\E r \in TunnelList!BagToSet(TunnelList!Outdated) : r.of = t)
                 <=> \E r \in TunnelList!BagToSet(loads) : r.of = t
  BY <1>a, <1>b
<1> QED BY <1>2, <1>3, <1>4, <1>6, <1>7, <1>8, <1>9, <1>10, <1>11

\* The invariant in the initial state.
LEMMA TunnelsInit ==
    ASSUME TunnelList!TunnelsPageAssumption, TunnelList!Init
    PROVE  TunnelsInv
<1> DEFINE new == TunnelList!NewLoad(NoTunnel)
<1>1. TunnelList!IsABag(TunnelList!EmptyBag) /\ TunnelList!BagToSet(TunnelList!EmptyBag) = {}
  BY DEF TunnelList!EmptyBag, TunnelList!IsABag, TunnelList!BagToSet, TunnelList!SetToBag
<1>2. new \in TunnelList!Load /\ new.live /\ new.seen = TunnelList!Unread /\ new.of = NoTunnel
  BY DEF TunnelList!NewLoad, TunnelList!Load
<1>3. /\ revision = 0 /\ posted = {} /\ shown = {} /\ owed = {}
      /\ listLoading = TRUE /\ busy = NoTunnel /\ groupBusy = FALSE
      /\ loads = TunnelList!SetToBag({new}) /\ orders = TunnelList!EmptyBag
      /\ editing = [d \in Dialogs |-> TunnelList!AtRest]
  BY DEF TunnelList!Init
<1> HIDE DEF new
<1>4. TunnelList!IsABag(loads) /\ TunnelList!BagToSet(loads) = {new} /\ loads[new] = 1
  BY <1>3 DEF TunnelList!IsABag, TunnelList!BagToSet, TunnelList!SetToBag
<1>5. TunnelList!AtRest \in TunnelList!Edit /\ TunnelList!AtRest.pc = "rest"
  BY DEF TunnelList!AtRest, TunnelList!Edit, TunnelList!Versions, TunnelList!Unchanged,
     TunnelList!TunnelsPageAssumption
<1>6. TunnelList!TypeOK
  <2>1. /\ revision \in TunnelList!Versions /\ posted \subseteq TunnelList!Versions
        /\ shown \cup owed \subseteq TunnelList!Snapshot(revision)
    BY <1>3 DEF TunnelList!Versions, TunnelList!TunnelsPageAssumption
  <2>2. {listLoading, groupBusy} \subseteq BOOLEAN /\ busy \in Tunnels \cup {NoTunnel}
    BY <1>3
  <2>3. TunnelList!IsABag(orders) /\ TunnelList!BagToSet(orders) \subseteq TunnelList!Order
    BY <1>1, <1>3
  <2>4. editing \in [Dialogs -> TunnelList!Edit] BY <1>3, <1>5
  <2> QED BY <1>2, <1>4, <2>1, <2>2, <2>3, <2>4 DEF TunnelList!TypeOK
<1>7. LatestKnows
  BY <1>2, <1>3, <1>4 DEF LatestKnows, Single, TunnelList!Unread
<1>8. ChangesHappened BY <1>1, <1>3, <1>5 DEF ChangesHappened
<1>9. TunnelList!BagToSet(loads) \cap GroupLoads = {} /\ TunnelList!BagToSet(orders) \cap GroupOrders = {}
  BY <1>1, <1>2, <1>3, <1>4 DEF GroupLoads, TunnelList!TunnelsPageAssumption
<1>10. OneBatch BY <1>9 DEF OneBatch, Single
<1>11. TunnelList!TunnelSpinnersStop
  BY <1>1, <1>2, <1>3, <1>4 DEF TunnelList!TunnelSpinnersStop, TunnelList!UnderWay,
     TunnelList!TunnelsPageAssumption
<1> QED BY <1>6, <1>7, <1>8, <1>10, <1>11 DEF TunnelsInv

\* The native side goes on by one change at most.
LEMMA Onward ==
    ASSUME TunnelList!TunnelsPageAssumption, TunnelList!TypeOK, ChangesHappened,
           TunnelList!Changed \/ UNCHANGED TunnelList!native
    PROVE  /\ revision' \in TunnelList!Versions /\ revision \in Nat /\ revision' \in Nat
           /\ revision <= revision'
           /\ posted' \subseteq TunnelList!Versions /\ \A v \in posted' : v <= revision'
           /\ TunnelList!Snapshot(revision) \subseteq TunnelList!Snapshot(revision')
<1>0. revision \in 0..MaxTunnelChanges /\ MaxTunnelChanges \in Nat
  BY DEF TunnelList!TypeOK, TunnelList!Versions, TunnelList!TunnelsPageAssumption
<1>1. CASE TunnelList!Changed
  <2>1. /\ revision < MaxTunnelChanges /\ revision' = revision + 1
        /\ \E v \in {0, revision + 1} : posted' = posted \cup {v}
    BY <1>1 DEF TunnelList!Changed
  <2>2. posted \subseteq TunnelList!Versions /\ \A v \in posted : v <= revision
    BY DEF TunnelList!TypeOK, ChangesHappened
  <2>3. revision + 1 \in TunnelList!Versions /\ 0 \in TunnelList!Versions
    BY <1>0, <2>1 DEF TunnelList!Versions
  <2>4. \A v \in posted : v \in Nat BY <1>0, <2>2 DEF TunnelList!Versions
  <2>5. revision' \in TunnelList!Versions /\ revision' \in Nat /\ revision <= revision'
    BY <1>0, <2>1, <2>3
  <2>6. \A v \in posted' : v <= revision'
    <3> SUFFICES ASSUME NEW v \in posted' PROVE v <= revision + 1
      BY <2>1
    <3>1. v \in posted \/ v = 0 \/ v = revision + 1 BY <2>1
    <3> QED BY <1>0, <2>2, <2>4, <3>1
  <2> QED BY <1>0, <2>1, <2>2, <2>3, <2>5, <2>6 DEF TunnelList!Snapshot
<1>2. CASE UNCHANGED TunnelList!native
  <2>1. revision' = revision /\ posted' = posted BY <1>2 DEF TunnelList!native
  <2> QED BY <1>0, <2>1 DEF TunnelList!TypeOK, ChangesHappened, TunnelList!Versions
<1> QED BY <1>1, <1>2

\* A change of the native side.
LEMMA ChangeStep ==
    ASSUME TunnelList!TunnelsPageAssumption, TunnelsInv, TunnelList!Change
    PROVE  TunnelsInv'
<1>0. TunnelList!TypeOK /\ LatestKnows /\ ChangesHappened /\ OneBatch /\ TunnelList!TunnelSpinnersStop
  BY DEF TunnelsInv
<1>1. /\ revision' \in TunnelList!Versions /\ revision \in Nat /\ revision' \in Nat
      /\ revision <= revision'
      /\ posted' \subseteq TunnelList!Versions /\ \A v \in posted' : v <= revision'
      /\ TunnelList!Snapshot(revision) \subseteq TunnelList!Snapshot(revision')
  BY <1>0, Onward DEF TunnelList!Change
<1>2. UNCHANGED <<shown, listLoading, busy, groupBusy, loads, orders, editing, owed>>
  BY DEF TunnelList!Change, TunnelList!busyFlags, TunnelList!calls
<1>3. TunnelList!TypeOK' BY <1>0, <1>1, <1>2 DEF TunnelList!TypeOK
<1>4. \A r \in TunnelList!BagToSet(loads) : r.seen \in Int
  BY <1>0 DEF TunnelList!TypeOK, TunnelList!Load, TunnelList!Versions, TunnelList!Unread
<1>5. LatestKnows' BY <1>0, <1>1, <1>2, <1>4 DEF LatestKnows, Single
<1>6. \A o \in TunnelList!BagToSet(orders) : o.change \in Nat
  BY <1>0 DEF TunnelList!TypeOK, TunnelList!Order, TunnelList!Versions
<1>7. ChangesHappened' BY <1>0, <1>1, <1>2, <1>6 DEF ChangesHappened
<1> QED
  BY <1>0, <1>2, <1>3, <1>5, <1>7 DEF TunnelsInv, OneBatch, Single,
     TunnelList!TunnelSpinnersStop,
     TunnelList!UnderWay

\* The answer to a load.
LEMMA AnswerStep ==
    ASSUME TunnelList!TunnelsPageAssumption, TunnelsInv,
           NEW r \in TunnelList!BagToSet(loads), TunnelList!Answer(r)
    PROVE  TunnelsInv'
<1>0. TunnelList!TypeOK /\ LatestKnows /\ ChangesHappened /\ OneBatch /\ TunnelList!TunnelSpinnersStop
  BY DEF TunnelsInv
<1> DEFINE new == [r EXCEPT !.seen = revision]
           rest == TunnelList!Less(loads, r)
<1>1. /\ r.seen = TunnelList!Unread /\ loads' = TunnelList!And(rest, new)
      /\ UNCHANGED <<revision, posted, shown, listLoading, busy, groupBusy, orders, editing,
                     owed>>
  BY DEF TunnelList!Answer, TunnelList!native, TunnelList!busyFlags
<1>2. r \in TunnelList!Load /\ revision \in TunnelList!Versions /\ revision \in Nat
  BY <1>0 DEF TunnelList!TypeOK, TunnelList!Versions
<1>3. /\ new \in TunnelList!Load
      /\ new.seen = revision
      /\ new.of = r.of
      /\ new.live = r.live
  BY <1>2 DEF TunnelList!Load
<1>4. /\ TunnelList!IsABag(rest)
      /\ TunnelList!BagToSet(rest) \subseteq TunnelList!BagToSet(loads)
      /\ TunnelList!BagToSet(loads) \ {r} \subseteq TunnelList!BagToSet(rest)
  BY <1>0, OneLoadLess DEF TunnelList!TypeOK
<1>5. /\ Single(rest, LiveLoads) /\ (r \in LiveLoads => TunnelList!BagToSet(rest) \cap LiveLoads = {})
      /\ Single(rest, GroupLoads) /\ (r \in GroupLoads => TunnelList!BagToSet(rest) \cap GroupLoads = {})
  BY <1>0, SingleLess DEF TunnelList!TypeOK, LatestKnows, OneBatch
<1> HIDE DEF new, rest
<1>6. TunnelList!IsABag(TunnelList!And(rest, new)) /\ TunnelList!BagToSet(TunnelList!And(rest, new)) = TunnelList!BagToSet(rest) \cup {new}
  BY <1>4, OneLoadMore
<1>7. TunnelList!IsABag(loads') /\ TunnelList!BagToSet(loads') = TunnelList!BagToSet(rest) \cup {new}
  BY <1>1, <1>6
<1>8. Single(loads', LiveLoads) /\ Single(loads', GroupLoads)
  <2>1. new \in LiveLoads => r \in LiveLoads BY <1>2, <1>3 DEF LiveLoads
  <2>2. new \in GroupLoads => r \in GroupLoads BY <1>2, <1>3 DEF GroupLoads
  <2> QED BY <1>1, <1>4, <1>5, <2>1, <2>2, SingleMore
<1>9. TunnelList!TypeOK' BY <1>0, <1>1, <1>3, <1>4, <1>7 DEF TunnelList!TypeOK
<1>10. LatestKnows'
  <2>1. \A q \in TunnelList!BagToSet(loads') : q \in TunnelList!BagToSet(loads) \/ q = new
    BY <1>4, <1>7
  <2>2. owed \subseteq TunnelList!Snapshot(revision) BY <1>0 DEF TunnelList!TypeOK
  <2> QED BY <1>0, <1>1, <1>2, <1>3, <1>8, <2>1, <2>2 DEF LatestKnows
<1>11. ChangesHappened' BY <1>0, <1>1 DEF ChangesHappened
<1>12. \A t : (\E q \in TunnelList!BagToSet(loads') : q.of = t) <=> \E q \in TunnelList!BagToSet(loads) : q.of = t
  BY <1>3, <1>4, <1>7
<1>13. OneBatch'
  <2>1. TunnelList!BagToSet(loads) \cap GroupLoads = {} => TunnelList!BagToSet(loads') \cap GroupLoads = {}
    BY <1>2, <1>3, <1>4, <1>7 DEF GroupLoads
  <2> QED BY <1>0, <1>1, <1>8, <2>1 DEF OneBatch
<1>14. TunnelList!TunnelSpinnersStop'
  <2>1. (\E q \in TunnelList!BagToSet(loads) : q.live) => \E q \in TunnelList!BagToSet(loads') : q.live
    BY <1>3, <1>4, <1>7
  <2>2. \A t : TunnelList!UnderWay(t)' <=> TunnelList!UnderWay(t)
    BY <1>1, <1>12 DEF TunnelList!UnderWay
  <2> QED BY <1>0, <1>1, <2>1, <2>2 DEF TunnelList!TunnelSpinnersStop
<1> QED BY <1>9, <1>10, <1>11, <1>13, <1>14 DEF TunnelsInv

\* A command is executed: it stays the one it is, with what it changed.
LEMMA ExecuteStep ==
    ASSUME TunnelList!TunnelsPageAssumption, TunnelsInv,
           NEW o \in TunnelList!BagToSet(orders), TunnelList!Execute(o)
    PROVE  TunnelsInv'
<1>0. TunnelList!TypeOK /\ LatestKnows /\ ChangesHappened /\ OneBatch /\ TunnelList!TunnelSpinnersStop
  BY DEF TunnelsInv
<1>1. PICK pc \in {"load", "end"}, change \in {TunnelList!Unchanged, revision + 1} :
        /\ change # TunnelList!Unchanged => pc = "load"
        /\ orders' = TunnelList!And(TunnelList!Less(orders, o), [o EXCEPT !.pc = pc, !.change = change])
        /\ IF change = TunnelList!Unchanged THEN UNCHANGED TunnelList!native ELSE TunnelList!Changed
  BY DEF TunnelList!Execute
<1>2. UNCHANGED <<shown, listLoading, busy, groupBusy, loads, editing, owed>>
  BY DEF TunnelList!Execute, TunnelList!busyFlags
<1> DEFINE new == [o EXCEPT !.pc = pc, !.change = change]
           rest == TunnelList!Less(orders, o)
<1>3. /\ revision' \in TunnelList!Versions /\ revision \in Nat /\ revision' \in Nat
      /\ revision <= revision'
      /\ posted' \subseteq TunnelList!Versions /\ \A v \in posted' : v <= revision'
      /\ TunnelList!Snapshot(revision) \subseteq TunnelList!Snapshot(revision')
  BY <1>0, <1>1, Onward
<1>4. change \in TunnelList!Versions /\ change <= revision'
  <2>1. CASE change = TunnelList!Unchanged
    BY <1>3, <2>1 DEF TunnelList!Unchanged, TunnelList!Versions,
       TunnelList!TunnelsPageAssumption
  <2>2. CASE change # TunnelList!Unchanged
    BY <1>1, <1>3, <2>2 DEF TunnelList!Changed
  <2> QED BY <2>1, <2>2
<1>5. o \in TunnelList!Order BY <1>0 DEF TunnelList!TypeOK
<1>6. new \in TunnelList!Order /\ new.pc = pc /\ new.of = o.of /\ new.change = change
  BY <1>1, <1>4, <1>5 DEF TunnelList!Order
<1>7. /\ TunnelList!IsABag(rest)
      /\ TunnelList!BagToSet(rest) \subseteq TunnelList!BagToSet(orders)
      /\ TunnelList!BagToSet(orders) \ {o} \subseteq TunnelList!BagToSet(rest)
  BY <1>0, OneLoadLess DEF TunnelList!TypeOK
<1>8. Single(rest, GroupOrders) /\ (o \in GroupOrders => TunnelList!BagToSet(rest) \cap GroupOrders = {})
  BY <1>0, SingleLess DEF TunnelList!TypeOK, OneBatch
<1>9. orders' = TunnelList!And(rest, new) BY <1>1
<1> HIDE DEF new, rest
<1>10. TunnelList!IsABag(TunnelList!And(rest, new)) /\ TunnelList!BagToSet(TunnelList!And(rest, new)) = TunnelList!BagToSet(rest) \cup {new}
  BY <1>7, OneLoadMore
<1>11. TunnelList!IsABag(orders') /\ TunnelList!BagToSet(orders') = TunnelList!BagToSet(rest) \cup {new}
  BY <1>9, <1>10
<1>12. Single(orders', GroupOrders)
  <2>1. new \in GroupOrders => o \in GroupOrders BY <1>5, <1>6 DEF GroupOrders
  <2> QED BY <1>7, <1>8, <1>9, <2>1, SingleMore
<1>13. TunnelList!TypeOK' BY <1>0, <1>2, <1>3, <1>6, <1>7, <1>11 DEF TunnelList!TypeOK
<1>14. \A r \in TunnelList!BagToSet(loads) : r.seen \in Int
  BY <1>0 DEF TunnelList!TypeOK, TunnelList!Load, TunnelList!Versions, TunnelList!Unread
<1>15. LatestKnows' BY <1>0, <1>2, <1>3, <1>14 DEF LatestKnows
<1>16. ChangesHappened'
  <2>1. \A q \in TunnelList!BagToSet(orders) : q.change \in Nat
    BY <1>0 DEF TunnelList!TypeOK, TunnelList!Order, TunnelList!Versions
  <2>2. \A q \in TunnelList!BagToSet(orders) : q.change <= revision' /\ (q.pc # "load" => q.change = TunnelList!Unchanged)
    BY <1>0, <1>3, <2>1 DEF ChangesHappened
  <2>3. new.change <= revision' /\ (new.pc # "load" => new.change = TunnelList!Unchanged)
    BY <1>1, <1>4, <1>6
  <2>4. \A d \in Dialogs : editing[d].pc = "saved" => editing[d].change \in 1..revision'
    BY <1>0, <1>3 DEF ChangesHappened
  <2> QED BY <1>2, <1>3, <1>7, <1>11, <2>2, <2>3, <2>4 DEF ChangesHappened
<1>17. \A t : (\E q \in TunnelList!BagToSet(orders') : q.of = t)
                 <=> \E q \in TunnelList!BagToSet(orders) : q.of = t
  BY <1>6, <1>7, <1>11
<1>18. OneBatch'
  <2>1. TunnelList!BagToSet(orders) \cap GroupOrders = {} => TunnelList!BagToSet(orders') \cap GroupOrders = {}
    BY <1>5, <1>6, <1>7, <1>11 DEF GroupOrders
  <2> QED BY <1>0, <1>2, <1>12, <2>1 DEF OneBatch
<1>19. \A t : TunnelList!UnderWay(t)' <=> TunnelList!UnderWay(t)
  BY <1>2, <1>17 DEF TunnelList!UnderWay
<1>20. TunnelList!TunnelSpinnersStop'
  BY <1>0, <1>2, <1>19 DEF TunnelList!TunnelSpinnersStop
<1> QED BY <1>13, <1>15, <1>16, <1>18, <1>20 DEF TunnelsInv

\* The dialogs, but for the one whose reply begins a load.
LEMMA DialogEdits ==
    ASSUME TunnelList!TunnelsPageAssumption, TunnelsInv, NEW d \in Dialogs,
           TunnelList!Save(d) \/ TunnelList!ExecuteEdit(d) \/ TunnelList!SaveFails(d)
    PROVE  TunnelsInv'
<1>0. TunnelList!TypeOK /\ LatestKnows /\ ChangesHappened /\ OneBatch /\ TunnelList!TunnelSpinnersStop
  BY DEF TunnelsInv
<1>1. UNCHANGED <<shown, listLoading, busy, groupBusy, loads, orders, owed>>
  BY DEF TunnelList!Save, TunnelList!ExecuteEdit, TunnelList!SaveFails,
     TunnelList!busyFlags
<1>2. TunnelList!Changed \/ UNCHANGED TunnelList!native
  BY DEF TunnelList!Save, TunnelList!ExecuteEdit, TunnelList!SaveFails
<1>3. /\ revision' \in TunnelList!Versions /\ revision \in Nat /\ revision' \in Nat
      /\ revision <= revision'
      /\ posted' \subseteq TunnelList!Versions /\ \A v \in posted' : v <= revision'
      /\ TunnelList!Snapshot(revision) \subseteq TunnelList!Snapshot(revision')
  BY <1>0, <1>2, Onward
<1>4. editing \in [Dialogs -> TunnelList!Edit] BY <1>0 DEF TunnelList!TypeOK
<1>5. \E e \in TunnelList!Edit :
          /\ editing' = [editing EXCEPT ![d] = e]
          /\ e.pc = "saved" => e.change \in 1..revision'
  <2>1. CASE TunnelList!Save(d)
    <3> DEFINE e == [editing[d] EXCEPT !.pc = "sent"]
    <3>1. e \in TunnelList!Edit /\ e.pc = "sent" BY <1>4 DEF TunnelList!Edit
    <3>2. editing' = [editing EXCEPT ![d] = e] BY <2>1 DEF TunnelList!Save
    <3> HIDE DEF e
    <3> QED BY <3>1, <3>2
  <2>2. CASE TunnelList!ExecuteEdit(d)
    <3> DEFINE e == [pc |-> "saved", change |-> revision + 1]
    <3>1. revision' = revision + 1 BY <2>2 DEF TunnelList!ExecuteEdit, TunnelList!Changed
    <3>2. e \in TunnelList!Edit /\ e.change = revision' BY <1>3, <3>1 DEF TunnelList!Edit
    <3>3. editing' = [editing EXCEPT ![d] = e] BY <2>2 DEF TunnelList!ExecuteEdit
    <3>4. revision' \in 1..revision' BY <1>3, <3>1
    <3> HIDE DEF e
    <3> QED BY <3>2, <3>3, <3>4
  <2>3. CASE TunnelList!SaveFails(d)
    <3>1. TunnelList!AtRest \in TunnelList!Edit /\ TunnelList!AtRest.pc = "rest"
      BY DEF TunnelList!AtRest, TunnelList!Edit, TunnelList!Versions,
         TunnelList!Unchanged, TunnelList!TunnelsPageAssumption
    <3>2. editing' = [editing EXCEPT ![d] = TunnelList!AtRest]
      BY <2>3 DEF TunnelList!SaveFails
    <3> QED BY <3>1, <3>2
  <2> QED BY <2>1, <2>2, <2>3
<1>6. editing' \in [Dialogs -> TunnelList!Edit] BY <1>4, <1>5
<1>7. \A c \in Dialogs : editing'[c].pc = "saved" => editing'[c].change \in 1..revision'
  BY <1>0, <1>3, <1>4, <1>5 DEF ChangesHappened
<1>8. TunnelList!TypeOK' BY <1>0, <1>1, <1>3, <1>6 DEF TunnelList!TypeOK
<1>9. \A r \in TunnelList!BagToSet(loads) : r.seen \in Int
  BY <1>0 DEF TunnelList!TypeOK, TunnelList!Load, TunnelList!Versions, TunnelList!Unread
<1>10. LatestKnows' BY <1>0, <1>1, <1>3, <1>9 DEF LatestKnows, Single
<1>11. \A o \in TunnelList!BagToSet(orders) : o.change \in Nat
  BY <1>0 DEF TunnelList!TypeOK, TunnelList!Order, TunnelList!Versions
<1>12. ChangesHappened' BY <1>0, <1>1, <1>3, <1>7, <1>11 DEF ChangesHappened
<1> QED
  BY <1>0, <1>1, <1>8, <1>10, <1>12 DEF TunnelsInv, OneBatch, Single,
     TunnelList!TunnelSpinnersStop,
     TunnelList!UnderWay

\* A step that begins a load, which nothing but the page's own changes goes with.
LEMMA LoadStep ==
    ASSUME TunnelList!TunnelsPageAssumption, TunnelsInv,
           TunnelList!LoadData(NoTunnel), UNCHANGED <<revision, busy, groupBusy, orders>>,
           posted' \subseteq posted, shown' \cup owed' \subseteq TunnelList!Snapshot(revision),
           editing' \in [Dialogs -> TunnelList!Edit],
           \A d \in Dialogs : editing'[d].pc = "saved" => editing'[d].change \in 1..revision
    PROVE  TunnelsInv'
<1>0. TunnelList!TypeOK /\ LatestKnows /\ ChangesHappened /\ OneBatch /\ TunnelList!TunnelSpinnersStop
  BY DEF TunnelsInv
<1>1. /\ TunnelList!IsABag(loads')
      /\ TunnelList!BagToSet(loads') \subseteq TunnelList!Load
      /\ listLoading' = TRUE
      /\ \E r \in TunnelList!BagToSet(loads') : r.live
      /\ \A r \in TunnelList!BagToSet(loads') : r.live => r.seen = TunnelList!Unread
      /\ Single(loads', LiveLoads)
      /\ \A r \in TunnelList!BagToSet(loads') : r.seen <= revision
      /\ \A t : (\E r \in TunnelList!BagToSet(loads') : r.of = t)
                   <=> t = NoTunnel \/ \E r \in TunnelList!BagToSet(loads) : r.of = t
      /\ NoTunnel # AllTunnels => Single(loads', GroupLoads)
  BY NewLoads
<1>2. NoTunnel # AllTunnels BY DEF TunnelList!TunnelsPageAssumption
<1>3. TunnelList!TypeOK' BY <1>0, <1>1 DEF TunnelList!TypeOK
<1>4. LatestKnows'
  <2>1. LiveLoads' = LiveLoads
    BY DEF LiveLoads, TunnelList!Load, TunnelList!Versions, TunnelList!Unread
  <2> QED BY <1>1, <2>1 DEF LatestKnows
<1>5. ChangesHappened' BY <1>0 DEF ChangesHappened
<1>6. TunnelList!BagToSet(loads) \cap GroupLoads = {} => TunnelList!BagToSet(loads') \cap GroupLoads = {}
  <2> SUFFICES ASSUME TunnelList!BagToSet(loads) \cap GroupLoads = {},
                      NEW r \in TunnelList!BagToSet(loads') \cap GroupLoads
               PROVE  FALSE
    OBVIOUS
  <2>1. r.of = AllTunnels BY DEF GroupLoads
  <2>2. PICK q \in TunnelList!BagToSet(loads) : q.of = AllTunnels BY <1>1, <1>2, <2>1
  <2> QED BY <1>0, <2>2 DEF GroupLoads, TunnelList!TypeOK
<1>7. OneBatch' BY <1>0, <1>1, <1>2, <1>6 DEF OneBatch
<1>8. \A t : t # NoTunnel => (TunnelList!UnderWay(t)' <=> TunnelList!UnderWay(t))
  BY <1>1 DEF TunnelList!UnderWay
<1>9. TunnelList!TunnelSpinnersStop'
  BY <1>0, <1>1, <1>2, <1>8 DEF TunnelList!TunnelSpinnersStop
<1> QED BY <1>3, <1>4, <1>5, <1>7, <1>9 DEF TunnelsInv

\* A dialog that has saved reads the list anew.
LEMMA SavedStep ==
    ASSUME TunnelList!TunnelsPageAssumption, TunnelsInv, NEW d \in Dialogs,
           TunnelList!Saved(d)
    PROVE  TunnelsInv'
<1>0. TunnelList!TypeOK /\ ChangesHappened BY DEF TunnelsInv
<1>1. /\ editing[d].pc = "saved" /\ editing' = [editing EXCEPT ![d] = TunnelList!AtRest]
      /\ shown' = shown \cup {editing[d].change} /\ owed' = owed \cup {editing[d].change}
      /\ TunnelList!LoadData(NoTunnel)
      /\ UNCHANGED <<revision, posted, busy, groupBusy, orders>>
  BY DEF TunnelList!Saved, TunnelList!native, TunnelList!busyFlags
<1>2. editing[d].change \in TunnelList!Snapshot(revision)
  BY <1>0, <1>1 DEF ChangesHappened, TunnelList!Snapshot
<1>3. TunnelList!AtRest \in TunnelList!Edit /\ TunnelList!AtRest.pc = "rest"
  BY DEF TunnelList!AtRest, TunnelList!Edit, TunnelList!Versions, TunnelList!Unchanged,
     TunnelList!TunnelsPageAssumption
<1>4. editing' \in [Dialogs -> TunnelList!Edit] BY <1>0, <1>1, <1>3 DEF TunnelList!TypeOK
<1>5. \A c \in Dialogs : editing'[c].pc = "saved" => editing'[c].change \in 1..revision
  BY <1>0, <1>1, <1>3 DEF TunnelList!TypeOK, ChangesHappened
<1>6. shown' \cup owed' \subseteq TunnelList!Snapshot(revision)
  BY <1>0, <1>1, <1>2 DEF TunnelList!TypeOK
<1> QED BY <1>1, <1>4, <1>5, <1>6, LoadStep

\* The listener of the broadcasts.
LEMMA BroadcastStep ==
    ASSUME TunnelList!TunnelsPageAssumption, TunnelsInv, NEW v \in posted,
           TunnelList!PassOver(v) \/ TunnelList!Broadcast(v)
    PROVE  TunnelsInv'
<1>0. TunnelList!TypeOK /\ LatestKnows /\ ChangesHappened /\ OneBatch /\ TunnelList!TunnelSpinnersStop
  BY DEF TunnelsInv
<1>1. /\ posted' = posted \ {v}
      /\ UNCHANGED <<revision, busy, groupBusy, orders, editing, owed>>
  BY DEF TunnelList!PassOver, TunnelList!Broadcast, TunnelList!busyFlags, TunnelList!calls
<1>2. CASE TunnelList!LoadData(NoTunnel) /\ UNCHANGED shown
  <2>1. /\ posted' \subseteq posted
        /\ shown' \cup owed' \subseteq TunnelList!Snapshot(revision)
        /\ editing' \in [Dialogs -> TunnelList!Edit]
        /\ \A d \in Dialogs : editing'[d].pc = "saved" => editing'[d].change \in 1..revision
    BY <1>0, <1>1, <1>2 DEF TunnelList!TypeOK, ChangesHappened
  <2> QED BY <1>1, <1>2, <2>1, LoadStep
<1>3. CASE /\ UNCHANGED loads
           /\ \/ UNCHANGED <<shown, listLoading>>
              \/ shown' = TunnelList!Snapshot(v) /\ listLoading' = FALSE
  <2>1. TunnelList!Snapshot(v) \subseteq TunnelList!Snapshot(revision)
    BY <1>0 DEF TunnelList!TypeOK, ChangesHappened, TunnelList!Versions,
       TunnelList!Snapshot, TunnelList!TunnelsPageAssumption
  <2>2. TunnelList!TypeOK' BY <1>0, <1>1, <1>3, <2>1 DEF TunnelList!TypeOK
  <2>3. ChangesHappened' BY <1>0, <1>1 DEF ChangesHappened
  <2> QED
    BY <1>0, <1>1, <1>3, <2>2, <2>3 DEF TunnelsInv, LatestKnows, OneBatch, Single,
       TunnelList!TunnelSpinnersStop, TunnelList!UnderWay
<1> QED BY <1>2, <1>3 DEF TunnelList!PassOver, TunnelList!Broadcast, TunnelList!calls

\* The commands of a card and of a group.
LEMMA CommandStep ==
    ASSUME TunnelList!TunnelsPageAssumption, TunnelsInv,
           NEW of \in Tunnels \cup {AllTunnels},
           of \in Tunnels => TunnelList!Command(of), of = AllTunnels => TunnelList!Batch
    PROVE  TunnelsInv'
<1>0. TunnelList!TypeOK /\ LatestKnows /\ ChangesHappened /\ OneBatch /\ TunnelList!TunnelSpinnersStop
  BY DEF TunnelsInv
<1> DEFINE new == TunnelList!NewOrder(of)
<1>1. AllTunnels \notin Tunnels /\ NoTunnel \notin Tunnels /\ AllTunnels # NoTunnel
  BY DEF TunnelList!TunnelsPageAssumption
<1>2. /\ ~groupBusy /\ orders' = TunnelList!And(orders, new)
      /\ \/ of \in Tunnels /\ busy' = of /\ groupBusy' = groupBusy
         \/ of = AllTunnels /\ busy' = busy /\ groupBusy' = TRUE
      /\ UNCHANGED <<revision, posted, shown, listLoading, loads, editing, owed>>
  BY <1>1 DEF TunnelList!Command, TunnelList!Batch, TunnelList!native
<1>3. new \in TunnelList!Order /\ new.of = of /\ new.pc = "sent" /\ new.change = TunnelList!Unchanged
  BY DEF TunnelList!NewOrder, TunnelList!Order, TunnelList!Unchanged,
     TunnelList!Versions, TunnelList!TunnelsPageAssumption
<1> HIDE DEF new
<1>4. TunnelList!IsABag(orders) /\ TunnelList!BagToSet(orders) \subseteq TunnelList!Order
  BY <1>0 DEF TunnelList!TypeOK
<1>5. TunnelList!IsABag(TunnelList!And(orders, new)) /\ TunnelList!BagToSet(TunnelList!And(orders, new)) = TunnelList!BagToSet(orders) \cup {new}
  BY <1>4, OneLoadMore
<1>6. TunnelList!IsABag(orders') /\ TunnelList!BagToSet(orders') = TunnelList!BagToSet(orders) \cup {new}
  BY <1>2, <1>5
<1>7. ~TunnelList!UnderWay(AllTunnels) BY <1>0, <1>2 DEF TunnelList!TunnelSpinnersStop
<1>8. TunnelList!BagToSet(orders) \cap GroupOrders = {} /\ TunnelList!BagToSet(loads) \cap GroupLoads = {}
  BY <1>7 DEF TunnelList!UnderWay, GroupOrders, GroupLoads
<1>9. Single(orders', GroupOrders) BY <1>0, <1>2, <1>4, <1>8, SingleMore DEF OneBatch
<1>10. TunnelList!TypeOK' BY <1>0, <1>2, <1>3, <1>6 DEF TunnelList!TypeOK
<1>11. LatestKnows' BY <1>0, <1>2 DEF LatestKnows
<1>12. TunnelList!Unchanged <= revision
  BY <1>0 DEF TunnelList!TypeOK, TunnelList!Versions, TunnelList!Unchanged,
     TunnelList!TunnelsPageAssumption
<1>13. ChangesHappened' BY <1>0, <1>2, <1>3, <1>6, <1>12 DEF ChangesHappened
<1>14. OneBatch' BY <1>0, <1>2, <1>8, <1>9 DEF OneBatch
<1>15. \A t : TunnelList!UnderWay(t)' <=> TunnelList!UnderWay(t) \/ t = of
  BY <1>2, <1>3, <1>6 DEF TunnelList!UnderWay
<1>16. TunnelList!TunnelSpinnersStop'
  BY <1>0, <1>1, <1>2, <1>15 DEF TunnelList!TunnelSpinnersStop
<1> QED BY <1>10, <1>11, <1>13, <1>14, <1>16 DEF TunnelsInv

\* The reply of a command, which is over or goes on with a load.
LEMMA ReplyStep ==
    ASSUME TunnelList!TunnelsPageAssumption, TunnelsInv,
           NEW o \in TunnelList!BagToSet(orders), TunnelList!Reply(o)
    PROVE  TunnelsInv'
<1>0. TunnelList!TypeOK /\ LatestKnows /\ ChangesHappened /\ OneBatch /\ TunnelList!TunnelSpinnersStop
  BY DEF TunnelsInv
<1>1. /\ AllTunnels \notin Tunnels /\ NoTunnel \notin Tunnels /\ AllTunnels # NoTunnel
      /\ revision \in Nat /\ o \in TunnelList!Order
  BY <1>0 DEF TunnelList!TunnelsPageAssumption, TunnelList!TypeOK, TunnelList!Versions
<1>2. o.of \in Tunnels \cup {AllTunnels} /\ o.change \in Nat
  BY <1>1 DEF TunnelList!Order, TunnelList!Versions
<1>3. /\ orders' = TunnelList!Less(orders, o)
      /\ owed' = owed \cup ({o.change} \ {TunnelList!Unchanged})
      /\ UNCHANGED <<revision, posted, shown, editing>>
  BY DEF TunnelList!Reply, TunnelList!native
<1>4. /\ TunnelList!IsABag(orders')
      /\ TunnelList!BagToSet(orders') \subseteq TunnelList!BagToSet(orders)
      /\ TunnelList!BagToSet(orders) \ {o} \subseteq TunnelList!BagToSet(orders')
      /\ Single(orders', GroupOrders)
      /\ o.of = AllTunnels => TunnelList!BagToSet(orders') \cap GroupOrders = {}
  <2>1. /\ TunnelList!IsABag(TunnelList!Less(orders, o))
        /\ TunnelList!BagToSet(TunnelList!Less(orders, o)) \subseteq TunnelList!BagToSet(orders)
        /\ TunnelList!BagToSet(orders) \ {o} \subseteq TunnelList!BagToSet(TunnelList!Less(orders, o))
    BY <1>0, OneLoadLess DEF TunnelList!TypeOK
  <2>2. /\ Single(TunnelList!Less(orders, o), GroupOrders)
        /\ o \in GroupOrders => TunnelList!BagToSet(TunnelList!Less(orders, o)) \cap GroupOrders = {}
    BY <1>0, SingleLess DEF TunnelList!TypeOK, OneBatch
  <2> QED BY <1>1, <1>3, <2>1, <2>2 DEF GroupOrders
<1>5. o.of = AllTunnels => TunnelList!BagToSet(loads) \cap GroupLoads = {}
  BY <1>0, <1>1 DEF OneBatch, GroupOrders
<1>6. owed' \subseteq TunnelList!Snapshot(revision)
  <2>1. o.change <= revision BY <1>0 DEF ChangesHappened
  <2> QED
    BY <1>0, <1>1, <1>2, <1>3, <2>1 DEF TunnelList!TypeOK, TunnelList!Snapshot,
       TunnelList!Unchanged
<1>7. ChangesHappened' BY <1>0, <1>3, <1>4 DEF ChangesHappened
<1>8. CASE o.pc = "load"
  <2>1. TunnelList!LoadData(o.of) /\ UNCHANGED <<busy, groupBusy>>
    BY <1>8 DEF TunnelList!Reply, TunnelList!busyFlags
  <2>2. /\ TunnelList!IsABag(loads')
        /\ TunnelList!BagToSet(loads') \subseteq TunnelList!Load
        /\ listLoading' = TRUE
        /\ \E r \in TunnelList!BagToSet(loads') : r.live
        /\ \A r \in TunnelList!BagToSet(loads') : r.live => r.seen = TunnelList!Unread
        /\ Single(loads', LiveLoads)
        /\ \A r \in TunnelList!BagToSet(loads') : r.seen <= revision
        /\ \A t : (\E r \in TunnelList!BagToSet(loads') : r.of = t)
                     <=> t = o.of \/ \E r \in TunnelList!BagToSet(loads) : r.of = t
        /\ (o.of # AllTunnels \/ TunnelList!BagToSet(loads) \cap GroupLoads = {}) =>
             Single(loads', GroupLoads)
    BY <1>2, <2>1, NewLoads
  <2>3. TunnelList!TypeOK' BY <1>0, <1>3, <1>4, <1>6, <2>1, <2>2 DEF TunnelList!TypeOK
  <2>4. LatestKnows'
    <3>1. LiveLoads' = LiveLoads
      BY DEF LiveLoads, TunnelList!Load, TunnelList!Versions, TunnelList!Unread
    <3> QED BY <1>3, <2>2, <3>1 DEF LatestKnows
  <2>5. OneBatch'
    <3>1. CASE o.of = AllTunnels BY <1>4, <1>5, <2>2, <3>1 DEF OneBatch
    <3>2. CASE o.of # AllTunnels
      <4>1. TunnelList!BagToSet(loads) \cap GroupLoads = {} => TunnelList!BagToSet(loads') \cap GroupLoads = {}
        <5> SUFFICES ASSUME TunnelList!BagToSet(loads) \cap GroupLoads = {},
                            NEW r \in TunnelList!BagToSet(loads') \cap GroupLoads
                     PROVE  FALSE
          OBVIOUS
        <5>1. r.of = AllTunnels BY DEF GroupLoads
        <5>2. PICK q \in TunnelList!BagToSet(loads) : q.of = AllTunnels
          BY <2>2, <3>2, <5>1
        <5> QED BY <1>0, <5>2 DEF GroupLoads, TunnelList!TypeOK
      <4> QED BY <1>0, <1>4, <2>2, <3>2, <4>1 DEF OneBatch
    <3> QED BY <3>1, <3>2
  <2>6. \A t : TunnelList!UnderWay(t)' <=> TunnelList!UnderWay(t)
    BY <1>4, <2>2 DEF TunnelList!UnderWay
  <2>7. TunnelList!TunnelSpinnersStop'
    BY <1>0, <2>1, <2>2, <2>6 DEF TunnelList!TunnelSpinnersStop
  <2> QED BY <1>7, <2>3, <2>4, <2>5, <2>7 DEF TunnelsInv
<1>9. CASE o.pc # "load"
  <2>1. TunnelList!Finally(o.of) /\ UNCHANGED <<loads, listLoading>>
    BY <1>9 DEF TunnelList!Reply
  <2>2. owed' = owed BY <1>0, <1>3, <1>9 DEF ChangesHappened
  <2>3. /\ busy' = busy \/ busy' = NoTunnel
        /\ groupBusy' = groupBusy \/ groupBusy' = FALSE
    BY <2>1 DEF TunnelList!Finally
  <2>4. TunnelList!TypeOK' BY <1>0, <1>3, <1>4, <2>1, <2>2, <2>3 DEF TunnelList!TypeOK
  <2>5. LatestKnows' BY <1>0, <1>3, <2>1, <2>2 DEF LatestKnows, Single
  <2>6. OneBatch' BY <1>0, <1>4, <2>1 DEF OneBatch
  <2>7. \A t : t # o.of => (TunnelList!UnderWay(t)' <=> TunnelList!UnderWay(t))
    BY <1>4, <2>1 DEF TunnelList!UnderWay
  <2>8. CASE o.of = AllTunnels
    <3>1. groupBusy' = FALSE /\ busy' = busy BY <2>1, <2>8 DEF TunnelList!Finally
    <3>2. ~TunnelList!UnderWay(AllTunnels)'
      BY <1>0, <1>4, <1>5, <2>1, <2>8 DEF TunnelList!UnderWay, GroupLoads, GroupOrders,
         TunnelList!TypeOK
    <3> QED
      BY <1>0, <1>1, <1>7, <2>1, <2>4, <2>5, <2>6, <2>7, <2>8, <3>1, <3>2 DEF TunnelsInv,
         TunnelList!TunnelSpinnersStop, TunnelList!TypeOK
  <2>9. CASE o.of # AllTunnels
    <3>1. busy' = NoTunnel /\ groupBusy' = groupBusy BY <2>1, <2>9 DEF TunnelList!Finally
    <3> QED
      BY <1>0, <1>7, <2>1, <2>4, <2>5, <2>6, <2>7, <2>9, <3>1 DEF TunnelsInv,
         TunnelList!TunnelSpinnersStop
  <2> QED BY <2>8, <2>9
<1> QED BY <1>8, <1>9

\* The reply of a load, and the end of the command that waited for it.
LEMMA LoadReplyStep ==
    ASSUME TunnelList!TunnelsPageAssumption, TunnelsInv,
           NEW r \in TunnelList!BagToSet(loads), NEW ok \in BOOLEAN,
           TunnelList!LoadReply(r, ok)
    PROVE  TunnelsInv'
<1>0. TunnelList!TypeOK /\ LatestKnows /\ ChangesHappened /\ OneBatch /\ TunnelList!TunnelSpinnersStop
  BY DEF TunnelsInv
<1>1. /\ AllTunnels \notin Tunnels /\ NoTunnel \notin Tunnels /\ AllTunnels # NoTunnel
      /\ revision \in Nat /\ r \in TunnelList!Load
  BY <1>0 DEF TunnelList!TunnelsPageAssumption, TunnelList!TypeOK, TunnelList!Versions
<1>2. /\ r.of \in Tunnels \cup {AllTunnels, NoTunnel} /\ r.live \in BOOLEAN
      /\ r.seen # TunnelList!Unread => r.seen \in Nat
  BY <1>1 DEF TunnelList!Load, TunnelList!Versions
<1>3. /\ r.seen # TunnelList!Unread /\ loads' = TunnelList!Less(loads, r)
      /\ \/ r.live /\ shown' = TunnelList!Snapshot(r.seen) /\ owed' = owed \cup TunnelList!Snapshot(r.seen)
         \/ UNCHANGED <<shown, owed>>
      /\ listLoading' = (listLoading /\ ~r.live)
      /\ UNCHANGED <<revision, posted, orders, editing>>
  BY <1>2 DEF TunnelList!LoadReply, TunnelList!native
<1>4. /\ TunnelList!IsABag(loads')
      /\ TunnelList!BagToSet(loads') \subseteq TunnelList!BagToSet(loads)
      /\ TunnelList!BagToSet(loads) \ {r} \subseteq TunnelList!BagToSet(loads')
      /\ Single(loads', LiveLoads) /\ Single(loads', GroupLoads)
      /\ r.live => \A q \in TunnelList!BagToSet(loads') : ~q.live
      /\ r.of = AllTunnels => TunnelList!BagToSet(loads') \cap GroupLoads = {}
  <2>1. /\ TunnelList!IsABag(TunnelList!Less(loads, r))
        /\ TunnelList!BagToSet(TunnelList!Less(loads, r)) \subseteq TunnelList!BagToSet(loads)
        /\ TunnelList!BagToSet(loads) \ {r} \subseteq TunnelList!BagToSet(TunnelList!Less(loads, r))
    BY <1>0, OneLoadLess DEF TunnelList!TypeOK
  <2>2. /\ Single(TunnelList!Less(loads, r), GroupLoads)
        /\ Single(TunnelList!Less(loads, r), LiveLoads)
        /\ r \in GroupLoads => TunnelList!BagToSet(TunnelList!Less(loads, r)) \cap GroupLoads = {}
        /\ r \in LiveLoads => TunnelList!BagToSet(TunnelList!Less(loads, r)) \cap LiveLoads = {}
    BY <1>0, SingleLess DEF TunnelList!TypeOK, OneBatch, LatestKnows
  <2>3. TunnelList!BagToSet(loads) \subseteq TunnelList!Load BY <1>0 DEF TunnelList!TypeOK
  <2> QED BY <1>1, <1>3, <2>1, <2>2, <2>3 DEF GroupLoads, LiveLoads
<1>5. shown' \cup owed' \subseteq TunnelList!Snapshot(revision)
  <2>1. r.seen <= revision BY <1>0 DEF LatestKnows
  <2>2. TunnelList!Snapshot(r.seen) \subseteq TunnelList!Snapshot(revision)
    BY <1>1, <1>2, <1>3, <2>1 DEF TunnelList!Snapshot
  <2> QED BY <1>0, <1>3, <2>2 DEF TunnelList!TypeOK
<1>6. TunnelList!Finally(r.of) \/ (r.of = NoTunnel /\ UNCHANGED <<busy, groupBusy>>)
  BY DEF TunnelList!LoadReply, TunnelList!busyFlags
<1>7. /\ busy' = busy \/ busy' = NoTunnel
      /\ groupBusy' = groupBusy \/ groupBusy' = FALSE
  BY <1>6 DEF TunnelList!Finally
<1>8. listLoading' \in BOOLEAN BY <1>0, <1>2, <1>3 DEF TunnelList!TypeOK
<1>9. TunnelList!TypeOK' BY <1>0, <1>3, <1>4, <1>5, <1>7, <1>8 DEF TunnelList!TypeOK
<1>10. LatestKnows' BY <1>0, <1>3, <1>4 DEF LatestKnows
<1>11. ChangesHappened' BY <1>0, <1>3 DEF ChangesHappened
<1>12. OneBatch' BY <1>0, <1>3, <1>4 DEF OneBatch
<1>13. \A t : t # r.of => (TunnelList!UnderWay(t)' <=> TunnelList!UnderWay(t))
  BY <1>3, <1>4 DEF TunnelList!UnderWay
<1>14. listLoading' => \E q \in TunnelList!BagToSet(loads') : q.live
  BY <1>0, <1>3, <1>4 DEF TunnelList!TunnelSpinnersStop
<1>15. CASE r.of = AllTunnels
  <2>1. groupBusy' = FALSE /\ busy' = busy BY <1>1, <1>6, <1>15 DEF TunnelList!Finally
  <2>2. TunnelList!BagToSet(orders) \cap GroupOrders = {}
    BY <1>0, <1>1, <1>15 DEF OneBatch, GroupLoads
  <2>3. ~TunnelList!UnderWay(AllTunnels)'
    BY <1>0, <1>3, <1>4, <1>15, <2>2 DEF TunnelList!UnderWay, GroupLoads, GroupOrders,
       TunnelList!TypeOK
  <2>4. TunnelList!TunnelSpinnersStop'
    BY <1>0, <1>1, <1>13, <1>14, <1>15, <2>1, <2>3 DEF TunnelList!TunnelSpinnersStop,
       TunnelList!TypeOK
  <2> QED BY <1>9, <1>10, <1>11, <1>12, <2>4 DEF TunnelsInv
<1>16. CASE r.of # AllTunnels
  <2>1. groupBusy' = groupBusy /\ (busy' = NoTunnel \/ (busy' = busy /\ r.of = NoTunnel))
    BY <1>6, <1>16 DEF TunnelList!Finally
  <2>2. TunnelList!TunnelSpinnersStop'
    BY <1>0, <1>13, <1>14, <1>16, <2>1 DEF TunnelList!TunnelSpinnersStop
  <2> QED BY <1>9, <1>10, <1>11, <1>12, <2>2 DEF TunnelsInv
<1> QED BY <1>15, <1>16

\* One step per action.
LEMMA TunnelsStep ==
    ASSUME TunnelList!TunnelsPageAssumption, TunnelsInv, [TunnelList!Next]_(TunnelList!vars)
    PROVE  TunnelsInv'
<1>1. CASE TunnelList!Change BY <1>1, ChangeStep
<1>2. CASE TunnelList!Batch
  <2>1. AllTunnels \notin Tunnels BY DEF TunnelList!TunnelsPageAssumption
  <2> QED BY <1>2, <2>1, CommandStep
<1>3. CASE \E r \in TunnelList!BagToSet(loads) : TunnelList!Answer(r) \/ \E ok \in BOOLEAN : TunnelList!LoadReply(r, ok)
  BY <1>3, AnswerStep, LoadReplyStep
<1>4. CASE \E o \in TunnelList!BagToSet(orders) : TunnelList!Execute(o) \/ TunnelList!Reply(o)
  BY <1>4, ExecuteStep, ReplyStep
<1>5. ASSUME NEW t \in Tunnels, TunnelList!Command(t) PROVE TunnelsInv'
  <2>1. t # AllTunnels BY DEF TunnelList!TunnelsPageAssumption
  <2> QED BY <1>5, <2>1, CommandStep
<1>6. CASE \E d \in Dialogs : TunnelList!Save(d) \/ TunnelList!ExecuteEdit(d) \/ TunnelList!Saved(d) \/ TunnelList!SaveFails(d)
  BY <1>6, DialogEdits, SavedStep
<1>7. CASE \E v \in posted : TunnelList!PassOver(v) \/ TunnelList!Broadcast(v)
  BY <1>7, BroadcastStep
<1>8. CASE UNCHANGED TunnelList!vars
  BY <1>8 DEF TunnelList!vars, TunnelList!native, TunnelList!busyFlags,
     TunnelList!calls, TunnelsInv, TunnelList!TypeOK, LatestKnows,
     ChangesHappened, OneBatch, Single, TunnelList!TunnelSpinnersStop, TunnelList!UnderWay
<1> QED BY <1>1, <1>2, <1>3, <1>4, <1>5, <1>6, <1>7, <1>8 DEF TunnelList!Next

\* All of it holds in every state.
THEOREM AlwaysTunnelsInv ==
    ASSUME TunnelList!TunnelsPageAssumption
    PROVE  TunnelList!Spec => []TunnelsInv
<1>1. TunnelList!Init => TunnelsInv BY TunnelsInit
<1>2. TunnelsInv /\ [TunnelList!Next]_(TunnelList!vars) => TunnelsInv' BY TunnelsStep
<1> QED BY <1>1, <1>2, PTL DEF TunnelList!Spec

\* A new load is not what taking a reply leaves: the latest load there was has become
\* like the earlier ones.
LEMMA NoReplyTaken ==
    ASSUME TunnelsInv, NEW of \in Tunnels \cup {AllTunnels, NoTunnel},
           TunnelList!LoadData(of),
           NEW r \in TunnelList!BagToSet(loads), loads' = TunnelList!Less(loads, r)
    PROVE  FALSE
<1> DEFINE new == TunnelList!NewLoad(of)
           old == TunnelList!Raised(new)
<1>1. TunnelList!IsABag(loads) /\ TunnelList!BagToSet(loads) \subseteq TunnelList!Load
  BY DEF TunnelsInv, TunnelList!TypeOK
<1>2. /\ new \in TunnelList!Load /\ new.live /\ old # new /\ old.live = FALSE
      /\ new = [old EXCEPT !.live = TRUE] /\ old \in TunnelList!Load
  <2>1. new \in TunnelList!Load /\ new.live = TRUE
    BY DEF TunnelList!NewLoad, TunnelList!Load
  <2> HIDE DEF new
  <2>2. old \in TunnelList!Load /\ old.live = FALSE BY <2>1, LoadFields
  <2>3. old = new \/ new = [old EXCEPT !.live = TRUE] BY <2>1, LoadFields
  <2> QED BY <2>1, <2>2, <2>3
<1>3. loads' = TunnelList!And(TunnelList!Outdated, new) BY DEF TunnelList!LoadData
<1>4. /\ TunnelList!IsABag(TunnelList!Outdated)
      /\ new \notin TunnelList!BagToSet(TunnelList!Outdated)
      /\ TunnelList!BagToSet(TunnelList!Outdated) = {TunnelList!Raised(q) : q \in TunnelList!BagToSet(loads)}
      /\ \A x \in TunnelList!BagToSet(TunnelList!Outdated) :
            TunnelList!Outdated[x] = TunnelList!Copies(x, loads) + TunnelList!Copies([x EXCEPT !.live = TRUE], loads)
  BY <1>1, <1>2, OutdatedLoads
<1>5. /\ TunnelList!BagToSet(TunnelList!And(TunnelList!Outdated, new)) = TunnelList!BagToSet(TunnelList!Outdated) \cup {new}
      /\ \A x \in TunnelList!BagToSet(TunnelList!Outdated) \ {new} : TunnelList!And(TunnelList!Outdated, new)[x] = TunnelList!Outdated[x]
  BY <1>4, OneLoadMore
<1>6. /\ TunnelList!BagToSet(TunnelList!Less(loads, r)) \subseteq TunnelList!BagToSet(loads)
      /\ \A x \in TunnelList!BagToSet(TunnelList!Less(loads, r)) :
            TunnelList!Less(loads, r)[x] = IF x = r THEN loads[x] - 1 ELSE loads[x]
  BY <1>1, OneLoadLess
<1>7. new \in TunnelList!BagToSet(loads) BY <1>3, <1>5, <1>6
<1>8. old \in TunnelList!BagToSet(TunnelList!Outdated) BY <1>4, <1>7
<1>9. old \in TunnelList!BagToSet(loads') /\ loads'[old] = TunnelList!Outdated[old]
  BY <1>2, <1>3, <1>5, <1>8
<1>10. TunnelList!Outdated[old] = TunnelList!Copies(old, loads) + TunnelList!Copies(new, loads)
  BY <1>2, <1>4, <1>8
<1>11. /\ old \in TunnelList!BagToSet(loads) /\ loads'[old] <= loads[old]
       /\ loads[old] \in Nat /\ loads[new] \in Nat /\ loads[new] > 0
  <2>1. old \in TunnelList!BagToSet(loads) BY <1>6, <1>9
  <2>2. loads[old] \in Nat /\ loads[new] \in Nat /\ loads[new] > 0
    BY <1>1, <1>7, <2>1 DEF TunnelList!IsABag, TunnelList!BagToSet
  <2> QED BY <1>6, <1>9, <2>1, <2>2
<1>12. TunnelList!Copies(old, loads) = loads[old] /\ TunnelList!Copies(new, loads) = loads[new]
  BY <1>7, <1>11 DEF TunnelList!Copies
<1> HIDE DEF new, old
<1> QED BY <1>9, <1>10, <1>11, <1>12

\* A load that is taken has read all that is owed.
LEMMA TakenInOrder ==
    ASSUME TunnelList!TunnelsPageAssumption, TunnelsInv,
           [TunnelList!Next]_(TunnelList!vars),
           NEW r \in TunnelList!BagToSet(loads), loads' = TunnelList!Less(loads, r)
    PROVE  shown' = shown \/ owed \subseteq shown'
<1>0. LatestKnows /\ TunnelList!TypeOK BY DEF TunnelsInv
<1>1. CASE UNCHANGED shown BY <1>1
<1>2. CASE \E q \in TunnelList!BagToSet(loads), ok \in BOOLEAN : TunnelList!LoadReply(q, ok)
  BY <1>0, <1>2 DEF TunnelList!LoadReply, LatestKnows
<1>3. CASE \E d \in Dialogs : TunnelList!Saved(d)
  BY <1>3, NoReplyTaken DEF TunnelList!Saved
<1>4. CASE \E v \in posted : TunnelList!Broadcast(v) /\ UNCHANGED loads
  <2>1. TunnelList!IsABag(loads) /\ TunnelList!Less(loads, r) = loads
    BY <1>0, <1>4 DEF TunnelList!TypeOK
  <2>2. r \in TunnelList!BagToSet(TunnelList!Less(loads, r)) => TunnelList!Less(loads, r)[r] = loads[r] - 1
    BY <2>1, OneLoadLess
  <2>3. loads[r] \in Nat BY <2>1 DEF TunnelList!IsABag, TunnelList!BagToSet
  <2> QED BY <2>1, <2>2, <2>3
<1> QED
  BY <1>1, <1>2, <1>3, <1>4 DEF TunnelList!Next, TunnelList!Change, TunnelList!Batch,
     TunnelList!Answer, TunnelList!Execute, TunnelList!Reply, TunnelList!Command,
     TunnelList!Save,
     TunnelList!ExecuteEdit, TunnelList!SaveFails, TunnelList!PassOver,
     TunnelList!Broadcast, TunnelList!vars

\* No load brings back what the list has moved on from.
LEMMA TunnelsNeverGoBack ==
    ASSUME TunnelList!TunnelsPageAssumption
    PROVE  TunnelList!Spec => TunnelList!LoadsNeverGoBack
<1>1. TunnelsInv /\ [TunnelList!Next]_(TunnelList!vars) =>
        [\A r \in TunnelList!BagToSet(loads) :
            loads' = TunnelList!Less(loads, r) => shown' = shown \/ owed \subseteq shown']_(TunnelList!vars)
  BY TakenInOrder
<1> QED BY <1>1, AlwaysTunnelsInv, PTL DEF TunnelList!Spec, TunnelList!LoadsNeverGoBack

-----------------------------------------------------------------------------
(*************************************************************************)
(* SettingsPage: a save stores the section that was saved and nothing    *)
(* else, and the drafts of the others survive it.                        *)
(*                                                                       *)
(* The argument. A job takes the drafts of its section along when it     *)
(* begins, and none that cannot be stored reaches a store (ValidJob). As *)
(* long as no two writers overlap, what a job has read of the            *)
(* configuration is what is stored when it writes all of it back         *)
(* (ReadIsStored), so that the fields of other sections are written as   *)
(* they are, in their normal form.                                       *)
(*************************************************************************)
\* The drafts a save has taken along can be stored where it is going to.
Storable(fields) == \A f \in fields : job.mine[f] # Invalid
\* So a value that is invalid goes nowhere: not from a dialog that was confirmed, and
\* not from a save of the gateway's stores that is on its way.
ValidJob ==
    /\ job.pc = "confirm" => Storable(job.section)
    /\ job.pc = "send" => job.section = Settling!Gateway
    /\ job.pc \in {"send", "reply"} =>
        IF job.section = Settling!Gateway
        THEN /\ Storable({Settings})
             /\ job.at # Settings => Storable({Days, Minutes})
        ELSE Storable(job.section)

\* As long as no two writers overlap, the configuration a writer has read is the one
\* that is stored.
ReadIsStored ==
    ~overlapped =>
        /\ job.pc = "confirm" /\ job.section \subseteq Settling!File =>
              \A f \in Settling!File : job.read[f] = stored[f]
        /\ other.pc = "read" => \A f \in Settling!File : other.read[f] = stored[f]

\* The inductive invariant.
SettingsInv == Settling!TypeOK /\ ValidJob /\ ReadIsStored

-----------------------------------------------------------------------------
\* Where a job is, and the job after it has gone on.
JobPCs == {"none", "base", "confirm", "ask", "extra", "latest", "land", "send", "reply"}
JobAt(p) == [job EXCEPT !.pc = p]
JobOfSave(section, p) ==
    [Settling!NoJob EXCEPT !.section = section, !.mine = Settling!Taken(Settling!Nowhere, section, draft), !.pc = p]
JobAtField(p, f) == [job EXCEPT !.pc = p, !.at = f]
JobAtWith(p, c) == [job EXCEPT !.pc = p, !.read = c]

\* What a section is: of the storage configuration, with a store of its own, or the
\* gateway's.
LEMMA SectionKinds ==
    ASSUME Settling!SettingsPageAssumption, NEW section \in Settling!Sections
    PROVE  /\ section \subseteq Settling!Fields /\ section # {}
           /\ \/ section \subseteq Settling!File /\ ~(section \subseteq Own) /\ section # Settling!Gateway
              \/ section \subseteq Own /\ ~(section \subseteq Settling!File) /\ section # Settling!Gateway
              \/ section = Settling!Gateway /\ ~(section \subseteq Settling!File) /\ ~(section \subseteq Own)
  BY DEF Settling!SettingsPageAssumption, Settling!Sections, Settling!Fields,
     Settling!Gateway

\* A copy after some fields have been taken from another, field by field.
LEMMA TakenFields ==
    ASSUME NEW S, NEW copy \in [Settling!Fields -> S], NEW from, NEW fields,
           \A f \in Settling!Fields : f \in fields => from[f] \in S
    PROVE  /\ Settling!Taken(copy, fields, from) \in [Settling!Fields -> S]
           /\ \A f \in Settling!Fields :
                Settling!Taken(copy, fields, from)[f] = IF f \in fields THEN from[f] ELSE copy[f]
  BY DEF Settling!Taken

\* What the page shows of a configuration is one too.
LEMMA ShownTyped ==
    ASSUME Settling!SettingsPageAssumption, NEW c \in [Settling!Fields -> Values]
    PROVE  /\ Settling!Shown(c) \in [Settling!Fields -> Values]
           /\ \A f \in Settling!Fields : Settling!Shown(c)[f] \in Settling!Drafts
           /\ \A f \in Settling!File : Settling!Shown(c)[f] = Normal[f][c[f]]
<1>1. \A f \in Settling!File : f \in Settling!Fields /\ Normal[f][c[f]] \in Values
  BY DEF Settling!SettingsPageAssumption, Settling!Fields
<1> QED BY <1>1 DEF Settling!Shown, Settling!Drafts

\* The types of the state and of the job's fields.
LEMMA SettingsFieldsTyped ==
    ASSUME SettingsInv
    PROVE  /\ stored \in [Settling!Fields -> Values]
           /\ mount \in Settling!Mount /\ mount.read \subseteq mount.due
           /\ saved \in [Settling!Fields -> Values]
           /\ draft \in [Settling!Fields -> Settling!Drafts]
           /\ job \in Settling!Job /\ other \in Settling!Other
           /\ changes \in 0..MaxChanges /\ overlapped \in BOOLEAN
           /\ job.pc \in JobPCs /\ job.section \in Settling!Sections \cup {{}}
           /\ job.mine \in [Settling!Fields -> Settling!Drafts]
           /\ job.read \in [Settling!Fields -> Values]
           /\ job.at \in Settling!Gateway
  BY DEF SettingsInv, Settling!TypeOK, Settling!Job, JobPCs, Settling!Gateway

\* What going on leaves of a job.
LEMMA JobMoves ==
    ASSUME job \in Settling!Job, NEW p \in JobPCs
    PROVE  /\ JobAt(p) \in Settling!Job
           /\ JobAt(p).pc = p
           /\ JobAt(p).section = job.section
           /\ JobAt(p).mine = job.mine
           /\ JobAt(p).read = job.read /\ JobAt(p).at = job.at
  BY DEF Settling!Job, JobAt, JobPCs

\* The same of going on to another store,
LEMMA JobMovesTo ==
    ASSUME job \in Settling!Job, NEW p \in JobPCs, NEW f \in Settling!Gateway
    PROVE  /\ JobAtField(p, f) \in Settling!Job
           /\ JobAtField(p, f).pc = p /\ JobAtField(p, f).section = job.section
           /\ JobAtField(p, f).mine = job.mine
           /\ JobAtField(p, f).read = job.read /\ JobAtField(p, f).at = f
  BY DEF Settling!Job, JobAtField, JobPCs

\* and of going on with what was read.
LEMMA JobReads ==
    ASSUME job \in Settling!Job, NEW p \in JobPCs, NEW c \in [Settling!Fields -> Values]
    PROVE  /\ JobAtWith(p, c) \in Settling!Job
           /\ JobAtWith(p, c).pc = p /\ JobAtWith(p, c).section = job.section
           /\ JobAtWith(p, c).mine = job.mine
           /\ JobAtWith(p, c).read = c /\ JobAtWith(p, c).at = job.at
  BY DEF Settling!Job, JobAtWith, JobPCs

\* No job is one too.
LEMMA NoJobTyped ==
    ASSUME Settling!SettingsPageAssumption
    PROVE  /\ Settling!NoJob \in Settling!Job
           /\ Settling!NoJob.pc = "none"
           /\ Settling!NoJob.section = {}
           /\ Settling!NoJob.at = Settings /\ Settling!NoJob.mine = Settling!Nowhere
           /\ Settling!Nowhere \in [Settling!Fields -> Values]
           /\ Settling!Nowhere \in [Settling!Fields -> Settling!Drafts]
  BY DEF Settling!SettingsPageAssumption, Settling!NoJob, Settling!Job,
     Settling!Nowhere, Settling!Drafts, Settling!Gateway

\* The invariant in the initial state.
LEMMA SettingsInit ==
    ASSUME Settling!SettingsPageAssumption, Settling!Init
    PROVE  SettingsInv
<1>1. Settling!TypeOK
  <2>1. other \in Settling!Other
    BY NoJobTyped DEF Settling!Init, Settling!Other
  <2>2. changes \in 0..MaxChanges /\ overlapped \in BOOLEAN
    <3>1. changes = 0 /\ overlapped = FALSE
      BY DEF Settling!Init
    <3>2. MaxChanges \in Nat
      BY DEF Settling!SettingsPageAssumption
    <3> QED BY <3>1, <3>2, 0 \in 0..MaxChanges
  <2>3. mount \in Settling!Mount /\ mount.read \subseteq mount.due
    BY NoJobTyped DEF Settling!Init, Settling!Mount
  <2> QED BY <2>1, <2>2, <2>3, NoJobTyped DEF Settling!Init, Settling!TypeOK
<1>2. ValidJob
  BY NoJobTyped DEF Settling!Init, ValidJob
<1>3. ReadIsStored
  BY NoJobTyped DEF Settling!Init, ReadIsStored
<1> QED BY <1>1, <1>2, <1>3 DEF SettingsInv

-----------------------------------------------------------------------------
\* A step that leaves the stores, the page and the other writer alone and moves the
\* job to where nothing has been promised.
LEMMA SettingsQuiet ==
    ASSUME Settling!SettingsPageAssumption, SettingsInv,
           UNCHANGED <<stored, mount, Settling!page, other, changes, overlapped>>,
           job' \in Settling!Job, job'.pc \notin {"confirm", "send", "reply"}
    PROVE  SettingsInv'
<1>1. Settling!TypeOK'
  BY SettingsFieldsTyped DEF Settling!TypeOK, Settling!page
<1>2. ValidJob'
  BY DEF ValidJob
<1>3. ReadIsStored'
  BY DEF ReadIsStored, SettingsInv
<1> QED BY <1>1, <1>2, <1>3 DEF SettingsInv

\* An edit touches the drafts alone.
LEMMA DraftEdits ==
    ASSUME Settling!SettingsPageAssumption, SettingsInv, NEW f \in Settling!Fields,
           NEW v \in Settling!Drafts, Settling!Edit(f, v)
    PROVE  SettingsInv'
<1> USE SettingsFieldsTyped DEF Settling!Edit
<1>1. Settling!TypeOK'
  BY DEF Settling!TypeOK, Settling!SettingsPageAssumption
<1>2. ValidJob'
  BY DEF ValidJob, SettingsInv, Storable
<1>3. ReadIsStored'
  BY DEF ReadIsStored, SettingsInv
<1> QED BY <1>1, <1>2, <1>3 DEF SettingsInv

\* The job a save begins with.
LEMMA SaveBegins ==
    ASSUME Settling!SettingsPageAssumption, SettingsInv, NEW section \in Settling!Sections,
           NEW p \in JobPCs
    PROVE  /\ JobOfSave(section, p) \in Settling!Job
           /\ JobOfSave(section, p).pc = p
           /\ JobOfSave(section, p).section = section
           /\ JobOfSave(section, p).at = Settings
           /\ \A f \in section : JobOfSave(section, p).mine[f] = draft[f]
<1> DEFINE taken == Settling!Taken(Settling!Nowhere, section, draft)
<1>1. taken \in [Settling!Fields -> Settling!Drafts] /\ \A f \in section : taken[f] = draft[f]
  <2>1. Settling!Nowhere \in [Settling!Fields -> Settling!Drafts] /\ draft \in [Settling!Fields -> Settling!Drafts] /\ section \subseteq Settling!Fields
    BY NoJobTyped, SettingsFieldsTyped, SectionKinds
  <2> QED BY <2>1 DEF Settling!Taken
<1> HIDE DEF taken
<1> DEFINE new == [Settling!NoJob EXCEPT !.section = section, !.mine = taken, !.pc = p]
<1>2. new.pc = p /\ new.section = section /\ new.at = Settings /\ new.mine = taken
  BY DEF Settling!NoJob
<1>3. new \in Settling!Job
  BY <1>1, NoJobTyped DEF Settling!NoJob, Settling!Job, JobPCs, Settling!Gateway
<1> HIDE DEF new
<1>4. \A f \in section : new.mine[f] = draft[f]
  BY <1>1, <1>2
<1>5. JobOfSave(section, p) = new
  BY DEF JobOfSave, taken, new
<1> QED BY <1>2, <1>3, <1>4, <1>5

\* A save begins with drafts that can be stored where no dialog will refuse them.
LEMMA SaveStep ==
    ASSUME Settling!SettingsPageAssumption, SettingsInv, NEW section \in Settling!Sections,
           Settling!Save(section)
    PROVE  SettingsInv'
<1> DEFINE p == CASE section \subseteq Settling!File -> "base"
                  [] section \subseteq Own -> "confirm"
                  [] OTHER -> "send"
<1>1. /\ p \in JobPCs
      /\ p = "base" \/ (p = "confirm" /\ section \subseteq Own)
           \/ (p = "send" /\ section = Settling!Gateway)
      /\ p = "confirm" => ~(section \subseteq Settling!File) /\ section # Settling!Gateway
  BY SectionKinds DEF JobPCs
<1> HIDE DEF p
<1>2. job' = JobOfSave(section, p)
  BY DEF Settling!Save, JobOfSave, p
<1>3. /\ job' \in Settling!Job
      /\ job'.pc = p
      /\ job'.section = section
      /\ job'.at = Settings
      /\ \A f \in section : job'.mine[f] = draft[f]
  BY <1>1, <1>2, SaveBegins
<1>4. UNCHANGED <<stored, mount, Settling!page, other, changes, overlapped>>
  BY DEF Settling!Save
<1>5. CASE p = "base"
  BY <1>3, <1>4, <1>5, SettingsQuiet
<1>6. CASE p = "confirm" /\ section \subseteq Own
  <2>1. \A f \in section : draft[f] # Invalid
    BY <1>6, SectionKinds DEF Settling!Save
  <2>2. Settling!TypeOK'
    BY <1>3, <1>4, SettingsFieldsTyped DEF Settling!TypeOK, Settling!page
  <2>3. ValidJob'
    BY <1>1, <1>3, <1>6, <2>1 DEF ValidJob, Storable
  <2>4. ReadIsStored'
    BY <1>1, <1>3, <1>4, <1>6 DEF ReadIsStored, SettingsInv
  <2> QED BY <2>2, <2>3, <2>4 DEF SettingsInv
<1>7. CASE p = "send" /\ section = Settling!Gateway
  <2>1. draft[Settings] # Invalid /\ Settings \in section
    BY <1>7 DEF Settling!Save, Settling!Gateway
  <2>2. Settling!TypeOK'
    BY <1>3, <1>4, SettingsFieldsTyped DEF Settling!TypeOK, Settling!page
  <2>3. ValidJob'
    BY <1>3, <1>7, <2>1 DEF ValidJob, Storable
  <2>4. ReadIsStored'
    BY <1>3, <1>4, <1>7 DEF ReadIsStored, SettingsInv
  <2> QED BY <2>2, <2>3, <2>4 DEF SettingsInv
<1> QED BY <1>1, <1>5, <1>6, <1>7

\* The configuration is read as it is stored.
LEMMA ReadBaseStep ==
    ASSUME Settling!SettingsPageAssumption, SettingsInv, Settling!ReadBase
    PROVE  SettingsInv'
<1>1. CASE \E f \in job.section : job.mine[f] = Invalid
  BY <1>1, SettingsQuiet, NoJobTyped DEF Settling!ReadBase
<1>2. CASE ~\E f \in job.section : job.mine[f] = Invalid
  <2>1. job' = JobAtWith("confirm", stored)
    BY <1>2 DEF Settling!ReadBase, JobAtWith
  <2>2. /\ job' \in Settling!Job /\ job'.pc = "confirm" /\ job'.section = job.section
        /\ job'.mine = job.mine /\ job'.read = stored
    BY <2>1, JobReads, SettingsFieldsTyped DEF JobPCs
  <2>3. UNCHANGED <<stored, mount, Settling!page, other, changes, overlapped>>
    BY DEF Settling!ReadBase
  <2>4. Settling!TypeOK'
    BY <2>2, <2>3, SettingsFieldsTyped DEF Settling!TypeOK, Settling!page
  <2>5. ValidJob'
    BY <1>2, <2>2 DEF ValidJob, Storable
  <2>6. ReadIsStored'
    BY <2>2, <2>3 DEF ReadIsStored, SettingsInv
  <2> QED BY <2>4, <2>5, <2>6 DEF SettingsInv
<1> QED BY <1>1, <1>2

\* The steps that end the job or move it on to a read.
LEMMA DeclineStep ==
    ASSUME Settling!SettingsPageAssumption, SettingsInv, Settling!Decline \/ Settling!Fails
    PROVE  SettingsInv'
  BY SettingsQuiet, NoJobTyped DEF Settling!Decline, Settling!Fails

\* The commands after a write, and a reset that is confirmed, go on to a read.
LEMMA ExtraStep ==
    ASSUME Settling!SettingsPageAssumption, SettingsInv,
           Settling!Extra \/ Settling!ConfirmReset
    PROVE  SettingsInv'
<1>1. job' = JobAt("latest")
  BY DEF Settling!Extra, Settling!ConfirmReset, JobAt
<1>2. job' \in Settling!Job /\ job'.pc = "latest"
  BY <1>1, JobMoves, SettingsFieldsTyped DEF JobPCs
<1> QED BY <1>2, SettingsQuiet DEF Settling!Extra, Settling!ConfirmReset

\* A read that nobody holds to.
LEMMA ReadLatestStep ==
    ASSUME Settling!SettingsPageAssumption, SettingsInv, Settling!ReadLatest
    PROVE  SettingsInv'
<1>1. job' = JobAtWith("land", stored)
  BY DEF Settling!ReadLatest, JobAtWith
<1>2. job' \in Settling!Job /\ job'.pc = "land"
  BY <1>1, JobReads, SettingsFieldsTyped DEF JobPCs
<1> QED BY <1>2, SettingsQuiet DEF Settling!ReadLatest

\* A reset has nothing to store.
LEMMA ResetStep ==
    ASSUME Settling!SettingsPageAssumption, SettingsInv, NEW section \in Settling!Sections,
           Settling!Reset(section)
    PROVE  SettingsInv'
<1>1. job' = [pc |-> "ask", section |-> section, mine |-> Settling!Nowhere, read |-> Settling!Nowhere,
              at |-> Settings]
  BY DEF Settling!Reset, Settling!NoJob
<1>2. job' \in Settling!Job /\ job'.pc = "ask"
  BY <1>1, NoJobTyped DEF Settling!Job, Settling!Gateway
<1> QED BY <1>2, SettingsQuiet DEF Settling!Reset

-----------------------------------------------------------------------------
\* A step that ends the job and lets the page's copies follow.
LEMMA CopiesStep ==
    ASSUME Settling!SettingsPageAssumption, SettingsInv,
           UNCHANGED <<stored, mount, other, changes, overlapped>>, job' = Settling!NoJob,
           saved' \in [Settling!Fields -> Values], draft' \in [Settling!Fields -> Settling!Drafts]
    PROVE  SettingsInv'
<1>1. Settling!TypeOK'
  BY SettingsFieldsTyped, NoJobTyped DEF Settling!TypeOK
<1>2. ValidJob'
  BY NoJobTyped DEF ValidJob
<1>3. ReadIsStored'
  BY NoJobTyped DEF ReadIsStored, SettingsInv
<1> QED BY <1>1, <1>2, <1>3 DEF SettingsInv

\* What was read anew is taken.
LEMMA SettingsLand ==
    ASSUME Settling!SettingsPageAssumption, SettingsInv, Settling!Land
    PROVE  SettingsInv'
<1> DEFINE read == Settling!Shown(job.read)
<1>1. /\ read \in [Settling!Fields -> Values]
      /\ \A f \in Settling!Fields : read[f] \in Settling!Drafts
  BY ShownTyped, SettingsFieldsTyped
<1>2. saved' = Settling!Taken(saved, Settling!File, read)
      /\ draft' = Settling!Taken(draft, job.section, read)
  BY DEF Settling!Land, Settling!SyncDraft
<1> HIDE DEF read
<1>3. Settling!Taken(saved, Settling!File, read) \in [Settling!Fields -> Values]
  BY <1>1, SettingsFieldsTyped DEF Settling!Taken
<1>4. Settling!Taken(draft, job.section, read) \in [Settling!Fields -> Settling!Drafts]
  BY <1>1, SettingsFieldsTyped DEF Settling!Taken
<1> QED BY <1>2, <1>3, <1>4, CopiesStep DEF Settling!Land

\* The loads the page was opened with touch the page's copies and themselves.
LEMMA MountKeeps ==
    ASSUME Settling!SettingsPageAssumption, SettingsInv,
           UNCHANGED <<stored, job, other, changes, overlapped>>,
           saved' \in [Settling!Fields -> Values], draft' \in [Settling!Fields -> Settling!Drafts],
           mount' \in Settling!Mount, mount'.read \subseteq mount'.due
    PROVE  SettingsInv'
<1>1. Settling!TypeOK'
  BY SettingsFieldsTyped DEF Settling!TypeOK
<1>2. ValidJob'
  BY DEF ValidJob, SettingsInv, Storable
<1>3. ReadIsStored'
  BY DEF ReadIsStored, SettingsInv
<1> QED BY <1>1, <1>2, <1>3 DEF SettingsInv

\* What a load has left, of fields that are due.
LEMMA MountLeft ==
    ASSUME Settling!SettingsPageAssumption, SettingsInv, NEW ended
    PROVE  LET left == [due |-> mount.due \ ended, read |-> mount.read \ ended,
                        value |-> Settling!Taken(mount.value, ended, Settling!Nowhere)]
           IN  left \in Settling!Mount /\ left.read \subseteq left.due
<1> DEFINE value == Settling!Taken(mount.value, ended, Settling!Nowhere)
<1>1. /\ mount.value \in [Settling!Fields -> Values]
      /\ mount.due \subseteq Settling!Fields /\ mount.read \subseteq mount.due
  BY SettingsFieldsTyped DEF Settling!Mount
<1>2. value \in [Settling!Fields -> Values]
  BY <1>1, NoJobTyped DEF Settling!Taken
<1> HIDE DEF value
<1>3. [due |-> mount.due \ ended, read |-> mount.read \ ended, value |-> value]
        \in Settling!Mount
  BY <1>1, <1>2 DEF Settling!Mount
<1> QED BY <1>1, <1>3 DEF value

\* A load reads, its reply is taken, or it fails.
LEMMA MountStep ==
    ASSUME Settling!SettingsPageAssumption, SettingsInv, NEW fields,
           Settling!MountReads(fields) \/ Settling!MountLands(fields)
             \/ Settling!MountFails(fields)
    PROVE  SettingsInv'
<1>1. CASE Settling!MountReads(fields)
  <2> DEFINE value == Settling!Taken(mount.value, fields, stored)
  <2>1. /\ mount.value \in [Settling!Fields -> Values]
        /\ mount.due \subseteq Settling!Fields /\ mount.read \subseteq mount.due
        /\ fields \subseteq mount.due
    BY <1>1, SettingsFieldsTyped DEF Settling!Mount, Settling!MountReads, Settling!Mounting
  <2>2. value \in [Settling!Fields -> Values]
    BY <2>1, SettingsFieldsTyped DEF Settling!Taken
  <2>3. mount' = [due |-> mount.due, read |-> mount.read \cup fields, value |-> value]
    BY <1>1, SettingsFieldsTyped DEF Settling!MountReads, Settling!Mount
  <2> HIDE DEF value
  <2>4. mount' \in Settling!Mount /\ mount'.read \subseteq mount'.due
    BY <2>1, <2>2, <2>3 DEF Settling!Mount
  <2> QED BY <1>1, <2>4, MountKeeps, SettingsFieldsTyped DEF Settling!MountReads, Settling!page
<1>2. CASE Settling!MountLands(fields)
  <2> DEFINE read == Settling!Shown(mount.value)
  <2>1. /\ read \in [Settling!Fields -> Values]
        /\ \A f \in Settling!Fields : read[f] \in Settling!Drafts
    BY ShownTyped, SettingsFieldsTyped DEF Settling!Mount
  <2>2. saved' = Settling!Taken(saved, fields, read) /\ draft' = Settling!Taken(draft, fields, read)
    BY <1>2 DEF Settling!MountLands
  <2> HIDE DEF read
  <2>3. saved' \in [Settling!Fields -> Values] /\ draft' \in [Settling!Fields -> Settling!Drafts]
    BY <2>1, <2>2, SettingsFieldsTyped DEF Settling!Taken
  <2>4. mount' \in Settling!Mount /\ mount'.read \subseteq mount'.due
    BY <1>2, MountLeft DEF Settling!MountLands
  <2> QED BY <1>2, <2>3, <2>4, MountKeeps DEF Settling!MountLands
<1>3. CASE Settling!MountFails(fields)
  <2>1. saved' \in [Settling!Fields -> Values] /\ draft' \in [Settling!Fields -> Settling!Drafts]
    BY <1>3, SettingsFieldsTyped, NoJobTyped
    DEF Settling!MountFails, Settling!Taken, Settling!page
  <2>2. mount' \in Settling!Mount /\ mount'.read \subseteq mount'.due
    BY <1>3, MountLeft DEF Settling!MountFails
  <2> QED BY <1>3, <2>1, <2>2, MountKeeps DEF Settling!MountFails
<1> QED BY <1>1, <1>2, <1>3

\* The reply of a store of its own.
LEMMA ReplyOwnStep ==
    ASSUME Settling!SettingsPageAssumption, SettingsInv, Settling!ReplyOwn
    PROVE  SettingsInv'
<1>1. \A f \in Settling!Fields : f \in job.section => job.mine[f] \in Values
  <2>1. job.section # Settling!Gateway
    BY DEF Settling!ReplyOwn, Settling!SettingsPageAssumption, Settling!Gateway
  <2>2. Storable(job.section)
    BY <2>1 DEF Settling!ReplyOwn, SettingsInv, ValidJob
  <2> QED BY <2>2, SettingsFieldsTyped DEF Storable, Settling!Drafts
<1>2. Settling!Taken(saved, job.section, job.mine) \in [Settling!Fields -> Values]
  BY <1>1, SettingsFieldsTyped DEF Settling!Taken
<1>3. Settling!Taken(draft, job.section, job.mine) \in [Settling!Fields -> Settling!Drafts]
  BY SettingsFieldsTyped DEF Settling!Taken
<1> QED BY <1>2, <1>3, CopiesStep, SettingsFieldsTyped DEF Settling!ReplyOwn

\* The loaders of a reset.
LEMMA ReloadStep ==
    ASSUME Settling!SettingsPageAssumption, SettingsInv, NEW fields,
    Settling!Reload(fields)
    PROVE  SettingsInv'
<1>1. Settling!Taken(saved, fields, stored) \in [Settling!Fields -> Values]
  BY SettingsFieldsTyped DEF Settling!Taken
<1>2. Settling!Taken(draft, fields, stored) \in [Settling!Fields -> Settling!Drafts]
  <2>1. \A f \in Settling!Fields : stored[f] \in Settling!Drafts
    BY SettingsFieldsTyped DEF Settling!Drafts
  <2> QED BY <2>1, SettingsFieldsTyped DEF Settling!Taken
<1> QED BY <1>1, <1>2, CopiesStep DEF Settling!Reload

\* And the defaults they fall back to.
LEMMA DefaultsStep ==
    ASSUME Settling!SettingsPageAssumption, SettingsInv, Settling!Defaults
    PROVE  SettingsInv'
<1>1. Settling!Taken(saved, job.section, Settling!Nowhere) \in [Settling!Fields -> Values]
  BY SettingsFieldsTyped, NoJobTyped DEF Settling!Taken
<1>2. Settling!Taken(draft, job.section, Settling!Nowhere) \in [Settling!Fields -> Settling!Drafts]
  BY SettingsFieldsTyped, NoJobTyped DEF Settling!Taken
<1> QED BY <1>1, <1>2, CopiesStep DEF Settling!Defaults

\* The value the gateway's save is at can be stored.
LEMMA SentIsValid ==
    ASSUME Settling!SettingsPageAssumption, SettingsInv, job.section = Settling!Gateway,
           job.pc \in {"send", "reply"}
    PROVE  /\ job.mine[job.at] \in Values /\ job.at \in Settling!Fields
           /\ job.mine[job.at] \in Settling!Drafts
<1>1. job.mine[job.at] # Invalid
  BY SettingsFieldsTyped DEF SettingsInv, ValidJob, Storable, Settling!Gateway
<1> QED BY <1>1, SettingsFieldsTyped DEF Settling!Fields, Settling!Drafts

\* A reply of the gateway goes on to the next store only with values that can be stored.
LEMMA ReplyGatewayStep ==
    ASSUME Settling!SettingsPageAssumption, SettingsInv, Settling!ReplyGateway
    PROVE  SettingsInv'
<1>1. saved' \in [Settling!Fields -> Values] /\ draft' \in [Settling!Fields -> Settling!Drafts]
  BY SentIsValid, SettingsFieldsTyped DEF Settling!ReplyGateway
<1>2. CASE job' = Settling!NoJob
  BY <1>1, <1>2, CopiesStep DEF Settling!ReplyGateway
<1>3. ASSUME NEW f \in Settling!Gateway, job' = [job EXCEPT !.pc = "send", !.at = f],
             job.mine[Days] # Invalid /\ job.mine[Minutes] # Invalid
      PROVE  SettingsInv'
  <2>1. job' = JobAtField("send", f)
    BY <1>3 DEF JobAtField
  <2>2. /\ job' \in Settling!Job /\ job'.pc = "send" /\ job'.section = job.section
        /\ job'.mine = job.mine /\ job'.at = f
    BY <2>1, JobMovesTo, SettingsFieldsTyped DEF JobPCs
  <2>3. UNCHANGED <<stored, mount, other, changes, overlapped>> /\ job.section = Settling!Gateway
    BY DEF Settling!ReplyGateway
  <2>4. Settling!TypeOK'
    BY <1>1, <2>2, <2>3, SettingsFieldsTyped DEF Settling!TypeOK
  <2>5. job.mine[Settings] # Invalid
    BY <2>3 DEF SettingsInv, ValidJob, Storable, Settling!ReplyGateway
  <2>6. ValidJob'
    BY <1>3, <2>2, <2>3, <2>5 DEF ValidJob, Storable
  <2>7. ReadIsStored'
    BY <2>2, <2>3 DEF ReadIsStored, SettingsInv
  <2> QED BY <2>4, <2>6, <2>7 DEF SettingsInv
<1>4. Days \in Settling!Gateway /\ Minutes \in Settling!Gateway
  BY DEF Settling!Gateway
<1>5. CASE job.at = Settings /\ job.mine[Days] # Invalid /\ job.mine[Minutes] # Invalid
            /\ job' = [job EXCEPT !.pc = "send", !.at = Days]
  BY <1>3, <1>4, <1>5
<1>6. CASE job.at = Days /\ job.at # Settings
            /\ job' = [job EXCEPT !.pc = "send", !.at = Minutes]
  <2>1. job.mine[Days] # Invalid /\ job.mine[Minutes] # Invalid
    BY <1>6 DEF SettingsInv, ValidJob, Storable, Settling!ReplyGateway
  <2> QED BY <1>3, <1>4, <1>6, <2>1
<1> QED BY <1>2, <1>5, <1>6 DEF Settling!ReplyGateway, Settling!SettingsPageAssumption

-----------------------------------------------------------------------------
\* What a save writes into the storage configuration.
LEMMA PayloadFields ==
    ASSUME Settling!SettingsPageAssumption, SettingsInv, NEW ok \in BOOLEAN,
           Settling!WriteFile(ok)
    PROVE  /\ stored' \in [Settling!Fields -> Values]
           /\ \A f \in Settling!Fields : stored'[f] \in
                {stored[f]} \cup (IF f \in job.section THEN {job.mine[f]} ELSE {})
                  \cup (IF f \in Settling!File /\ f \notin job.section
                        THEN {Normal[f][job.read[f]]} ELSE {})
<1> DEFINE fields == IF ok THEN Settling!File ELSE Profile
           payload == Settling!Payload(job.section)
<1>1. fields \subseteq Settling!File
  BY DEF Settling!File
<1>2. \A f \in Settling!File :
        payload[f] = IF f \in job.section THEN job.mine[f] ELSE Normal[f][job.read[f]]
  BY ShownTyped, SettingsFieldsTyped DEF Settling!Payload
<1>3. Storable(job.section) /\ Settling!File \subseteq Settling!Fields
  BY DEF SettingsInv, ValidJob, Settling!WriteFile, Settling!Fields
<1>4. \A f \in Settling!File : payload[f] \in Values
  BY <1>2, <1>3, SettingsFieldsTyped
  DEF Storable, Settling!Drafts, Settling!SettingsPageAssumption
<1>5. stored' = Settling!Taken(stored, fields, payload)
  BY DEF Settling!WriteFile, Settling!Written
<1> HIDE DEF fields, payload
<1>6. /\ stored' \in [Settling!Fields -> Values]
      /\ \A f \in Settling!Fields : stored'[f] = IF f \in fields THEN payload[f] ELSE stored[f]
  BY <1>1, <1>4, <1>5, SettingsFieldsTyped DEF Settling!Taken
<1> QED BY <1>1, <1>2, <1>6

\* Whoever has read what is stored by now overlaps.
LEMMA WriteFileStep ==
    ASSUME Settling!SettingsPageAssumption, SettingsInv, NEW ok \in BOOLEAN,
           Settling!WriteFile(ok)
    PROVE  SettingsInv'
<1>1. job' \in Settling!Job /\ job'.pc \in {"extra", "none"}
  <2>1. job' = JobAt("extra") \/ job' = Settling!NoJob
    BY DEF Settling!WriteFile, JobAt
  <2> QED BY <2>1, JobMoves, NoJobTyped, SettingsFieldsTyped DEF JobPCs
<1>2. Settling!TypeOK'
  BY <1>1, PayloadFields, SettingsFieldsTyped DEF Settling!TypeOK, Settling!WriteFile,
     Settling!page, Settling!Overlaps
<1>3. ValidJob'
  BY <1>1 DEF ValidJob
<1>4. ReadIsStored'
  BY <1>1 DEF ReadIsStored, Settling!WriteFile, Settling!Overlaps
<1> QED BY <1>2, <1>3, <1>4 DEF SettingsInv

\* What a save writes into a store of its own.
LEMMA OwnStored ==
    ASSUME Settling!SettingsPageAssumption, SettingsInv, Settling!WriteOwn
    PROVE  /\ stored' \in [Settling!Fields -> Values]
           /\ \A f \in Settling!Fields :
                stored'[f] = IF f \in job.section THEN job.mine[f] ELSE stored[f]
<1>1. \A f \in Settling!Fields : f \in job.section => job.mine[f] \in Values
  BY SettingsFieldsTyped DEF SettingsInv, ValidJob, Settling!WriteOwn, Storable,
     Settling!Drafts
<1> QED BY <1>1, SettingsFieldsTyped DEF Settling!Taken, Settling!WriteOwn

\* It is none of the storage configuration,
LEMMA WriteOwnStep ==
    ASSUME Settling!SettingsPageAssumption, SettingsInv, Settling!WriteOwn
    PROVE  SettingsInv'
<1>1. job' = JobAt("reply")
  BY DEF Settling!WriteOwn, JobAt
<1>2. /\ job' \in Settling!Job /\ job'.pc = "reply" /\ job'.section = job.section
      /\ job'.mine = job.mine
  BY <1>1, JobMoves, SettingsFieldsTyped DEF JobPCs
<1>3. Settling!TypeOK'
  BY <1>2, OwnStored, SettingsFieldsTyped DEF Settling!TypeOK, Settling!WriteOwn,
     Settling!page
<1>4. ValidJob'
  <2>1. Storable(job.section) /\ job.section # Settling!Gateway
    BY DEF SettingsInv, ValidJob, Settling!WriteOwn, Settling!SettingsPageAssumption,
       Settling!Gateway
  <2> QED BY <1>2, <2>1 DEF ValidJob, Storable
<1>5. ReadIsStored'
  <2>1. \A f \in Settling!File : f \in Settling!Fields /\ f \notin job.section
    BY DEF Settling!SettingsPageAssumption, Settling!WriteOwn, Settling!Fields
  <2>2. \A f \in Settling!File : stored'[f] = stored[f]
    BY <2>1, OwnStored
  <2> QED BY <1>2, <2>2 DEF ReadIsStored, SettingsInv, Settling!WriteOwn
<1> QED BY <1>3, <1>4, <1>5 DEF SettingsInv

\* nor is one of the gateway's stores.
LEMMA WriteGatewayStep ==
    ASSUME Settling!SettingsPageAssumption, SettingsInv, Settling!WriteGateway
    PROVE  SettingsInv'
<1>1. job' = JobAt("reply")
  BY DEF Settling!WriteGateway, JobAt
<1>2. /\ job' \in Settling!Job /\ job'.pc = "reply" /\ job'.section = job.section
      /\ job'.mine = job.mine /\ job'.at = job.at
  BY <1>1, JobMoves, SettingsFieldsTyped DEF JobPCs
<1>3. job.section = Settling!Gateway /\ job.mine[job.at] \in Values /\ job.at \in Settling!Gateway
  BY SentIsValid, SettingsFieldsTyped DEF SettingsInv, ValidJob, Settling!WriteGateway
<1>4. Settling!TypeOK'
  BY <1>2, <1>3, SettingsFieldsTyped DEF Settling!TypeOK, Settling!WriteGateway,
     Settling!page
<1>5. ValidJob'
  BY <1>2, <1>3 DEF ValidJob, Storable, SettingsInv, Settling!WriteGateway
<1>6. ReadIsStored'
  <2>1. \A f \in Settling!File : f \in Settling!Fields /\ f # job.at
    BY <1>3 DEF Settling!SettingsPageAssumption, Settling!Fields
  <2>2. \A f \in Settling!File : stored'[f] = stored[f]
    BY <2>1, SettingsFieldsTyped DEF Settling!WriteGateway
  <2> QED BY <1>2, <2>2 DEF ReadIsStored, SettingsInv, Settling!WriteGateway
<1> QED BY <1>4, <1>5, <1>6 DEF SettingsInv

\* The other writer reads what is stored,
LEMMA OtherReadsStep ==
    ASSUME Settling!SettingsPageAssumption, SettingsInv, Settling!OtherReads
    PROVE  SettingsInv'
<1>1. Settling!TypeOK'
  BY SettingsFieldsTyped DEF Settling!TypeOK, Settling!OtherReads, Settling!page,
     Settling!Other
<1>2. ValidJob'
  BY DEF ValidJob, SettingsInv, Storable, Settling!OtherReads
<1>3. ReadIsStored'
  BY DEF ReadIsStored, SettingsInv, Settling!OtherReads
<1> QED BY <1>1, <1>2, <1>3 DEF SettingsInv

\* What another writer writes into the storage configuration: what it has read, but
\* for one field.
LEMMA OtherStored ==
    ASSUME Settling!SettingsPageAssumption, SettingsInv, NEW f \in Settling!File,
           NEW v \in Values,
           Settling!OtherWrites(f, v)
    PROVE  /\ stored' \in [Settling!Fields -> Values]
           /\ \A g \in Settling!Fields \ {f} :
                stored'[g] = IF g \in Settling!File THEN other.read[g] ELSE stored[g]
<1> DEFINE written == [other.read EXCEPT ![f] = v]
<1>1. other.read \in [Settling!Fields -> Values] /\ Settling!File \subseteq Settling!Fields
  BY SettingsFieldsTyped DEF Settling!Other, Settling!Fields
<1>2. written \in [Settling!Fields -> Values] /\ \A g \in Settling!Fields \ {f} : written[g] = other.read[g]
  BY <1>1
<1>3. stored' = Settling!Taken(stored, Settling!File, written)
  BY DEF Settling!OtherWrites, Settling!Written
<1> HIDE DEF written
<1> QED BY <1>1, <1>2, <1>3, SettingsFieldsTyped DEF Settling!Taken

\* and writes without having been overtaken, or overlaps.
LEMMA OtherWritesStep ==
    ASSUME Settling!SettingsPageAssumption, SettingsInv, NEW f \in Settling!File,
           NEW v \in Values,
           Settling!OtherWrites(f, v)
    PROVE  SettingsInv'
<1>1. Settling!TypeOK'
  <2>1. other' \in Settling!Other
    BY NoJobTyped DEF Settling!OtherWrites, Settling!Other
  <2>2. changes' \in 0..MaxChanges
    BY SettingsFieldsTyped DEF Settling!OtherWrites, Settling!SettingsPageAssumption
  <2> QED
    BY <2>1, <2>2, OtherStored, SettingsFieldsTyped DEF Settling!TypeOK,
       Settling!OtherWrites, Settling!page
<1>2. ValidJob'
  BY DEF ValidJob, SettingsInv, Storable, Settling!OtherWrites
<1>3. ReadIsStored'
  <2>1. other'.pc = "none"
    BY DEF Settling!OtherWrites
  <2> QED BY <2>1 DEF ReadIsStored, Settling!OtherWrites
<1> QED BY <1>1, <1>2, <1>3 DEF SettingsInv

\* One step per action.
LEMMA SettingsStep ==
    ASSUME Settling!SettingsPageAssumption, SettingsInv, [Settling!Next]_(Settling!vars)
    PROVE  SettingsInv'
<1>1. CASE UNCHANGED Settling!vars
  <2>1. UNCHANGED <<stored, mount, saved, draft, job, other, changes, overlapped>>
    BY <1>1 DEF Settling!vars, Settling!page
  <2> QED BY <2>1 DEF SettingsInv, Settling!TypeOK, ValidJob, Storable, ReadIsStored
<1> QED
  BY <1>1, MountStep, DraftEdits, SaveStep, ResetStep, ReadBaseStep, DeclineStep, ExtraStep,
     ReadLatestStep, SettingsLand, WriteFileStep, WriteOwnStep, ReplyOwnStep,
     WriteGatewayStep, ReplyGatewayStep, DefaultsStep, ReloadStep, OtherReadsStep,
     OtherWritesStep DEF Settling!Next

\* All of it holds in every state.
THEOREM AlwaysSettingsInv ==
    ASSUME Settling!SettingsPageAssumption
    PROVE  Settling!Spec => []SettingsInv
<1>1. Settling!Init => SettingsInv
  BY SettingsInit
<1>2. SettingsInv /\ [Settling!Next]_(Settling!vars) => SettingsInv'
  BY SettingsStep
<1> QED BY <1>1, <1>2, PTL DEF Settling!Spec

-----------------------------------------------------------------------------
\* What OnlySavedIsStored and DraftsSurvive say of a step.
StoresOnlySaved ==
    ~overlapped' =>
         \/ \A f \in Settling!Fields : stored'[f] \in {stored[f]} \cup
              (IF f \in job.section THEN {job.mine[f]}
               ELSE IF f \in Settling!File THEN {Normal[f][stored[f]]} ELSE {})
         \/ /\ other' # other /\ UNCHANGED job
            /\ \E f \in Settling!File : \A g \in Settling!Fields \ {f} : stored'[g] = stored[g]
DraftsKept ==
    \A f \in Settling!Fields :
         draft[f] # saved[f] /\ draft'[f] # draft[f] =>
             \/ f \in job.section
             \/ f \in mount.due \ mount'.due
             \/ UNCHANGED <<stored, mount, saved, job, other>>

\* The steps that store something.
LEMMA StoresStep ==
    ASSUME Settling!SettingsPageAssumption, SettingsInv, Settling!Next, ~overlapped'
    PROVE  StoresOnlySaved
<1>1. CASE UNCHANGED stored
  BY <1>1 DEF StoresOnlySaved
<1>2. ASSUME NEW ok \in BOOLEAN, Settling!WriteFile(ok) PROVE StoresOnlySaved
  <2>1. \A f \in Settling!File : job.read[f] = stored[f]
    BY <1>2 DEF SettingsInv, ReadIsStored, Settling!WriteFile, Settling!Overlaps
  <2>2. \A f \in Settling!Fields : stored'[f] \in
                {stored[f]} \cup (IF f \in job.section THEN {job.mine[f]} ELSE {})
                  \cup (IF f \in Settling!File /\ f \notin job.section
                        THEN {Normal[f][job.read[f]]} ELSE {})
    BY <1>2, PayloadFields
  <2> QED BY <2>1, <2>2 DEF StoresOnlySaved
<1>3. CASE Settling!WriteOwn
  BY <1>3, OwnStored DEF StoresOnlySaved
<1>4. CASE Settling!WriteGateway
  <2>1. job.at \in job.section
    BY <1>4, SettingsFieldsTyped DEF SettingsInv, ValidJob, Settling!WriteGateway
  <2>2. stored' = [stored EXCEPT ![job.at] = job.mine[job.at]]
    BY <1>4 DEF Settling!WriteGateway
  <2> QED BY <2>1, <2>2, SettingsFieldsTyped DEF StoresOnlySaved
<1>5. ASSUME NEW f \in Settling!File, NEW v \in Values, Settling!OtherWrites(f, v)
      PROVE  StoresOnlySaved
  <2>1. \A g \in Settling!File : other.read[g] = stored[g]
    BY <1>5 DEF SettingsInv, ReadIsStored, Settling!OtherWrites
  <2>2. \A g \in Settling!Fields \ {f} : stored'[g] = stored[g]
    BY <1>5, <2>1, OtherStored
  <2>3. other'.pc = "none" /\ other.pc = "read" /\ UNCHANGED job
    BY <1>5 DEF Settling!OtherWrites
  <2>4. other' # other
    BY <2>3
  <2> QED BY <2>2, <2>3, <2>4 DEF StoresOnlySaved
<1> QED
  BY <1>1, <1>2, <1>3, <1>4, <1>5 DEF Settling!Next, Settling!Edit, Settling!Save,
     Settling!Reset, Settling!ReadBase, Settling!Decline, Settling!Fails,
     Settling!Extra, Settling!ReadLatest, Settling!Land, Settling!ReplyOwn,
     Settling!ReplyGateway, Settling!ConfirmReset, Settling!Defaults, Settling!Reload,
     Settling!OtherReads, Settling!MountReads, Settling!MountLands, Settling!MountFails

\* The steps that change a draft.
LEMMA DraftsStep ==
    ASSUME Settling!SettingsPageAssumption, SettingsInv, Settling!Next
    PROVE  DraftsKept
<1>1. CASE UNCHANGED draft
  BY <1>1 DEF DraftsKept
<1>2. ASSUME NEW f \in Settling!Fields, NEW v \in Settling!Drafts, Settling!Edit(f, v)
      PROVE  DraftsKept
  BY <1>2 DEF Settling!Edit, DraftsKept
<1>3. ASSUME NEW fields, NEW from, draft' = Settling!Taken(draft, fields, from),
             fields \subseteq job.section
      PROVE  DraftsKept
  <2>1. \A f \in Settling!Fields : f \notin fields => draft'[f] = draft[f]
    BY <1>3 DEF Settling!Taken
  <2> QED BY <1>3, <2>1 DEF DraftsKept
<1>4. CASE Settling!Land
  BY <1>3, <1>4 DEF Settling!Land, Settling!SyncDraft
<1>5. CASE Settling!ReplyOwn
  BY <1>1, <1>3, <1>5 DEF Settling!ReplyOwn
<1>6. CASE Settling!ReplyGateway
  <2>1. job.at \in job.section
    BY <1>6, SettingsFieldsTyped DEF Settling!ReplyGateway
  <2>2. draft' = [draft EXCEPT ![job.at] = job.mine[job.at]]
    BY <1>6 DEF Settling!ReplyGateway
  <2> QED BY <2>1, <2>2, SettingsFieldsTyped DEF DraftsKept
<1>7. ASSUME NEW fields \in SUBSET (Own \cup Settling!Gateway), Settling!Reload(fields)
      PROVE  DraftsKept
  BY <1>3, <1>7 DEF Settling!Reload
<1>8. CASE Settling!Defaults
  BY <1>3, <1>8 DEF Settling!Defaults
<1>9. ASSUME NEW fields, Settling!MountLands(fields) \/ Settling!MountFails(fields)
      PROVE  DraftsKept
  <2>1. /\ fields \subseteq mount.due /\ fields \cap mount'.due = {}
        /\ \A f \in Settling!Fields : f \notin fields => draft'[f] = draft[f]
    BY <1>9 DEF Settling!MountLands, Settling!MountFails, Settling!Mounting,
       Settling!Taken, Settling!page
  <2> QED BY <2>1 DEF DraftsKept
<1> QED
  BY <1>1, <1>2, <1>4, <1>5, <1>6, <1>7, <1>8, <1>9 DEF Settling!MountReads, Settling!Next, Settling!Save,
     Settling!Reset, Settling!ReadBase, Settling!Decline,
     Settling!Fails, Settling!Extra, Settling!ReadLatest, Settling!WriteFile,
     Settling!WriteOwn, Settling!WriteGateway, Settling!ConfirmReset,
     Settling!OtherReads, Settling!OtherWrites, Settling!page

\* As long as no two writers overlap nothing is stored but what was to be saved, for any
\* sections, values and failures.
THEOREM OnlyTheSectionIsStored ==
    ASSUME Settling!SettingsPageAssumption
    PROVE  Settling!Spec => Settling!OnlySavedIsStored
<1>1. SettingsInv /\ [Settling!Next]_(Settling!vars) => [StoresOnlySaved]_(Settling!vars)
  BY StoresStep DEF StoresOnlySaved
<1>2. SettingsInv /\ [Settling!Next]_(Settling!vars) => [~overlapped' =>
         \/ \A f \in Settling!Fields : stored'[f] \in {stored[f]} \cup
              (IF f \in job.section THEN {job.mine[f]}
               ELSE IF f \in Settling!File THEN {Normal[f][stored[f]]} ELSE {})
         \/ /\ other' # other /\ UNCHANGED job
            /\ \E f \in Settling!File : \A g \in Settling!Fields \ {f} : stored'[g] = stored[g]]_(Settling!vars)
  BY <1>1 DEF StoresOnlySaved
<1> QED BY <1>2, AlwaysSettingsInv, PTL DEF Settling!Spec, Settling!OnlySavedIsStored

\* Once its section has been loaded, an unsaved edit goes with a save or a reset of that
\* section only.
THEOREM UnsavedDraftsSurvive ==
    ASSUME Settling!SettingsPageAssumption
    PROVE  Settling!Spec => Settling!DraftsSurvive
<1>1. SettingsInv /\ [Settling!Next]_(Settling!vars) => [\A f \in Settling!Fields :
         draft[f] # saved[f] /\ draft'[f] # draft[f] =>
             \/ f \in job.section
             \/ f \in mount.due \ mount'.due
             \/ UNCHANGED <<stored, mount, saved, job, other>>]_(Settling!vars)
  BY DraftsStep DEF DraftsKept
<1> QED BY <1>1, AlwaysSettingsInv, PTL DEF Settling!Spec, Settling!DraftsSurvive
=============================================================================
