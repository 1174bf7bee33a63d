---------------------------- MODULE SettingsPage ----------------------------
(***************************************************************************)
(* The settings page: components/settings/settingsContainer.  Each section *)
(* has a draft and a copy of what was saved; Save and Reset work on the    *)
(* section shown.  Most sections live in one storage configuration, which  *)
(* is read and written whole, by the page and by others; some have a store *)
(* of their own; the gateway's section has three, saved one by one.        *)
(*                                                                         *)
(* A section's fields are one value, which stands for what getTabSnapshot  *)
(* does not tell apart; Invalid is a draft the page refuses.  What is read *)
(* of the storage configuration is completed by normalizeConfigForUi.      *)
(***************************************************************************)
EXTENDS Integers

CONSTANTS Profile,   \* sections of the storage configuration: shared profile
          Device,    \* and device file
          Own,       \* sections with a store of their own
          Settings, Days, Minutes,  \* the stores of the gateway's section
          Refusable, \* the sections whose input is validated
          Values, Initial, Invalid, \* Initial: what is shown before anything is read
          Normal,    \* normalizeConfigForUi, for each section of the configuration
          MaxChanges \* bound on the edits and on what other writers write

Gateway == {Settings, Days, Minutes}
File == Profile \cup Device
Fields == File \cup Own \cup Gateway
Sections == {{f} : f \in File \cup Own} \cup {Gateway}
Drafts == Values \cup {Invalid}

SettingsPageAssumption ==
    /\ Initial \in Values /\ Invalid \notin Values /\ Refusable \subseteq Fields
    /\ Settings \notin {Days, Minutes} /\ Days # Minutes
    /\ File \cap (Own \cup Gateway) = {} /\ Own \cap Gateway = {}
    /\ Normal \in [File -> [Values -> Values]] /\ MaxChanges \in Nat

VARIABLES
    stored,   \* the stores
    mount,    \* the loads the page was opened with: the fields that are due, those
              \* that have been read, and what was read
    saved, draft,  \* the page's copies
    job,      \* the save or the reset under way: loading
    other,    \* another writer of the storage configuration
    changes,  \* the edits and the writes of others so far
    overlapped  \* history: two writers of the storage configuration overlapped

page == <<saved, draft>>
vars == <<stored, mount, page, job, other, changes, overlapped>>

\* A save or a reset: where it is, its section, the drafts it started from, the
\* configuration it has read, and the field of the gateway it is at.
Job == [pc : {"none", "base", "confirm", "ask", "extra", "latest", "land",
              "send", "reply"},
        section : Sections \cup {{}}, mine : [Fields -> Drafts],
        read : [Fields -> Values], at : Gateway \cup {Days}]
Mount == [due : SUBSET Fields, read : SUBSET Fields, value : [Fields -> Values]]
Other == [pc : {"none", "read"}, read : [Fields -> Values]]

Nowhere == [f \in Fields |-> Initial]
NoJob == [pc |-> "none", section |-> {}, mine |-> Nowhere, read |-> Nowhere,
          at |-> Settings]

\* A copy after some of its fields have been taken from another.
Taken(copy, fields, from) ==
    [f \in Fields |-> IF f \in fields THEN from[f] ELSE copy[f]]

\* What the page makes of what it has read.
Shown(c) == [f \in Fields |-> IF f \in File THEN Normal[f][c[f]] ELSE c[f]]

\* The page is opened, and can be edited: its loads are under way.
Init ==
    /\ stored \in [Fields -> Values] /\ saved = Nowhere /\ draft = Nowhere
    /\ mount = [due |-> Fields, read |-> {}, value |-> Nowhere]
    /\ job = NoJob /\ other = [pc |-> "none", read |-> Nowhere]
    /\ changes = 0 /\ overlapped = FALSE

\* The loads are independent of one another, but the gateway's reads follow one
\* another.
Mounting(fields) ==
    /\ fields \in {File} \cup {{f} : f \in Own \cup Gateway} /\ fields \subseteq mount.due
    /\ Days \in fields => Settings \notin mount.due
    /\ Minutes \in fields => Days \notin mount.due

MountReads(fields) ==
    /\ Mounting(fields) /\ fields \cap mount.read = {}
    /\ mount' = [mount EXCEPT !.read = @ \cup fields, !.value = Taken(@, fields, stored)]
    /\ UNCHANGED <<stored, page, job, other, changes, overlapped>>

\* The reply of a load replaces the drafts, whatever they are.
MountLands(fields) ==
    /\ Mounting(fields) /\ fields \subseteq mount.read
    /\ saved' = Taken(saved, fields, Shown(mount.value))
    /\ draft' = Taken(draft, fields, Shown(mount.value))
    /\ mount' = [due |-> mount.due \ fields, read |-> mount.read \ fields,
                 value |-> Taken(mount.value, fields, Nowhere)]
    /\ UNCHANGED <<stored, job, other, changes, overlapped>>

\* A load that fails changes nothing, or shows the defaults of a store of its own.
MountFails(fields) ==
    /\ Mounting(fields)
    /\ LET ended == fields \cup (IF fields \cap Gateway # {} THEN Gateway ELSE {}) IN
       mount' = [due |-> mount.due \ ended, read |-> mount.read \ ended,
                 value |-> Taken(mount.value, ended, Nowhere)]
    /\ \/ UNCHANGED page
       \/ /\ fields \subseteq Own
          /\ saved' = Taken(saved, fields, Nowhere)
          /\ draft' = Taken(draft, fields, Nowhere)
    /\ UNCHANGED <<stored, job, other, changes, overlapped>>

-----------------------------------------------------------------------------
\* computeTabDirtyMap
Dirty(section) == \E f \in section : draft[f] # saved[f]

\* The user edits a field; a dialog is modal.
Edit(f, v) ==
    /\ job.pc \notin {"confirm", "ask"}
    /\ v # draft[f] /\ (v = Invalid => f \in Refusable)
    /\ changes < MaxChanges /\ changes' = changes + 1
    /\ draft' = [draft EXCEPT ![f] = v]
    /\ UNCHANGED <<stored, mount, saved, job, other, overlapped>>

\* handleSaveCurrentTab; the buttons are enabled while the section is dirty and
\* nothing is under way.
Save(section) ==
    /\ job.pc = "none" /\ Dirty(section)
    /\ section \cap Own # {} => \A f \in section : draft[f] # Invalid
    /\ Settings \in section => draft[Settings] # Invalid
    /\ job' = [NoJob EXCEPT !.section = section, !.mine = Taken(Nowhere, section, draft),
            !.pc = CASE section \subseteq File -> "base"
                     [] section \subseteq Own -> "confirm"
                     [] OTHER -> "send"]
    /\ UNCHANGED <<stored, mount, page, other, changes, overlapped>>

\* The configuration is read, before the dialog is shown.
ReadBase ==
    /\ job.pc = "base"
    /\ job' = IF \E f \in job.section : job.mine[f] = Invalid THEN NoJob
              ELSE [job EXCEPT !.pc = "confirm", !.read = stored]
    /\ UNCHANGED <<stored, mount, page, other, changes, overlapped>>

Decline ==
    /\ job.pc \in {"confirm", "ask"} /\ job' = NoJob
    /\ UNCHANGED <<stored, mount, page, other, changes, overlapped>>

\* A mistake: the drafts of the other sections are saved too.
Payload_AllDrafts(fields) ==
    [f \in File |-> IF f \in fields THEN job.mine[f]
                    ELSE IF draft[f] # Invalid THEN draft[f] ELSE Shown(job.read)[f]]

\* buildPayloadForTab: the section's fields in the configuration read before.
Payload(fields) ==
    [f \in File |-> IF f \in fields THEN job.mine[f] ELSE Shown(job.read)[f]]

\* What save_storage_config leaves of the configuration c; when it fails, the
\* shared profile may have been written.
Written(c, ok) ==
    Taken(stored, IF ok THEN File ELSE Profile, c)

\* Another writer has read the configuration and will write it.
Overlaps == overlapped' = (overlapped \/ other.pc = "read")

WriteFile(ok) ==
    /\ job.pc = "confirm" /\ job.section \subseteq File
    /\ stored' = Written(Payload(job.section), ok)
    /\ Overlaps
    /\ job' = IF ok THEN [job EXCEPT !.pc = "extra"] ELSE NoJob
    /\ UNCHANGED <<mount, page, other, changes>>

\* A read, a write that changed nothing or a command after the write fails, and
\* the save or the reset with it.
Fails ==
    /\ job.pc \in {"base", "confirm", "extra", "latest", "send"} /\ job' = NoJob
    /\ UNCHANGED <<stored, mount, page, other, changes, overlapped>>

\* The commands after the write: autostart, shortcuts, counts.
Extra ==
    /\ job.pc = "extra" /\ job' = [job EXCEPT !.pc = "latest"]
    /\ UNCHANGED <<stored, mount, page, other, changes, overlapped>>

ReadLatest ==
    /\ job.pc = "latest"
    /\ job' = [job EXCEPT !.pc = "land", !.read = stored]
    /\ UNCHANGED <<stored, mount, page, other, changes, overlapped>>

\* syncDraftWithLatestForTab
SyncDraft(section) ==
    draft' = Taken(draft, section, Shown(job.read))

\* Everything is taken as saved, the section's draft alone follows it.
Land ==
    /\ job.pc = "land"
    /\ saved' = Taken(saved, File, Shown(job.read))
    /\ SyncDraft(job.section)
    /\ job' = NoJob
    /\ UNCHANGED <<stored, mount, other, changes, overlapped>>

-----------------------------------------------------------------------------
\* A store of its own: what was sent comes back.
WriteOwn ==
    /\ job.pc = "confirm" /\ job.section \subseteq Own
    /\ stored' = Taken(stored, job.section, job.mine)
    /\ job' = [job EXCEPT !.pc = "reply"]
    /\ UNCHANGED <<mount, page, other, changes, overlapped>>

\* The reply of a section with its own store, which the cloud agent's drafts do
\* not follow.
ReplyOwn ==
    /\ job.pc = "reply" /\ job.section \subseteq Own
    /\ saved' = Taken(saved, job.section, job.mine)
    /\ \/ UNCHANGED draft
       \/ draft' = Taken(draft, job.section, job.mine)
    /\ job' = NoJob
    /\ UNCHANGED <<stored, mount, other, changes, overlapped>>

\* The gateway's stores are written one after the other, and each reply is taken
\* at once; a value that is invalid or refused ends the save there.
WriteGateway ==
    /\ job.pc = "send"
    /\ stored' = [stored EXCEPT ![job.at] = job.mine[job.at]]
    /\ job' = [job EXCEPT !.pc = "reply"]
    /\ UNCHANGED <<mount, page, other, changes, overlapped>>

ReplyGateway ==
    /\ job.pc = "reply" /\ job.section = Gateway
    /\ saved' = [saved EXCEPT ![job.at] = job.mine[job.at]]
    /\ draft' = [draft EXCEPT ![job.at] = job.mine[job.at]]
    /\ \/ /\ job.at = Settings /\ job.mine[Days] # Invalid /\ job.mine[Minutes] # Invalid
          /\ job' = [job EXCEPT !.pc = "send", !.at = Days]
       \/ /\ job.at = Settings /\ (job.mine[Days] = Invalid \/ job.mine[Minutes] = Invalid)
          /\ job' = NoJob
       \/ job.at = Days /\ job' = [job EXCEPT !.pc = "send", !.at = Minutes]
       \/ job.at = Minutes /\ job' = NoJob
    /\ UNCHANGED <<stored, mount, other, changes, overlapped>>

-----------------------------------------------------------------------------
\* handleResetCurrentTab
Reset(section) ==
    /\ job.pc = "none" /\ Dirty(section)
    /\ job' = [NoJob EXCEPT !.section = section, !.pc = "ask"]
    /\ UNCHANGED <<stored, mount, page, other, changes, overlapped>>

ConfirmReset ==
    /\ job.pc = "ask" /\ job.section \subseteq File
    /\ job' = [job EXCEPT !.pc = "latest"]
    /\ UNCHANGED <<stored, mount, page, other, changes, overlapped>>

\* The loaders of the other sections; the gateway's may fail half way, those of a
\* store of its own then show the defaults.
Reload(fields) ==
    /\ job.pc = "ask" /\ ~(job.section \subseteq File)
    /\ fields \subseteq job.section
    /\ Days \in fields => Settings \in fields
    /\ Minutes \in fields => Days \in fields
    /\ saved' = Taken(saved, fields, stored)
    /\ draft' = Taken(draft, fields, stored)
    /\ job' = NoJob
    /\ UNCHANGED <<stored, mount, other, changes, overlapped>>

Defaults ==
    /\ job.pc = "ask" /\ job.section \subseteq Own
    /\ saved' = Taken(saved, job.section, Nowhere)
    /\ draft' = Taken(draft, job.section, Nowhere)
    /\ job' = NoJob
    /\ UNCHANGED <<stored, mount, other, changes, overlapped>>

-----------------------------------------------------------------------------
\* The language switch, the version that is ignored, a synchronisation, a change
\* of the master password: the configuration is read and written whole.
OtherReads ==
    /\ other.pc = "none" /\ other' = [pc |-> "read", read |-> stored]
    /\ UNCHANGED <<stored, mount, page, job, changes, overlapped>>

OtherWrites(f, v) ==
    /\ other.pc = "read" /\ f \in File
    /\ changes < MaxChanges /\ changes' = changes + 1
    /\ stored' = Written([other.read EXCEPT ![f] = v], TRUE)
    /\ overlapped' = (overlapped \/ (job.pc = "confirm" /\ job.section \subseteq File))
    /\ other' = [pc |-> "none", read |-> Nowhere]
    /\ UNCHANGED <<mount, page, job>>

Next ==
    \/ \E fields \in {File} \cup {{f} : f \in Own \cup Gateway} :
          MountReads(fields) \/ MountLands(fields) \/ MountFails(fields)
    \/ \E f \in Fields, v \in Drafts : Edit(f, v)
    \/ \E section \in Sections : Save(section) \/ Reset(section)
    \/ ReadBase \/ Decline \/ Fails \/ Extra \/ ReadLatest \/ Land
    \/ \E ok \in BOOLEAN : WriteFile(ok)
    \/ WriteOwn \/ ReplyOwn \/ WriteGateway \/ ReplyGateway
    \/ ConfirmReset \/ Defaults
    \/ \E fields \in SUBSET (Own \cup Gateway) : Reload(fields)
    \/ OtherReads \/ \E f \in File, v \in Values : OtherWrites(f, v)

Spec == Init /\ [][Next]_vars

-----------------------------------------------------------------------------
TypeOK ==
    /\ mount \in Mount /\ mount.read \subseteq mount.due
    /\ stored \in [Fields -> Values] /\ saved \in [Fields -> Values]
    /\ draft \in [Fields -> Drafts]
    /\ job \in Job /\ other \in Other
    /\ changes \in 0..MaxChanges /\ overlapped \in BOOLEAN

\* Whoever writes the storage configuration writes all of it, but as long as no two
\* writers overlap only what was to be saved changes: the section's own values, or
\* the one field of another writer; no unsaved draft of another section is stored
\* and nothing that was saved is taken back.  A save writes the other sections as
\* normalizeConfigForUi completes what it finds of them.
OnlySavedIsStored ==
    [][~overlapped' =>
         \/ \A f \in Fields : stored'[f] \in {stored[f]} \cup
              (IF f \in job.section THEN {job.mine[f]}
               ELSE IF f \in File THEN {Normal[f][stored[f]]} ELSE {})
         \/ /\ other' # other /\ UNCHANGED job
            /\ \E f \in File : \A g \in Fields \ {f} : stored'[g] = stored[g]]_vars

\* Once what the page was opened with has been loaded, an unsaved edit of a section
\* goes only with a save or a reset of that section, or with another edit, never with
\* those of another section or with a reply.  The reply of the first load of a section
\* replaces what was edited before it.
DraftsSurvive ==
    [][\A f \in Fields :
         draft[f] # saved[f] /\ draft'[f] # draft[f] =>
             \/ f \in job.section
             \/ f \in mount.due \ mount'.due
             \/ UNCHANGED <<stored, mount, saved, job, other>>]_vars
=============================================================================
