----------------------------- MODULE ConfigStore -----------------------------
(***************************************************************************)
(* The gateway's configuration file (ai_gateway/storage.rs): an encrypted  *)
(* file that is replaced as a whole, a read cache keyed by the identity of *)
(* the file (its length and modification time), a process-wide lock that   *)
(* all writers take and no reader does, and the migration of a file of an  *)
(* earlier version by whoever reads it first.                              *)
(*                                                                         *)
(* A publication gives the file an identity it has not had before.         *)
(***************************************************************************)
EXTENDS Naturals

CONSTANTS Clients, Nobody,
          MaxPublications  \* bound on the times the file is replaced

ConfigStoreAssumption == Nobody \notin Clients /\ MaxPublications \in Nat

\* What the file says; each client has a setting of its own that it switches.
Contents == SUBSET Clients
Edited(content, c) == IF c \in content THEN content \ {c} ELSE content \cup {c}

NoFile == 0
Ids == 0..(MaxPublications + 1)

VARIABLES
    disk,       \* the file: its identity, what it says, and whether it is of an
                \* earlier version
    cached,     \* CONFIG_READ_CACHE
    writeLock,  \* who holds CONFIG_WRITE_LOCK
    calls,
    during      \* history: what the file has said during each read

vars == <<disk, cached, writeLock, calls, during>>

\* A read without the lock looks into the cache, takes the identity, reads the file
\* and keeps what it read, or finds no file; with it, a read migrates the file.
Reading == {"lookup", "stat", "read", "keep", "absent", "migrate", "rewrite", "refresh"}
Writing == {"mutate", "publish", "store"}
CallStates == [pc : {"idle", "failed", "done"} \cup Reading \cup Writing,
               id : Ids, content : Contents, legacy : BOOLEAN]
IdleCall == [pc |-> "idle", id |-> NoFile, content |-> {}, legacy |-> FALSE]
NoEntry == [id |-> NoFile, content |-> {}]

Init ==
    /\ disk \in {[id |-> NoFile, content |-> {}, legacy |-> FALSE]}
            \cup [id : {1}, content : {{}}, legacy : BOOLEAN]
    /\ cached = NoEntry /\ writeLock = Nobody
    /\ calls = [c \in Clients |-> IdleCall]
    /\ during = [c \in Clients |-> {}]

At(c, pc) == calls[c].pc = pc
Goes(c, pc) == calls' = [calls EXCEPT ![c].pc = pc]
GoesWith(c, pc, content) == calls' = [calls EXCEPT ![c].pc = pc, ![c].content = content]
Ends(c, answer) == calls' = [calls EXCEPT ![c] = [IdleCall EXCEPT !.pc = "done", !.content = answer]]
EndsRead(c, answer) == Ends(c, answer) /\ during' = [during EXCEPT ![c] = {}]
Hit(id) == id # NoFile /\ cached.id = id

\* The file is replaced, and every read under way may return either content.
Replaced(content, legacy) ==
    /\ disk.id < MaxPublications + 1
    /\ disk' = [id |-> disk.id + 1, content |-> content, legacy |-> legacy]
    /\ during' = [c \in Clients |->
            IF calls[c].pc \in Reading THEN during[c] \cup {content} ELSE during[c]]

-----------------------------------------------------------------------------
(* read_config_file_shared *)

\* Without a file the cache is dropped and the default returned.
BeginRead(c) ==
    /\ At(c, "idle")
    /\ calls' = [calls EXCEPT ![c].pc = IF disk.id = NoFile THEN "absent" ELSE "lookup",
                              ![c].id = disk.id]
    /\ during' = [during EXCEPT ![c] = {disk.content}]
    /\ UNCHANGED <<disk, cached, writeLock>>

Absent(c) ==
    /\ At(c, "absent") /\ cached' = NoEntry
    /\ EndsRead(c, {})
    /\ UNCHANGED <<disk, writeLock>>

\* cached_config: the identity that was taken before against the cache's entry.
Lookup(c) ==
    /\ At(c, "lookup")
    /\ IF Hit(calls[c].id) THEN EndsRead(c, cached.content)
                           ELSE Goes(c, "stat") /\ UNCHANGED during
    /\ UNCHANGED <<disk, cached, writeLock>>

\* The identity is taken before the file is read.
Stat(c) ==
    /\ At(c, "stat")
    /\ calls' = [calls EXCEPT ![c].pc = "read", ![c].id = disk.id]
    /\ UNCHANGED <<disk, cached, writeLock, during>>

ReadFile(c) ==
    /\ At(c, "read")
    /\ GoesWith(c, IF disk.legacy THEN "migrate" ELSE "keep", disk.content)
    /\ UNCHANGED <<disk, cached, writeLock, during>>

\* A mistake: what was read is kept under the identity the file has by now.
Keep_Late(c) ==
    /\ At(c, "keep")
    /\ cached' = [id |-> disk.id, content |-> calls[c].content]
    /\ EndsRead(c, calls[c].content)
    /\ UNCHANGED <<disk, writeLock>>

\* store_cached_config_at: what was read is kept under the identity from before.
Keep(c) ==
    /\ At(c, "keep")
    /\ cached' = [id |-> calls[c].id, content |-> calls[c].content]
    /\ EndsRead(c, calls[c].content)
    /\ UNCHANGED <<disk, writeLock>>

\* The migration takes the lock and reads the file again, which somebody else may
\* have migrated and changed by now.
Migrate(c) ==
    /\ At(c, "migrate") /\ writeLock = Nobody /\ writeLock' = c
    /\ GoesWith(c, IF disk.legacy THEN "rewrite" ELSE "refresh", disk.content)
    /\ UNCHANGED <<disk, cached, during>>

\* write_config of the migrated file.  When it fails the old file stays, and the read
\* returns what it has.
Rewrite(c) ==
    /\ At(c, "rewrite")
    /\ Replaced(calls[c].content, FALSE) /\ Goes(c, "refresh")
    /\ UNCHANGED <<cached, writeLock>>

RewriteFails(c) ==
    /\ At(c, "rewrite") /\ writeLock' = Nobody
    /\ EndsRead(c, calls[c].content)
    /\ UNCHANGED <<disk, cached>>

-----------------------------------------------------------------------------
(* modify_config *)

\* A mistake: what the modification works on is taken before the lock.
BeginModify_Unlocked(c) ==
    /\ At(c, "idle")
    /\ GoesWith(c, "mutate", IF Hit(disk.id) THEN cached.content ELSE disk.content)
    /\ UNCHANGED <<disk, cached, writeLock, during>>

\* The lock is taken, and the configuration from the cache if that has it, or else
\* from the file, migrated in memory.
BeginModify(c) ==
    /\ At(c, "idle") /\ writeLock = Nobody /\ writeLock' = c
    /\ calls' = [calls EXCEPT ![c] =
            [pc |-> "mutate", id |-> NoFile,
             content |-> IF Hit(disk.id) THEN cached.content ELSE disk.content,
             legacy |-> ~Hit(disk.id) /\ disk.legacy]]
    /\ UNCHANGED <<disk, cached, during>>

\* The closure of the caller changes the configuration, finds nothing to change or
\* refuses.  A migration counts as a change.
Change(c) ==
    /\ At(c, "mutate")
    /\ GoesWith(c, "publish", Edited(calls[c].content, c))
    /\ UNCHANGED <<disk, cached, writeLock, during>>

ChangeNothing(c) ==
    /\ At(c, "mutate")
    /\ Goes(c, IF calls[c].legacy THEN "publish" ELSE "store")
    /\ UNCHANGED <<disk, cached, writeLock, during>>

Fails(c) ==
    /\ calls' = [calls EXCEPT ![c] = [IdleCall EXCEPT !.pc = "failed"]]
    /\ writeLock' = Nobody
    /\ UNCHANGED <<disk, cached, during>>

Refuse(c) == At(c, "mutate") /\ Fails(c)

\* write_config_through_temp: the temporary file is written and renamed, or the
\* write fails and the file stays as it was.
Publish(c) ==
    /\ At(c, "publish")
    /\ Replaced(calls[c].content, FALSE) /\ Goes(c, "store")
    /\ UNCHANGED <<cached, writeLock>>

PublishFails(c) == At(c, "publish") /\ Fails(c)

\* store_cached_config, after a publication, a migration or for nothing, and the end
\* of the lock.
Store(c) ==
    /\ At(c, "store") \/ At(c, "refresh")
    /\ cached' = IF disk.id = NoFile THEN NoEntry
                 ELSE [id |-> disk.id, content |-> calls[c].content]
    /\ writeLock' = Nobody
    /\ EndsRead(c, calls[c].content)
    /\ UNCHANGED disk

-----------------------------------------------------------------------------
Return(c) ==
    /\ At(c, "done") \/ At(c, "failed")
    /\ calls' = [calls EXCEPT ![c] = IdleCall]
    /\ UNCHANGED <<disk, cached, writeLock, during>>

\* The file is replaced from outside, by one of an earlier version perhaps, while no
\* writer is at work.
Outside ==
    /\ \A c \in Clients : calls[c].pc \notin Writing \cup {"rewrite", "refresh"}
    /\ \E content \in Contents, legacy \in BOOLEAN : Replaced(content, legacy)
    /\ UNCHANGED <<cached, writeLock, calls>>

\* The application dies, and starts again with the file as it is.
Crash ==
    /\ \E c \in Clients : ~At(c, "idle")
    /\ cached' = NoEntry /\ writeLock' = Nobody
    /\ calls' = [c \in Clients |-> IdleCall]
    /\ during' = [c \in Clients |-> {}]
    /\ UNCHANGED disk

Next ==
    \/ Outside \/ Crash
    \/ \E c \in Clients :
        \/ BeginRead(c) \/ Absent(c) \/ Lookup(c) \/ Stat(c) \/ ReadFile(c) \/ Keep(c)
        \/ Migrate(c) \/ Rewrite(c) \/ RewriteFails(c)
        \/ BeginModify(c) \/ Change(c) \/ ChangeNothing(c) \/ Refuse(c)
        \/ Publish(c) \/ PublishFails(c) \/ Store(c) \/ Return(c)

Spec == Init /\ [][Next]_vars

-----------------------------------------------------------------------------
TypeOK ==
    /\ disk \in [id : Ids, content : Contents, legacy : BOOLEAN]
    /\ cached \in [id : Ids, content : Contents]
    /\ writeLock \in Clients \cup {Nobody}
    /\ calls \in [Clients -> CallStates]
    /\ during \in [Clients -> SUBSET Contents]

\* However readers that hold no lock and writers overlap, the entry of the cache that
\* matches the file says what the file says, and is never of a file that still has to
\* be migrated: such an entry would be read, and written back, until the next change.
CacheFresh ==
    Hit(disk.id) => cached.content = disk.content /\ ~disk.legacy

\* The store is the register its callers take it for: a read returns what the file
\* has said meanwhile, a modification works on what the file says, no modification is
\* lost, and one that was refused or that failed leaves no trace.
RegisterPc(c) ==
    CASE calls[c].pc \in Reading -> "reading"
      [] calls[c].pc \in {"mutate", "publish"} -> "modifying"
      [] calls[c].pc = "store" -> "done"
      [] OTHER -> calls[c].pc

RegisterCall(c) ==
    [pc |-> RegisterPc(c), may |-> during[c],
     answer |-> IF RegisterPc(c) = "done" THEN calls[c].content ELSE {}]
RegisterCalls == [c \in Clients |-> RegisterCall(c)]

Register == INSTANCE ConfigRegister WITH value <- disk.content, calls <- RegisterCalls

IsRegister == Register!Spec
=============================================================================
