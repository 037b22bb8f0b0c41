----------------------------- MODULE GitBackups -----------------------------
(* The backups of applied patches (internal/tools/git.go, patch_stack.go).  *)
(* A real apply first copies the patch to a file of its own, appends an     *)
(* entry to the stack in memory, writes the whole stack to stack.json, and  *)
(* only then runs git.  The daemon has one GitTool for all its runs and no  *)
(* lock around it, so the calls of concurrent runs interleave between any   *)
(* two reads or writes of what they share; a crash may fall there too and   *)
(* leaves what is on disk.  An id is the time in nanoseconds: two readings  *)
(* of the clock are assumed to differ, and a later one to be larger.        *)
(*                                                                          *)
(* Whether a call gets as far as that is decided by three layers, from the  *)
(* flags of the configuration: the validation of its arguments, the default *)
(* for a dry_run that is absent, and the tool's own tests.  A dry run and   *)
(* git status change nothing and are left out.                              *)
EXTENDS Integers, Sequences, SequencesExt

CONSTANTS
    Callers,    \* runs that may have a git tool call in progress
    Patches,    \* the patches explored
    None,       \* no patch
    Nil,        \* g.stack before it is loaded
    Configs,    \* the flags a daemon may be configured with
    Torn,       \* a stack.json that is no JSON: truncated, or a mixed write
    MaxBackups  \* bound: backups taken

Flags == [enabled : BOOLEAN, allowWrite : BOOLEAN, allowGit : BOOLEAN, allowFileWrite : BOOLEAN]

ASSUME BackupsBounded ==
    Configs \subseteq Flags /\ MaxBackups \in Nat /\ None \notin Patches /\ Nil # Torn

VARIABLES
    config,     \* sandbox.enabled, .allow_write, tools.allow_git, .allow_file_write
    worktree,   \* patches that are applied to the working tree
    files,      \* the patch copies in the backup directory, by backup id
    stackFile,  \* the entries in stack.json (none while it is absent), or Torn
    stack,      \* g.stack.Entries, or Nil
    clock,      \* the last backup id taken from the clock
    call,       \* the call in progress of each caller
    raced       \* history: a call of this daemon began during another one

shared == <<worktree, files, stackFile, stack, clock, raced>>
backupVars == <<config, shared, call>>

Ids == 1..MaxBackups

(* An entry of the stack; the first has no parent, 0.                       *)
Entries == [id : Ids, parent : 0..MaxBackups]

ASSUME EntriesAreNoMarks == Nil \notin Seq(Entries) /\ Torn \notin Seq(Entries)

Calls == [at : {"idle", "stack", "load", "begun", "parent", "copy", "append", "appended",
                "save", "open", "saving", "git", "reverse"},
          kind : {"apply", "restore", "list"}, patch : Patches \cup {None},
          id : 0..MaxBackups, parent : 0..MaxBackups, seen : Seq(Entries)]

Idle == [at |-> "idle", kind |-> "list", patch |-> None, id |-> 0, parent |-> 0, seen |-> <<>>]

BackupTypeOK ==
    /\ config \in Configs
    /\ worktree \subseteq Patches
    /\ files \in [Ids -> Patches \cup {None}]
    /\ stackFile = Torn \/ stackFile \in Seq(Entries)
    /\ stack = Nil \/ stack \in Seq(Entries)
    /\ clock \in 0..MaxBackups
    /\ raced \in BOOLEAN
    /\ call \in [Callers -> Calls]

BackupInit ==
    /\ config \in Configs
    /\ worktree = {}
    /\ files = [i \in Ids |-> None]
    /\ stackFile = <<>>
    /\ stack = Nil
    /\ clock = 0
    /\ call = [c \in Callers |-> Idle]
    /\ raced = FALSE

-----------------------------------------------------------------------------
At(c, place) == call[c].at = place

Move(c, place) == call' = [call EXCEPT ![c].at = place]

(* The call returns, with a result or with an error.                        *)
ReturnCall(c) == call' = [call EXCEPT ![c] = Idle]

(* Mutant: the first entry.                                                 *)
Oldest(entries) == IF entries = <<>> THEN 0 ELSE Head(entries).id

Latest(entries) == IF entries = <<>> THEN 0 ELSE Last(entries).id

(* NewServer derives the flags of the tool, and NewSandbox those of the     *)
(* file tool, from the configuration.  Mutant: the file flag is forgotten.  *)
AllowExec == config.enabled /\ config.allowGit

SandboxedOnly == ~config.allowWrite

DryRunOnly == ~config.allowWrite \/ ~config.allowFileWrite

(* ValidateCall, over a call's kind and its dry_run argument.               *)
Valid(kind, dry) == AllowExec /\ (kind = "apply" /\ DryRunOnly => dry = "true")

(* executeTool: whether an apply is to be dry.                              *)
IsDry(dry) == dry = "true" \/ (dry = "absent" /\ DryRunOnly)

(* The tests of ApplyPatch and RestoreBackup.                               *)
MayRun(kind, dry) ==
    /\ AllowExec
    /\ kind = "apply" /\ DryRunOnly => IsDry(dry)
    /\ kind = "restore" => ~DryRunOnly

(* A call that reaches the stack.                                           *)
BeginCall(c, kind, patch) ==
    /\ At(c, "idle")
    /\ call' = [call EXCEPT ![c] = [Idle EXCEPT !.at = "stack", !.kind = kind, !.patch = patch]]
    /\ raced' = (raced \/ \E d \in Callers : ~At(d, "idle"))
    /\ UNCHANGED <<config, worktree, files, stackFile, stack, clock>>

Apply(c) ==
    \E p \in Patches, dry \in {"absent", "true", "false"} :
      /\ Valid("apply", dry) /\ MayRun("apply", dry)
      /\ ~IsDry(dry)
      /\ BeginCall(c, "apply", p)

RestoreOrList(c) ==
    \E kind \in {"restore", "list"} :
      /\ Valid(kind, "absent") /\ MayRun(kind, "absent")
      /\ BeginCall(c, kind, None)

(* loadOrInitStack, and its copy in createBackup: the test of g.stack, the  *)
(* read of the file and the assignment are three moments.                   *)
StackLoaded(c) ==
    /\ At(c, "stack")
    /\ stack # Nil
    /\ Move(c, "begun")
    /\ UNCHANGED <<config, shared>>

(* Mutants: a file that is no JSON is an empty stack; it is not looked at.  *)
LoadFresh(c) ==
    /\ At(c, "stack")
    /\ stack = Nil
    /\ call' = [call EXCEPT ![c].at = "load",
                            ![c].seen = IF stackFile = Torn THEN <<>> ELSE stackFile]
    /\ UNCHANGED <<config, shared>>

InstallUnread(c) ==
    /\ At(c, "stack")
    /\ stack = Nil
    /\ stack' = stackFile
    /\ Move(c, "begun")
    /\ UNCHANGED <<config, worktree, files, stackFile, clock, raced>>

LoadStack(c) ==
    /\ At(c, "stack")
    /\ stack = Nil
    /\ \/ /\ stackFile # Torn
          /\ call' = [call EXCEPT ![c].at = "load", ![c].seen = stackFile]
       \/ ReturnCall(c)
    /\ UNCHANGED <<config, shared>>

InstallStack(c) ==
    /\ At(c, "load")
    /\ stack' = call[c].seen
    /\ Move(c, "begun")
    /\ UNCHANGED <<config, worktree, files, stackFile, clock, raced>>

ListBackups(c) ==
    /\ At(c, "begun") /\ call[c].kind = "list"
    /\ ReturnCall(c)
    /\ UNCHANGED <<config, shared>>

-----------------------------------------------------------------------------
(* createBackup: the parent is the latest entry, the id is the time, and    *)
(* the patch is copied to the file of that id; then the entry is appended,  *)
(* a read and a write of g.stack.Entries.                                   *)
ReadParent(c) ==
    /\ At(c, "begun") /\ call[c].kind = "apply"
    /\ call' = [call EXCEPT ![c].at = "parent", ![c].parent = Latest(stack)]
    /\ UNCHANGED <<config, shared>>

TakeId(c) ==
    /\ At(c, "parent")
    /\ clock < MaxBackups
    /\ clock' = clock + 1
    /\ call' = [call EXCEPT ![c].at = "copy", ![c].id = clock']
    /\ UNCHANGED <<config, worktree, files, stackFile, stack, raced>>

WithCopy(c) == [files EXCEPT ![call[c].id] = call[c].patch]

(* Mutant: the error of the copy is ignored.                                *)
WriteUnchecked(c) ==
    /\ At(c, "copy")
    /\ files' \in {files, WithCopy(c)}
    /\ Move(c, "append")
    /\ UNCHANGED <<config, worktree, stackFile, stack, clock, raced>>

WriteBackup(c) ==
    /\ At(c, "copy")
    /\ \/ files' = WithCopy(c) /\ Move(c, "append")
       \/ ReturnCall(c) /\ UNCHANGED files
    /\ UNCHANGED <<config, worktree, stackFile, stack, clock, raced>>

NewEntry(c) == [id |-> call[c].id, parent |-> call[c].parent]

(* The stack with the new entry on top.                                     *)
Push(c) == Append(stack, NewEntry(c))

ReadEntries(c) ==
    /\ At(c, "append")
    /\ call' = [call EXCEPT ![c].at = "appended", ![c].seen = Push(c)]
    /\ UNCHANGED <<config, shared>>

StoreEntries(c) ==
    /\ At(c, "appended")
    /\ stack' = call[c].seen
    /\ Move(c, "save")
    /\ UNCHANGED <<config, worktree, files, stackFile, clock, raced>>

(* save: the stack is marshalled, the file truncated, then written in one   *)
(* write.  An error of any of them ends the call; the entry stays in        *)
(* memory.  A write over a longer stack that came between leaves the end of *)
(* that one behind.                                                         *)
MarshalStack(c) ==
    /\ At(c, "save")
    /\ \/ call' = [call EXCEPT ![c].at = "open", ![c].seen = stack]
       \/ ReturnCall(c)
    /\ UNCHANGED <<config, shared>>

(* Mutant: an error of the save is ignored.                                 *)
TruncateUnchecked(c) ==
    /\ At(c, "open")
    /\ \/ Move(c, "saving") /\ stackFile' = Torn
       \/ Move(c, "git") /\ UNCHANGED stackFile
    /\ UNCHANGED <<config, worktree, files, stack, clock, raced>>

TruncateStack(c) ==
    /\ At(c, "open")
    /\ \/ Move(c, "saving") /\ stackFile' = Torn
       \/ ReturnCall(c) /\ UNCHANGED stackFile
    /\ UNCHANGED <<config, worktree, files, stack, clock, raced>>

SaveStack(c) ==
    /\ At(c, "saving")
    /\ \/ /\ stackFile' = IF stackFile # Torn /\ Len(stackFile) > Len(call[c].seen)
                          THEN Torn ELSE call[c].seen
          /\ Move(c, "git")
       \/ ReturnCall(c) /\ UNCHANGED stackFile
    /\ UNCHANGED <<config, worktree, files, stack, clock, raced>>

(* git apply refuses whatever does not fit, a patch applied before included.*)
GitApply(c) ==
    /\ At(c, "git")
    /\ ReturnCall(c)
    /\ \/ call[c].patch \notin worktree /\ worktree' = worktree \cup {call[c].patch}
       \/ UNCHANGED worktree
    /\ UNCHANGED <<config, files, stackFile, stack, clock, raced>>

(* readBackup: the latest entry or a named one, and its copy.  The entry    *)
(* stays on the stack, whether git can revert the patch or not.             *)
ReadBackup(c) ==
    /\ At(c, "begun") /\ call[c].kind = "restore"
    /\ \/ \E i \in DOMAIN stack :
            /\ files[stack[i].id] # None
            /\ call' = [call EXCEPT ![c].at = "reverse", ![c].patch = files[stack[i].id]]
       \/ ReturnCall(c)
    /\ UNCHANGED <<config, shared>>

GitReverse(c) ==
    /\ At(c, "reverse")
    /\ ReturnCall(c)
    /\ \/ call[c].patch \in worktree /\ worktree' = worktree \ {call[c].patch}
       \/ UNCHANGED worktree
    /\ UNCHANGED <<config, files, stackFile, stack, clock, raced>>

(* The daemon dies and is started again, with whatever configuration: the   *)
(* calls and the memory are gone.                                           *)
Crash ==
    /\ config' \in Configs
    /\ stack' = Nil
    /\ call' = [c \in Callers |-> Idle]
    /\ UNCHANGED <<worktree, files, stackFile, clock, raced>>

BackupNext ==
    \/ \E c \in Callers :
         \/ Apply(c) \/ RestoreOrList(c) \/ StackLoaded(c) \/ LoadStack(c) \/ InstallStack(c) \/ ListBackups(c)
         \/ ReadParent(c) \/ TakeId(c) \/ WriteBackup(c) \/ ReadEntries(c) \/ StoreEntries(c)
         \/ MarshalStack(c) \/ TruncateStack(c) \/ SaveStack(c) \/ GitApply(c)
         \/ ReadBackup(c) \/ GitReverse(c)
    \/ Crash

BackupSpec == BackupInit /\ [][BackupNext]_backupVars

-----------------------------------------------------------------------------
Listed(entries) == {files[entries[i].id] : i \in DOMAIN entries}

OnDisk == IF stackFile = Torn THEN <<>> ELSE stackFile

InMemory == IF stack = Nil THEN <<>> ELSE stack

(* Whatever interleaves and wherever the daemon dies, a patch is applied    *)
(* only after its copy is on disk, so it can be reverted by hand.           *)
BackedUpFirst == worktree \subseteq {files[i] : i \in Ids}

(* No entry, on disk or in memory, names a copy that was not written:       *)
(* preview and restore find what the list shows.                            *)
EntriesHaveCopies == None \notin Listed(OnDisk) \cup Listed(InMemory)

(* While calls come one at a time, every applied patch is in stack.json,    *)
(* over crashes and failed saves, unless the file is torn.                  *)
TrackedUnlessRaced ==
    ~raced /\ stackFile # Torn => worktree \subseteq Listed(stackFile)

(* While calls come one at a time the lineage is a chain: the parent of an  *)
(* entry is the entry before it, over restarts and abandoned backups.       *)
IsChain(entries) ==
    \A i \in DOMAIN entries :
      entries[i].parent = IF i = 1 THEN 0 ELSE entries[i - 1].id

LineageIsChain == ~raced => IsChain(OnDisk) /\ IsChain(InMemory)

(* A daemon that starts on a torn stack.json neither applies nor reverts    *)
(* anything, and takes no backup: no call gets past the load, for good.     *)
TornStackStopsAll ==
    [][stackFile = Torn /\ stack = Nil =>
         stack' = Nil /\ UNCHANGED <<worktree, files, stackFile>>]_backupVars

(* The git tool writes only where the file tool may: with either write flag *)
(* off no call, of whatever arguments, changes the tree, copies a patch or  *)
(* touches the stack on disk, and with git off none even loads the stack.   *)
WritesAllowed == config.allowWrite /\ config.allowFileWrite

ReadOnlyTouchesNothing ==
    [][ /\ ~WritesAllowed => UNCHANGED <<worktree, files, stackFile>>
        /\ ~(config.enabled /\ config.allowGit) => UNCHANGED shared ]_backupVars

(* The documented promise, of concurrent runs too: what is applied has been *)
(* backed up and is tracked in the stack.                                   *)
AppliedIsTracked == stackFile # Torn => worktree \subseteq Listed(stackFile)

(* All that calls, crashes and failing writes make of it is a log written   *)
(* ahead: see PatchLog.                                                     *)
IdsOf(entries) == {entries[i].id : i \in DOMAIN entries}

Log == INSTANCE PatchLog WITH
         copies <- files, applied <- worktree, listed <- IdsOf(OnDisk) \cup IdsOf(InMemory)

ImplementsLog == Log!Spec
=============================================================================
