-------------------------- MODULE GitBackups_proofs --------------------------
(* Proofs about the backups of patches, for any number of concurrent calls, *)
(* of patches and of crashes and for every configuration: types, a copy of  *)
(* every applied patch and of every entry of the stack, and what a daemon   *)
(* without the permission to write, or with a torn stack.json, leaves alone.*)
EXTENDS GitBackups, SequenceTheorems, TLAPS

(* Where a call is says what the daemon's memory holds, which kind of call  *)
(* it is, and that a backup was taken.                                      *)
CallInv(c) ==
    /\ call[c].at \in {"begun", "parent", "copy", "append", "appended", "save", "open"} => stack # Nil
    /\ call[c].at = "parent" => call[c].kind = "apply"
    /\ call[c].at \in {"copy", "append", "appended", "save", "open", "saving", "git"} =>
         call[c].kind = "apply" /\ call[c].id \in Ids /\ call[c].id <= clock
    /\ call[c].at = "reverse" => call[c].kind = "restore"
    /\ call[c].at # "idle" /\ call[c].kind = "apply" => call[c].patch \in Patches

BackupInv == BackupTypeOK /\ \A c \in Callers : CallInv(c)

(* The steps of a caller, and what they change of the call.                 *)
CallerStep(c) ==
    \/ Apply(c) \/ RestoreOrList(c) \/ StackLoaded(c) \/ LoadStack(c) \/ InstallStack(c) \/ ListBackups(c)
    \/ ReadParent(c) \/ TakeId(c) \/ WriteBackup(c) \/ ReadEntries(c) \/ StoreEntries(c)
    \/ MarshalStack(c) \/ TruncateStack(c) \/ SaveStack(c) \/ GitApply(c)
    \/ ReadBackup(c) \/ GitReverse(c)

LEMMA NextIsAStep ==
    [BackupNext]_backupVars => (\E c \in Callers : CallerStep(c)) \/ Crash \/ UNCHANGED backupVars
BY DEF BackupNext, CallerStep

LEMMA Constants ==
    /\ MaxBackups \in Nat /\ None \notin Patches /\ Nil # Torn
    /\ Nil \notin Seq(Entries) /\ Torn \notin Seq(Entries)
    /\ Idle \in Calls /\ <<>> \in Seq(Entries) /\ 0 \in 0..MaxBackups
<1>1. /\ MaxBackups \in Nat /\ None \notin Patches /\ Nil # Torn
      /\ Nil \notin Seq(Entries) /\ Torn \notin Seq(Entries)
  BY BackupsBounded, EntriesAreNoMarks
<1>2. <<>> \in Seq(Entries) /\ 0 \in 0..MaxBackups
  BY <1>1
<1>3. Idle \in Calls
  BY <1>2 DEF Idle, Calls
<1> QED
  BY <1>1, <1>2, <1>3

(* The parent of an entry is the id of another, or 0.                       *)
LEMMA LatestFacts ==
    ASSUME NEW s \in Seq(Entries)
    PROVE  Latest(s) \in 0..MaxBackups
<1>1. CASE s = <<>>
  BY <1>1, Constants DEF Latest
<1>2. CASE s # <<>>
  <2>1. s[Len(s)] \in Entries
    BY <1>2
  <2>2. s[Len(s)].id \in Ids
    BY <2>1 DEF Entries
  <2>3. Latest(s) = s[Len(s)].id
    BY <1>2 DEF Latest, Last
  <2> QED
    BY <2>2, <2>3, Constants DEF Ids
<1> QED
  BY <1>1, <1>2

LEMMA TypeStep ==
    ASSUME BackupInv, NEW c \in Callers, CallerStep(c)
    PROVE  BackupTypeOK'
<1>0. /\ config \in Configs /\ worktree \subseteq Patches /\ files \in [Ids -> Patches \cup {None}]
      /\ stackFile = Torn \/ stackFile \in Seq(Entries)
      /\ stack = Nil \/ stack \in Seq(Entries)
      /\ clock \in 0..MaxBackups /\ raced \in BOOLEAN
      /\ call \in [Callers -> Calls] /\ call[c] \in Calls
  BY DEF BackupInv, BackupTypeOK
<1>1. /\ call[c].at \in {"begun", "append", "appended", "save"} => stack \in Seq(Entries)
      /\ call[c].at \in {"copy", "append", "appended", "save", "open", "saving", "git"} => call[c].id \in Ids
      /\ call[c].seen \in Seq(Entries) /\ call[c].patch \in Patches \cup {None}
      /\ call[c].parent \in 0..MaxBackups
      /\ call[c].at # "idle" /\ call[c].kind = "apply" => call[c].patch \in Patches
      /\ call[c].at \in {"copy", "append", "appended", "save", "open", "saving", "git"} => call[c].kind = "apply"
  <2>1. CallInv(c)
    BY DEF BackupInv
  <2>2. /\ call[c].seen \in Seq(Entries) /\ call[c].patch \in Patches \cup {None}
        /\ call[c].parent \in 0..MaxBackups
    BY <1>0 DEF Calls
  <2> QED
    BY <1>0, <2>1, <2>2 DEF CallInv
<1>2. config' = config
  BY DEF CallerStep, Apply, RestoreOrList, BeginCall, StackLoaded, LoadStack, InstallStack,
     ListBackups, ReadParent, TakeId, WriteBackup, ReadEntries, StoreEntries, MarshalStack,
     TruncateStack, SaveStack, GitApply, ReadBackup, GitReverse
<1>3. raced' \in BOOLEAN
  <2>1. raced' = raced \/ raced' = (raced \/ \E d \in Callers : ~At(d, "idle"))
    BY DEF CallerStep, Apply, RestoreOrList, BeginCall, StackLoaded, LoadStack, InstallStack,
       ListBackups, ReadParent, TakeId, WriteBackup, ReadEntries, StoreEntries, MarshalStack,
       TruncateStack, SaveStack, GitApply, ReadBackup, GitReverse, shared
  <2> QED
    BY <1>0, <2>1, Zenon
<1>4. worktree' \subseteq Patches
  BY <1>0, <1>1 DEF CallerStep, Apply, RestoreOrList, BeginCall, StackLoaded, LoadStack,
     InstallStack, ListBackups, ReadParent, TakeId, WriteBackup, ReadEntries, StoreEntries,
     MarshalStack, TruncateStack, SaveStack, GitApply, ReadBackup, GitReverse, shared, At
<1>5. /\ clock' \in 0..MaxBackups
      /\ files' = files \/ (At(c, "copy") /\ files' = [files EXCEPT ![call[c].id] = call[c].patch])
  <2>1. CASE WriteBackup(c)
    BY <1>0, <2>1 DEF WriteBackup, WithCopy
  <2>2. CASE TakeId(c)
    BY <1>0, <2>2, Constants DEF TakeId
  <2>3. CASE ~WriteBackup(c) /\ ~TakeId(c)
    BY <1>0, <2>3 DEF CallerStep, Apply, RestoreOrList, BeginCall, StackLoaded, LoadStack,
       InstallStack, ListBackups, ReadParent, ReadEntries, StoreEntries, MarshalStack,
       TruncateStack, SaveStack, GitApply, ReadBackup, GitReverse, shared
  <2> QED
    BY <2>1, <2>2, <2>3
<1>6. files' \in [Ids -> Patches \cup {None}]
  BY <1>0, <1>1, <1>5 DEF At
<1>7. stackFile' = Torn \/ stackFile' \in Seq(Entries)
  <2>1. stackFile' \in {stackFile, Torn, call[c].seen}
    BY DEF CallerStep, Apply, RestoreOrList, BeginCall, StackLoaded, LoadStack, InstallStack,
       ListBackups, ReadParent, TakeId, WriteBackup, ReadEntries, StoreEntries, MarshalStack,
       TruncateStack, SaveStack, GitApply, ReadBackup, GitReverse, shared
  <2> QED
    BY <1>0, <1>1, <2>1
<1>8. stack' = Nil \/ stack' \in Seq(Entries)
  <2>1. stack' \in {stack, call[c].seen}
    BY DEF CallerStep, Apply, RestoreOrList, BeginCall, StackLoaded, LoadStack, InstallStack,
       ListBackups, ReadParent, TakeId, WriteBackup, ReadEntries, StoreEntries, MarshalStack,
       TruncateStack, SaveStack, GitApply, ReadBackup, GitReverse, shared
  <2> QED
    BY <1>0, <1>1, <2>1
<1>9. call' \in [Callers -> Calls]
  <2>1. \E r \in Calls : call' = [call EXCEPT ![c] = r]
    <3>1. CASE Apply(c) \/ RestoreOrList(c)
      <4>1. PICK k \in {"apply", "restore", "list"}, q \in Patches \cup {None} :
              call' = [call EXCEPT ![c] = [Idle EXCEPT !.at = "stack", !.kind = k, !.patch = q]]
        BY <3>1 DEF Apply, RestoreOrList, BeginCall
      <4>2. [Idle EXCEPT !.at = "stack", !.kind = k, !.patch = q] \in Calls
        BY Constants DEF Calls, Idle
      <4> QED
        BY <4>1, <4>2
    <3>2. ASSUME NEW place \in {"begun", "append", "save", "saving", "git"}, Move(c, place)
          PROVE  \E r \in Calls : call' = [call EXCEPT ![c] = r]
      <4>1. [call[c] EXCEPT !.at = place] \in Calls
        BY <1>0 DEF Calls
      <4>2. call' = [call EXCEPT ![c] = [call[c] EXCEPT !.at = place]]
        BY <1>0, <3>2 DEF Move
      <4> QED
        BY <4>1, <4>2
    <3>3. ASSUME ReturnCall(c)
          PROVE  \E r \in Calls : call' = [call EXCEPT ![c] = r]
      BY <3>3, Constants DEF ReturnCall
    <3>4. ASSUME NEW place \in {"load", "appended", "open"}, NEW s \in Seq(Entries),
                 call' = [call EXCEPT ![c].at = place, ![c].seen = s]
          PROVE  \E r \in Calls : call' = [call EXCEPT ![c] = r]
      <4>1. [call[c] EXCEPT !.at = place, !.seen = s] \in Calls
        BY <1>0 DEF Calls
      <4>2. call' = [call EXCEPT ![c] = [call[c] EXCEPT !.at = place, !.seen = s]]
        BY <1>0, <3>4
      <4> QED
        BY <4>1, <4>2
    <3>5. CASE StackLoaded(c) \/ InstallStack(c) \/ StoreEntries(c)
      BY <3>2, <3>5 DEF StackLoaded, InstallStack, StoreEntries
    <3>6. CASE ListBackups(c) \/ GitApply(c) \/ GitReverse(c)
      BY <3>3, <3>6 DEF ListBackups, ReadParent, TakeId, GitApply, GitReverse
    <3>7. CASE LoadStack(c)
      BY <1>0, <3>3, <3>4, <3>7 DEF LoadStack
    <3>8. CASE WriteBackup(c) \/ TruncateStack(c)
      BY <3>2, <3>3, <3>8 DEF WriteBackup, TruncateStack
    <3>9. CASE ReadEntries(c)
      <4>1. Push(c) \in Seq(Entries)
        <5>1. NewEntry(c) \in Entries /\ stack \in Seq(Entries)
          BY <1>1, <3>9 DEF ReadEntries, At, NewEntry, Entries
        <5> QED
          BY <5>1 DEF Push
      <4> QED
        BY <3>4, <3>9, <4>1 DEF ReadEntries
    <3>10. CASE MarshalStack(c)
      <4>1. stack \in Seq(Entries)
        BY <1>1, <3>10 DEF MarshalStack, At
      <4> QED
        BY <3>3, <3>4, <3>10, <4>1 DEF MarshalStack
    <3>11. CASE SaveStack(c)
      BY <3>2, <3>3, <3>11 DEF SaveStack
    <3>12. CASE ReadBackup(c)
      <4>1. CASE ReturnCall(c)
        BY <3>3, <4>1
      <4>2. ASSUME NEW i \in DOMAIN stack,
                   call' = [call EXCEPT ![c].at = "reverse", ![c].patch = files[stack[i].id]]
            PROVE  \E r \in Calls : call' = [call EXCEPT ![c] = r]
        <5>1. stack \in Seq(Entries)
          BY <1>1, <3>12 DEF ReadBackup, At
        <5>2. stack[i].id \in Ids
          <6>1. stack[i] \in Entries
            BY <5>1
          <6> QED
            BY <6>1 DEF Entries
        <5>3. files[stack[i].id] \in Patches \cup {None}
          BY <1>0, <5>2
        <5>4. [call[c] EXCEPT !.at = "reverse", !.patch = files[stack[i].id]] \in Calls
          BY <1>0, <5>3 DEF Calls
        <5>5. call' = [call EXCEPT ![c] = [call[c] EXCEPT !.at = "reverse", !.patch = files[stack[i].id]]]
          BY <1>0, <4>2
        <5> QED
          BY <5>4, <5>5
      <4> QED
        BY <3>12, <4>1, <4>2 DEF ReadBackup
    <3>13. CASE ReadParent(c)
      <4>1. Latest(stack) \in 0..MaxBackups
        BY <1>1, <3>13, LatestFacts DEF ReadParent, At
      <4>2. [call[c] EXCEPT !.at = "parent", !.parent = Latest(stack)] \in Calls
        BY <1>0, <4>1 DEF Calls
      <4>3. call' = [call EXCEPT ![c] = [call[c] EXCEPT !.at = "parent", !.parent = Latest(stack)]]
        BY <1>0, <3>13 DEF ReadParent
      <4> QED
        BY <4>2, <4>3
    <3>14. CASE TakeId(c)
      <4>1. [call[c] EXCEPT !.at = "copy", !.id = clock'] \in Calls
        BY <1>0, <1>5 DEF Calls
      <4>2. call' = [call EXCEPT ![c] = [call[c] EXCEPT !.at = "copy", !.id = clock']]
        BY <1>0, <3>14 DEF TakeId
      <4> QED
        BY <4>1, <4>2
    <3> QED
      BY <3>1, <3>5, <3>6, <3>7, <3>8, <3>9, <3>10, <3>11, <3>12, <3>13, <3>14 DEF CallerStep
  <2> QED
    BY <1>0, <2>1
<1> QED
  BY <1>0, <1>2, <1>3, <1>4, <1>5, <1>6, <1>7, <1>8, <1>9 DEF BackupTypeOK

(* What a step of one caller leaves to the others.                          *)
LEMMA OthersKeep ==
    ASSUME BackupInv, NEW c \in Callers, CallerStep(c)
    PROVE  /\ \A d \in Callers \ {c} : call'[d] = call[d]
           /\ clock' \in Nat /\ clock' >= clock
           /\ stack # Nil => stack' # Nil
<1>0. call \in [Callers -> Calls] /\ clock \in 0..MaxBackups /\ MaxBackups \in Nat
  BY Constants DEF BackupInv, BackupTypeOK
<1>1. \A d \in Callers \ {c} : call'[d] = call[d]
  BY <1>0 DEF CallerStep, Apply, RestoreOrList, BeginCall, StackLoaded, LoadStack, InstallStack,
     ListBackups, ReadParent, TakeId, WriteBackup, ReadEntries, StoreEntries, MarshalStack,
     TruncateStack, SaveStack, GitApply, ReadBackup, GitReverse, Move, ReturnCall
<1>2. clock' = clock \/ clock' = clock + 1
  BY DEF CallerStep, Apply, RestoreOrList, BeginCall, StackLoaded, LoadStack, InstallStack,
     ListBackups, ReadParent, TakeId, WriteBackup, ReadEntries, StoreEntries, MarshalStack,
     TruncateStack, SaveStack, GitApply, ReadBackup, GitReverse, shared
<1>3. stack' = stack \/ stack' = call[c].seen
  BY DEF CallerStep, Apply, RestoreOrList, BeginCall, StackLoaded, LoadStack, InstallStack,
     ListBackups, ReadParent, TakeId, WriteBackup, ReadEntries, StoreEntries, MarshalStack,
     TruncateStack, SaveStack, GitApply, ReadBackup, GitReverse, shared
<1>4. call[c].seen \in Seq(Entries)
  BY <1>0 DEF Calls
<1>5. stack # Nil => stack' # Nil
  BY <1>3, <1>4, Constants
<1> QED
  BY <1>0, <1>1, <1>2, <1>5

LEMMA CallStep ==
    ASSUME BackupInv, NEW c \in Callers, CallerStep(c)
    PROVE  CallInv(c)'
<1>0. /\ call \in [Callers -> Calls] /\ call[c] \in Calls /\ clock \in 0..MaxBackups /\ MaxBackups \in Nat
      /\ call[c].seen \in Seq(Entries) /\ call[c].seen # Nil /\ CallInv(c)
      /\ clock' \in Nat /\ clock' >= clock /\ (stack # Nil => stack' # Nil)
  <2>1. call[c] \in Calls /\ CallInv(c)
    BY DEF BackupInv, BackupTypeOK
  <2>2. call[c].seen \in Seq(Entries)
    BY <2>1 DEF Calls
  <2> QED
    BY <2>1, <2>2, Constants, OthersKeep DEF BackupInv, BackupTypeOK
<1>1. CASE Apply(c)
  <2>1. PICK q \in Patches :
          call' = [call EXCEPT ![c] = [Idle EXCEPT !.at = "stack", !.kind = "apply", !.patch = q]]
    BY <1>1 DEF Apply, BeginCall
  <2>2. call'[c].at = "stack" /\ call'[c].kind = "apply" /\ call'[c].patch \in Patches
    BY <1>0, <2>1 DEF Idle
  <2> QED
    BY <2>2 DEF CallInv
<1>2. CASE RestoreOrList(c)
  <2>1. PICK k \in {"restore", "list"} :
          call' = [call EXCEPT ![c] = [Idle EXCEPT !.at = "stack", !.kind = k, !.patch = None]]
    BY <1>2 DEF RestoreOrList, BeginCall
  <2>2. call'[c].at = "stack" /\ call'[c].kind # "apply"
    BY <1>0, <2>1 DEF Idle
  <2> QED
    BY <2>2 DEF CallInv
<1>3. ASSUME call' = [call EXCEPT ![c] = Idle]
      PROVE  CallInv(c)'
  <2>1. call'[c].at = "idle"
    BY <1>0, <1>3 DEF Idle
  <2> QED
    BY <2>1 DEF CallInv
<1>4. ASSUME call'[c].kind = call[c].kind, call'[c].patch = call[c].patch, call'[c].id = call[c].id,
             call[c].at # "idle",
             call'[c].at \in {"begun", "load"} => call'[c].at = "load" \/ stack' # Nil,
             call'[c].at \in {"copy", "append", "appended", "save", "open", "saving", "git"} =>
               call[c].at \in {"copy", "append", "appended", "save", "open", "saving", "git"},
             call'[c].at \in {"append", "appended", "save", "open"} => stack' # Nil,
             call'[c].at \notin {"parent", "copy"},
             call'[c].at = "reverse" => call[c].kind = "restore"
      PROVE  CallInv(c)'
  <2>1. call[c].at \in {"copy", "append", "appended", "save", "open", "saving", "git"} => call[c].id \in 1..clock'
    <3>1. call[c].at \in {"copy", "append", "appended", "save", "open", "saving", "git"} =>
            call[c].id \in Ids /\ call[c].id <= clock
      BY <1>0 DEF CallInv
    <3> QED
      BY <1>0, <3>1 DEF Ids
  <2> QED
    BY <1>0, <1>4, <2>1 DEF CallInv, Ids
<1>5. CASE StackLoaded(c) \/ InstallStack(c)
  <2>1. call' = [call EXCEPT ![c].at = "begun"] /\ call[c].at # "idle" /\ stack' # Nil
    BY <1>0, <1>5 DEF StackLoaded, InstallStack, Move, At, shared
  <2>2. call'[c] = [call[c] EXCEPT !.at = "begun"]
    BY <1>0, <2>1
  <2> QED
    BY <1>0, <1>4, <2>1, <2>2 DEF Calls
<1>6. CASE LoadStack(c)
  <2>1. CASE call' = [call EXCEPT ![c].at = "load", ![c].seen = stackFile]
    <3>1. call'[c] = [call[c] EXCEPT !.at = "load", !.seen = stackFile] /\ call[c].at # "idle"
      BY <1>0, <1>6, <2>1 DEF LoadStack, At
    <3> QED
      BY <1>0, <1>4, <3>1 DEF Calls
  <2> QED
    BY <1>3, <1>6, <2>1 DEF LoadStack, ReturnCall
<1>7. CASE ListBackups(c) \/ GitApply(c) \/ GitReverse(c)
  BY <1>3, <1>7 DEF ListBackups, ReadParent, TakeId, GitApply, GitReverse, ReturnCall
<1>8. CASE WriteBackup(c)
  <2>1. CASE Move(c, "append")
    <3>1. call'[c] = [call[c] EXCEPT !.at = "append"] /\ call[c].at = "copy" /\ stack' # Nil
      BY <1>0, <1>8, <2>1 DEF WriteBackup, At, Move, CallInv
    <3> QED
      BY <1>0, <1>4, <3>1 DEF Calls
  <2> QED
    BY <1>3, <1>8, <2>1 DEF WriteBackup, ReturnCall
<1>14. CASE ReadParent(c)
  <2>1. call'[c] = [call[c] EXCEPT !.at = "parent", !.parent = Latest(stack)]
    BY <1>0, <1>14 DEF ReadParent
  <2>2. call'[c].at = "parent" /\ call'[c].kind = call[c].kind /\ call'[c].patch = call[c].patch
    BY <1>0, <2>1 DEF Calls
  <2>3. call[c].at = "begun" /\ call[c].kind = "apply" /\ stack' = stack
    BY <1>14 DEF ReadParent, At, shared
  <2> QED
    BY <1>0, <2>2, <2>3 DEF CallInv
<1>15. CASE TakeId(c)
  <2>1. call'[c] = [call[c] EXCEPT !.at = "copy", !.id = clock']
    BY <1>0, <1>15 DEF TakeId
  <2>2. /\ call'[c].at = "copy" /\ call'[c].id = clock' /\ call'[c].kind = call[c].kind
        /\ call'[c].patch = call[c].patch
    BY <1>0, <2>1 DEF Calls
  <2>3. call[c].at = "parent" /\ clock' = clock + 1 /\ clock < MaxBackups /\ stack' = stack
    BY <1>15 DEF TakeId, At
  <2>4. clock' \in Ids /\ stack' # Nil /\ call[c].kind = "apply" /\ call[c].patch \in Patches
    BY <1>0, <2>3 DEF CallInv, Ids
  <2> QED
    BY <1>0, <2>2, <2>3, <2>4 DEF CallInv
<1>9. CASE ReadEntries(c)
  <2>1. /\ call'[c] = [call[c] EXCEPT !.at = "appended", !.seen = Push(c)] /\ call[c].at = "append"
        /\ stack' = stack /\ stack # Nil
    BY <1>0, <1>9 DEF ReadEntries, At, CallInv, shared
  <2> QED
    BY <1>0, <1>4, <2>1 DEF Calls
<1>10. CASE StoreEntries(c)
  <2>1. call'[c] = [call[c] EXCEPT !.at = "save"] /\ call[c].at = "appended" /\ stack' # Nil
    BY <1>0, <1>10 DEF StoreEntries, At, Move
  <2> QED
    BY <1>0, <1>4, <2>1 DEF Calls
<1>11. CASE MarshalStack(c)
  <2>1. CASE call' = [call EXCEPT ![c].at = "open", ![c].seen = stack]
    <3>1. /\ call'[c] = [call[c] EXCEPT !.at = "open", !.seen = stack] /\ call[c].at = "save"
          /\ stack' = stack /\ stack # Nil
      BY <1>0, <1>11, <2>1 DEF MarshalStack, At, CallInv, shared
    <3> QED
      BY <1>0, <1>4, <3>1 DEF Calls
  <2> QED
    BY <1>3, <1>11, <2>1 DEF MarshalStack, ReturnCall
<1>16. CASE TruncateStack(c)
  <2>1. CASE Move(c, "saving")
    <3>1. call'[c] = [call[c] EXCEPT !.at = "saving"] /\ call[c].at = "open"
      BY <1>0, <1>16, <2>1 DEF TruncateStack, At, Move
    <3> QED
      BY <1>0, <1>4, <3>1 DEF Calls
  <2> QED
    BY <1>3, <1>16, <2>1 DEF TruncateStack, ReturnCall
<1>12. CASE SaveStack(c)
  <2>1. CASE Move(c, "git")
    <3>1. call'[c] = [call[c] EXCEPT !.at = "git"] /\ call[c].at = "saving"
      BY <1>0, <1>12, <2>1 DEF SaveStack, At, Move
    <3> QED
      BY <1>0, <1>4, <3>1 DEF Calls
  <2> QED
    BY <1>3, <1>12, <2>1 DEF SaveStack, ReturnCall
<1>13. CASE ReadBackup(c)
  <2>1. CASE \E i \in DOMAIN stack :
               call' = [call EXCEPT ![c].at = "reverse", ![c].patch = files[stack[i].id]]
    <3>1. PICK q : call' = [call EXCEPT ![c].at = "reverse", ![c].patch = q]
      BY <2>1
    <3>2. call'[c] = [call[c] EXCEPT !.at = "reverse", !.patch = q]
      BY <1>0, <3>1
    <3>3. call'[c].at = "reverse" /\ call'[c].kind = "restore"
      BY <1>0, <1>13, <3>2 DEF Calls, ReadBackup
    <3> QED
      BY <3>3 DEF CallInv
  <2> QED
    BY <1>3, <1>13, <2>1 DEF ReadBackup, ReturnCall
<1> QED
  BY <1>1, <1>2, <1>5, <1>6, <1>7, <1>8, <1>9, <1>10, <1>11, <1>12, <1>13, <1>14, <1>15, <1>16
     DEF CallerStep

LEMMA CrashStep ==
    ASSUME BackupInv, Crash
    PROVE  BackupInv' /\ \A c \in Callers : call'[c] = Idle
<1>1. \A c \in Callers : call'[c] = Idle
  BY DEF Crash
<1>2. call' \in [Callers -> Calls]
  BY Constants DEF Crash
<1>3. \A c \in Callers : CallInv(c)'
  BY <1>1 DEF CallInv, Idle
<1> QED
  BY <1>1, <1>2, <1>3 DEF Crash, BackupInv, BackupTypeOK

LEMMA BackupInvStep == BackupInv /\ [BackupNext]_backupVars => BackupInv'
<1> SUFFICES ASSUME BackupInv, [BackupNext]_backupVars
             PROVE  BackupInv'
  OBVIOUS
<1>1. ASSUME NEW c \in Callers, CallerStep(c)
      PROVE  BackupInv'
  <2>1. ASSUME NEW d \in Callers, d # c
        PROVE  CallInv(d)'
    <3>1. call'[d] = call[d] /\ clock' \in Nat /\ clock' >= clock /\ (stack # Nil => stack' # Nil)
      BY <1>1, <2>1, OthersKeep
    <3>2. CallInv(d) /\ clock \in Nat
      BY Constants DEF BackupInv, BackupTypeOK
    <3>3. call[d].at \in {"copy", "append", "appended", "save", "open", "saving", "git"} =>
            call[d].id \in Ids /\ call[d].id <= clock'
      <4>1. call[d].at \in {"copy", "append", "appended", "save", "open", "saving", "git"} =>
            call[d].id \in Ids /\ call[d].id <= clock
        BY <3>2 DEF CallInv
      <4> QED
        BY <3>1, <3>2, <4>1 DEF Ids
    <3> QED
      BY <3>1, <3>2, <3>3 DEF CallInv
  <2> QED
    BY <1>1, <2>1, TypeStep, CallStep DEF BackupInv
<1>2. CASE Crash
  BY <1>2, CrashStep
<1>3. CASE UNCHANGED backupVars
  BY <1>3 DEF backupVars, shared, BackupInv, BackupTypeOK, CallInv
<1> QED
  BY <1>1, <1>2, <1>3, NextIsAStep

LEMMA BackupInvHolds == BackupSpec => []BackupInv
<1>1. BackupInit => BackupInv
  <2> SUFFICES ASSUME BackupInit
               PROVE  BackupInv
    OBVIOUS
  <2>1. call \in [Callers -> Calls] /\ \A c \in Callers : call[c] = Idle
    BY Constants DEF BackupInit
  <2>2. raced \in BOOLEAN /\ config \in Configs
    BY Zenon DEF BackupInit
  <2>3. /\ worktree \subseteq Patches /\ files \in [Ids -> Patches \cup {None}]
        /\ stackFile \in Seq(Entries) /\ stack = Nil /\ clock \in 0..MaxBackups
    BY Constants DEF BackupInit
  <2>4. \A c \in Callers : CallInv(c)
    BY <2>1 DEF CallInv, Idle
  <2> QED
    BY <2>1, <2>2, <2>3, <2>4 DEF BackupInv, BackupTypeOK
<1> QED
  BY <1>1, BackupInvStep, PTL DEF BackupSpec

(* The stack, the files and the calls in progress have their types.         *)
THEOREM BackupTypeCorrect == BackupSpec => []BackupTypeOK
BY BackupInvHolds, PTL DEF BackupInv
-----------------------------------------------------------------------------
(* A copy is written under an id that no copy has yet, since no two calls   *)
(* take the same one, and never changed again.  So an entry that is made after its copy always finds it, and so  *)
(* does a call that is about to apply its patch.                            *)
After == {"append", "appended", "save", "open", "saving", "git"}

Copied(entries) == \A i \in 1..Len(entries) : files[entries[i].id] # None

CopyInv ==
    /\ \A i \in Ids : i > clock => files[i] = None
    /\ \A c \in Callers : Copied(call[c].seen)
    /\ stack # Nil => Copied(stack)
    /\ stackFile # Torn => Copied(stackFile)
    /\ \A c \in Callers : call[c].at \in After => files[call[c].id] = call[c].patch
    /\ \A c \in Callers : call[c].at = "copy" => files[call[c].id] = None
    /\ \A c, d \in Callers :
         c # d /\ call[c].at = "copy" /\ call[d].at = "copy" => call[c].id # call[d].id
    /\ worktree \subseteq {files[i] : i \in Ids}

LEMMA FilesStep ==
    ASSUME BackupInv, CopyInv, NEW c \in Callers, CallerStep(c)
    PROVE  /\ \A i \in Ids : files[i] # None => files'[i] = files[i]
           /\ \A i \in Ids : i > clock' => files'[i] = None
           /\ \/ files' = files
              \/ /\ call[c].at = "copy" /\ call[c].id \in Ids /\ call[c].patch \in Patches
                 /\ files[call[c].id] = None
                 /\ files' = [files EXCEPT ![call[c].id] = call[c].patch]
<1>0. /\ files \in [Ids -> Patches \cup {None}] /\ clock \in 0..MaxBackups /\ MaxBackups \in Nat
      /\ clock' \in Nat /\ clock' >= clock
      /\ \A i \in Ids : i > clock => files[i] = None
  BY Constants, OthersKeep DEF BackupInv, BackupTypeOK, CopyInv
<1>1. ASSUME files' = files
      PROVE  \A i \in Ids : i > clock' => files'[i] = None
  BY <1>0, <1>1 DEF Ids
<1>2. CASE WriteBackup(c)
  <2>1. /\ call[c].at = "copy" /\ clock' = clock /\ (files' = files \/ files' = WithCopy(c))
        /\ call[c].id \in Ids /\ call[c].id <= clock /\ call[c].patch \in Patches
        /\ files[call[c].id] = None
    <3>1. call[c].at = "copy" /\ clock' = clock /\ (files' = files \/ files' = WithCopy(c))
      BY <1>2 DEF WriteBackup, At
    <3> QED
      BY <3>1 DEF BackupInv, CallInv, CopyInv
  <2>2. CASE files' = files
    BY <1>1, <2>2
  <2>3. CASE files' = [files EXCEPT ![call[c].id] = call[c].patch]
    <3>1. \A i \in Ids : i # call[c].id => files'[i] = files[i]
      BY <1>0, <2>3
    <3>2. \A i \in Ids : i > clock' => i > clock /\ i # call[c].id
      BY <1>0, <2>1 DEF Ids
    <3> QED
      BY <1>0, <2>1, <2>3, <3>1, <3>2
  <2> QED
    BY <2>1, <2>2, <2>3 DEF WithCopy
<1>3. CASE ~WriteBackup(c)
  <2>1. files' = files
    BY <1>3 DEF CallerStep, Apply, RestoreOrList, BeginCall, StackLoaded, LoadStack, InstallStack,
       ListBackups, ReadParent, TakeId, ReadEntries, StoreEntries, MarshalStack, TruncateStack,
       SaveStack, GitApply, ReadBackup, GitReverse, shared
  <2> QED
    BY <1>1, <2>1
<1> QED
  BY <1>2, <1>3

(* What is copied stays copied.                                             *)
LEMMA CopiedStays ==
    ASSUME NEW s \in Seq(Entries), Copied(s),
           \A i \in Ids : files[i] # None => files'[i] = files[i]
    PROVE  \A i \in 1..Len(s) : files'[s[i].id] # None
<1> TAKE i \in 1..Len(s)
<1>1. s[i] \in Entries
  OBVIOUS
<1>2. s[i].id \in Ids /\ files[s[i].id] # None
  BY <1>1 DEF Entries, Copied
<1> QED
  BY <1>2

(* What a call's list becomes in a step.                                    *)
LEMMA SeenStep ==
    ASSUME BackupInv, NEW c \in Callers, CallerStep(c)
    PROVE  \/ call'[c].seen = call[c].seen
           \/ call'[c].seen = <<>>
           \/ call'[c].seen = stackFile /\ stackFile # Torn
           \/ call'[c].seen = stack /\ stack # Nil
           \/ call'[c].seen = Push(c) /\ stack # Nil /\ At(c, "append")
<1>0. call \in [Callers -> Calls] /\ call[c] \in Calls /\ CallInv(c)
  BY DEF BackupInv, BackupTypeOK
<1>1. CASE Apply(c) \/ RestoreOrList(c)
  BY <1>0, <1>1 DEF Apply, RestoreOrList, BeginCall, Idle
<1>2. ASSUME NEW place, Move(c, place)
      PROVE  call'[c].seen = call[c].seen
  BY <1>0, <1>2 DEF Move, Calls
<1>3. ASSUME ReturnCall(c)
      PROVE  call'[c].seen = <<>>
  BY <1>0, <1>3 DEF ReturnCall, Idle
<1>4. CASE StackLoaded(c) \/ InstallStack(c) \/ StoreEntries(c)
  BY <1>2, <1>4 DEF StackLoaded, InstallStack, StoreEntries
<1>5. CASE ListBackups(c) \/ GitApply(c) \/ GitReverse(c)
  BY <1>3, <1>5 DEF ListBackups, ReadParent, TakeId, GitApply, GitReverse
<1>6. CASE LoadStack(c)
  BY <1>0, <1>3, <1>6 DEF LoadStack, Calls
<1>7. CASE WriteBackup(c) \/ TruncateStack(c)
  BY <1>2, <1>3, <1>7 DEF WriteBackup, TruncateStack
<1>8. CASE ReadEntries(c)
  BY <1>0, <1>8 DEF ReadEntries, Calls, At, CallInv
<1>9. CASE MarshalStack(c)
  BY <1>0, <1>3, <1>9 DEF MarshalStack, Calls, At, CallInv
<1>10. CASE SaveStack(c)
  BY <1>2, <1>3, <1>10 DEF SaveStack
<1>11. CASE ReadBackup(c)
  BY <1>0, <1>3, <1>11 DEF ReadBackup, Calls
<1>12. CASE ReadParent(c) \/ TakeId(c)
  BY <1>0, <1>12 DEF ReadParent, TakeId, Calls
<1> QED
  BY <1>1, <1>4, <1>5, <1>6, <1>7, <1>8, <1>9, <1>10, <1>11, <1>12 DEF CallerStep

(* The lists of entries that a step writes.                                 *)
LEMMA ListsStep ==
    ASSUME BackupInv, CopyInv, NEW c \in Callers, CallerStep(c)
    PROVE  /\ stackFile' # Torn => stackFile' \in Seq(Entries) /\ Copied(stackFile')
           /\ stack' # Nil => stack' \in Seq(Entries) /\ Copied(stack')
           /\ call'[c].seen \in Seq(Entries) /\ Copied(call'[c].seen)
<1>0. /\ stackFile # Torn => stackFile \in Seq(Entries) /\ Copied(stackFile)
      /\ stack # Nil => stack \in Seq(Entries) /\ Copied(stack)
      /\ call[c].seen \in Seq(Entries) /\ Copied(call[c].seen)
      /\ call \in [Callers -> Calls] /\ call[c] \in Calls /\ CallInv(c)
  <2>1. call \in [Callers -> Calls] /\ call[c] \in Calls /\ CallInv(c)
    BY DEF BackupInv, BackupTypeOK
  <2>2. call[c].seen \in Seq(Entries)
    BY <2>1 DEF Calls
  <2> QED
    BY <2>1, <2>2 DEF BackupInv, BackupTypeOK, CopyInv
<1>1. stackFile' \in {stackFile, Torn, call[c].seen}
  BY DEF CallerStep, Apply, RestoreOrList, BeginCall, StackLoaded, LoadStack, InstallStack,
     ListBackups, ReadParent, TakeId, WriteBackup, ReadEntries, StoreEntries, MarshalStack,
     TruncateStack, SaveStack, GitApply, ReadBackup, GitReverse, shared
<1>2. stack' \in {stack, call[c].seen}
  BY DEF CallerStep, Apply, RestoreOrList, BeginCall, StackLoaded, LoadStack, InstallStack,
     ListBackups, ReadParent, TakeId, WriteBackup, ReadEntries, StoreEntries, MarshalStack,
     TruncateStack, SaveStack, GitApply, ReadBackup, GitReverse, shared
<1>3. call'[c].seen \in Seq(Entries) /\ Copied(call'[c].seen)
  <2>1. \/ call'[c].seen = call[c].seen
        \/ call'[c].seen = <<>>
        \/ call'[c].seen = stackFile /\ stackFile # Torn
        \/ call'[c].seen = stack /\ stack # Nil
        \/ call'[c].seen = Push(c) /\ stack # Nil /\ call[c].at = "append"
    BY SeenStep DEF At
  <2>2. <<>> \in Seq(Entries) /\ Copied(<<>>)
    BY DEF Copied
  <2>3. ASSUME stack # Nil, call[c].at = "append"
        PROVE  Push(c) \in Seq(Entries) /\ Copied(Push(c))
    <3>1. stack \in Seq(Entries) /\ NewEntry(c) \in Entries /\ files[NewEntry(c).id] # None
      <4>1. call[c].id \in Ids /\ call[c].parent \in 0..MaxBackups /\ call[c].patch \in Patches
        BY <1>0, <2>3 DEF CallInv, Calls
      <4>2. files[call[c].id] = call[c].patch
        BY <2>3 DEF CopyInv, After
      <4> QED
        BY <1>0, <2>3, <4>1, <4>2, Constants DEF NewEntry, Entries
    <3>2. /\ Push(c) \in Seq(Entries) /\ Len(Push(c)) = Len(stack) + 1
          /\ \A i \in 1..Len(stack) : Push(c)[i] = stack[i]
          /\ Push(c)[Len(stack) + 1] = NewEntry(c)
      BY <3>1 DEF Push
    <3>3. \A i \in 1..Len(Push(c)) : i \in 1..Len(stack) \/ i = Len(stack) + 1
      BY <3>1, <3>2
    <3> QED
      BY <1>0, <2>3, <3>1, <3>2, <3>3 DEF Copied
  <2> QED
    BY <1>0, <2>1, <2>2, <2>3
<1> QED
  BY <1>0, <1>1, <1>2, <1>3

(* Only the taking of an id leads to the copy.                              *)
LEMMA ComesToCopy ==
    ASSUME BackupInv, NEW c \in Callers, CallerStep(c), call'[c].at = "copy"
    PROVE  call'[c].id = clock' /\ clock' = clock + 1 /\ files' = files
<1>0. call \in [Callers -> Calls] /\ call[c] \in Calls
  BY DEF BackupInv, BackupTypeOK
<1>1. ASSUME call' = [call EXCEPT ![c] = Idle]
      PROVE  FALSE
  BY <1>0, <1>1 DEF Idle
<1>2. ASSUME NEW place, Move(c, place)
      PROVE  place = "copy"
  BY <1>0, <1>2 DEF Move, Calls
<1>3. CASE Apply(c) \/ RestoreOrList(c)
  <2>1. \E k, q : call' = [call EXCEPT ![c] = [Idle EXCEPT !.at = "stack", !.kind = k, !.patch = q]]
    BY <1>3 DEF Apply, RestoreOrList, BeginCall
  <2> QED
    BY <1>0, <2>1 DEF Idle
<1>4. CASE StackLoaded(c) \/ InstallStack(c) \/ WriteBackup(c) \/ StoreEntries(c) \/ TruncateStack(c) \/ SaveStack(c)
  BY <1>1, <1>2, <1>4 DEF StackLoaded, InstallStack, WriteBackup, StoreEntries, TruncateStack,
     SaveStack, ReturnCall
<1>5. CASE ListBackups(c) \/ GitApply(c) \/ GitReverse(c)
  BY <1>1, <1>5 DEF ListBackups, GitApply, GitReverse, ReturnCall
<1>6. CASE LoadStack(c) \/ ReadParent(c) \/ ReadEntries(c) \/ MarshalStack(c) \/ ReadBackup(c)
  BY <1>0, <1>1, <1>6 DEF LoadStack, ReadParent, ReadEntries, MarshalStack, ReadBackup, ReturnCall,
     Calls
<1>7. CASE TakeId(c)
  BY <1>0, <1>7 DEF TakeId, Calls
<1> QED
  BY <1>3, <1>4, <1>5, <1>6, <1>7 DEF CallerStep

LEMMA CopyStep ==
    ASSUME BackupInv, CopyInv, NEW c \in Callers, CallerStep(c)
    PROVE  CopyInv'
<1>0. /\ call \in [Callers -> Calls] /\ files \in [Ids -> Patches \cup {None}]
      /\ None \notin Patches /\ worktree \subseteq Patches
      /\ \A i \in Ids : files[i] # None => files'[i] = files[i]
  BY Constants, FilesStep DEF BackupInv, BackupTypeOK
<1>1. \A i \in Ids : i > clock' => files'[i] = None
  BY FilesStep
<1>2. \A d \in Callers : Copied(call[d].seen)'
  <2> TAKE d \in Callers
  <2>1. CASE d # c
    <3>1. call'[d] = call[d] /\ call[d].seen \in Seq(Entries) /\ Copied(call[d].seen)
      BY <1>0, <2>1, OthersKeep DEF CopyInv, Calls
    <3> QED
      BY <1>0, <3>1, CopiedStays DEF Copied
  <2>2. CASE d = c
    BY <1>0, <2>2, ListsStep, CopiedStays DEF Copied
  <2> QED
    BY <2>1, <2>2
<1>3. (stack # Nil => Copied(stack))'
  BY <1>0, ListsStep, CopiedStays DEF Copied
<1>4. (stackFile # Torn => Copied(stackFile))'
  BY <1>0, ListsStep, CopiedStays DEF Copied
<1>5. \A d \in Callers : call'[d].at \in After => files'[call'[d].id] = call'[d].patch
  <2>0. ASSUME NEW d \in Callers, call[d].at \in After
        PROVE  files'[call[d].id] = call[d].patch
    <3>1. call[d].id \in Ids /\ files[call[d].id] = call[d].patch /\ call[d].patch \in Patches
      BY <2>0 DEF BackupInv, CallInv, CopyInv, After
    <3> QED
      BY <1>0, <3>1
  <2> TAKE d \in Callers
  <2>1. CASE d # c
    BY <2>0, <2>1, OthersKeep
  <2>2. CASE d = c
    <3>0. call[c] \in Calls
      BY <1>0
    <3>1. CASE WriteBackup(c)
      <4>1. CASE call' = [call EXCEPT ![c] = Idle]
        BY <1>0, <2>2, <4>1 DEF Idle, After
      <4>2. CASE files' = WithCopy(c) /\ Move(c, "append")
        <5>1. call'[c].id = call[c].id /\ call'[c].patch = call[c].patch
          BY <1>0, <3>0, <4>2 DEF Move, Calls
        <5>2. call[c].id \in Ids
          BY <3>1 DEF WriteBackup, At, BackupInv, CallInv
        <5> QED
          BY <1>0, <2>2, <4>2, <5>1, <5>2 DEF WithCopy
      <4> QED
        BY <3>1, <4>1, <4>2 DEF WriteBackup, ReturnCall
    <3>2. CASE ~WriteBackup(c)
      <4>1. call'[c].at \in After =>
              call[c].at \in After /\ call'[c].id = call[c].id /\ call'[c].patch = call[c].patch
        <5>1. ASSUME call' = [call EXCEPT ![c] = Idle]
              PROVE  call'[c].at \notin After
          BY <1>0, <5>1 DEF Idle, After
        <5>2. ASSUME NEW place, Move(c, place)
              PROVE  call'[c].at = place /\ call'[c].id = call[c].id /\ call'[c].patch = call[c].patch
          BY <1>0, <3>0, <5>2 DEF Move, Calls
        <5>3. ASSUME NEW place, NEW q, call' = [call EXCEPT ![c].at = place, ![c].seen = q]
              PROVE  call'[c].at = place /\ call'[c].id = call[c].id /\ call'[c].patch = call[c].patch
          BY <1>0, <3>0, <5>3 DEF Calls
        <5>4. CASE Apply(c) \/ RestoreOrList(c)
          <6>1. \E k, q : call' = [call EXCEPT ![c] = [Idle EXCEPT !.at = "stack", !.kind = k, !.patch = q]]
            BY <5>4 DEF Apply, RestoreOrList, BeginCall
          <6>2. call'[c].at = "stack"
            BY <1>0, <6>1 DEF Idle
          <6> QED
            BY <6>2 DEF After
        <5>5. CASE StackLoaded(c) \/ InstallStack(c)
          BY <5>2, <5>5 DEF StackLoaded, InstallStack, After
        <5>6. CASE StoreEntries(c)
          BY <5>2, <5>6 DEF StoreEntries, After, At
        <5>7. CASE ListBackups(c) \/ GitApply(c) \/ GitReverse(c)
          BY <5>1, <5>7 DEF ListBackups, ReadParent, TakeId, GitApply, GitReverse, ReturnCall
        <5>8. CASE LoadStack(c)
          BY <5>1, <5>3, <5>8 DEF LoadStack, ReturnCall, After
        <5>9. CASE ReadEntries(c)
          BY <5>3, <5>9 DEF ReadEntries, After, At
        <5>10. CASE MarshalStack(c)
          BY <5>1, <5>3, <5>10 DEF MarshalStack, ReturnCall, After, At
        <5>13. CASE TruncateStack(c)
          BY <5>1, <5>2, <5>13 DEF TruncateStack, ReturnCall, After, At
        <5>14. CASE ReadParent(c) \/ TakeId(c)
          BY <1>0, <3>0, <5>14 DEF ReadParent, TakeId, After, Calls
        <5>11. CASE SaveStack(c)
          BY <5>1, <5>2, <5>11 DEF SaveStack, ReturnCall, After, At
        <5>12. CASE ReadBackup(c)
          BY <1>0, <3>0, <5>1, <5>12 DEF ReadBackup, ReturnCall, After, Calls
        <5> QED
          BY <3>2, <5>4, <5>5, <5>6, <5>7, <5>8, <5>9, <5>10, <5>11, <5>12, <5>13, <5>14 DEF
             CallerStep
      <4> QED
        BY <2>0, <2>2, <4>1
    <3> QED
      BY <3>1, <3>2
  <2> QED
    BY <2>1, <2>2
<1>6. worktree' \subseteq {files'[i] : i \in Ids}
  <2>1. \A q \in Patches : q \in {files[i] : i \in Ids} => q \in {files'[i] : i \in Ids}
    BY <1>0
  <2>2. worktree' \subseteq worktree \/ (call[c].at = "git" /\ worktree' = worktree \cup {call[c].patch})
    BY DEF CallerStep, Apply, RestoreOrList, BeginCall, StackLoaded, LoadStack, InstallStack,
       ListBackups, ReadParent, TakeId, WriteBackup, ReadEntries, StoreEntries, MarshalStack,
       TruncateStack, SaveStack, GitApply, ReadBackup, GitReverse, shared, At
  <2>3. call[c].at = "git" => call[c].patch \in Patches /\ call[c].patch \in {files[i] : i \in Ids}
    <3>1. call[c].at = "git" => call[c].id \in Ids /\ files[call[c].id] = call[c].patch
                                /\ call[c].patch \in Patches
      BY DEF BackupInv, CallInv, CopyInv, After
    <3> QED
      BY <3>1
  <2>4. worktree \subseteq {files[i] : i \in Ids}
    BY DEF CopyInv
  <2> QED
    BY <1>0, <2>1, <2>2, <2>3, <2>4
(* A call that comes to copy has an id of its own, later than every other.  *)
<1>7. ASSUME NEW d \in Callers, call'[d].at = "copy"
      PROVE  \/ d = c /\ call'[d].id = clock' /\ clock' = clock + 1 /\ files' = files
             \/ d # c /\ call[d].at = "copy" /\ call'[d].id = call[d].id
  <2>1. CASE d # c
    BY <1>7, <2>1, OthersKeep
  <2>2. CASE d = c
    BY <1>7, <2>2, ComesToCopy
  <2> QED
    BY <2>1, <2>2
<1>8. \A d \in Callers : call[d].at = "copy" => call[d].id \in Ids /\ call[d].id <= clock /\ clock \in Nat
  BY Constants DEF BackupInv, BackupTypeOK, CallInv
<1>9. \A d \in Callers : call'[d].at = "copy" => files'[call'[d].id] = None
  <2> SUFFICES ASSUME NEW d \in Callers, call'[d].at = "copy"
               PROVE  files'[call'[d].id] = None
    OBVIOUS
  <2>1. CASE d = c
    <3>1. call'[c].id = clock' /\ clock' = clock + 1 /\ files' = files
      BY <1>7, <2>1
    <3>2. clock' \in Ids /\ clock' > clock
      BY <3>1, TypeStep, Constants DEF BackupInv, BackupTypeOK, Ids
    <3> QED
      BY <2>1, <3>1, <3>2 DEF CopyInv
  <2>2. CASE d # c
    <3>1. call[d].at = "copy" /\ call'[d].id = call[d].id /\ call[d].id \in Ids /\ files[call[d].id] = None
      BY <1>7, <1>8, <2>2 DEF CopyInv
    <3>2. CASE files' = files
      BY <3>1, <3>2
    <3>3. CASE call[c].at = "copy" /\ files' = [files EXCEPT ![call[c].id] = call[c].patch]
      <4>1. call[c].id # call[d].id
        BY <2>2, <3>1, <3>3 DEF CopyInv
      <4> QED
        BY <1>0, <3>1, <3>3, <4>1
    <3> QED
      BY <3>2, <3>3, FilesStep
  <2> QED
    BY <2>1, <2>2
<1>10. \A d, e \in Callers :
         d # e /\ call'[d].at = "copy" /\ call'[e].at = "copy" => call'[d].id # call'[e].id
  BY <1>7, <1>8 DEF CopyInv
<1> QED
  BY <1>1, <1>2, <1>3, <1>4, <1>5, <1>6, <1>9, <1>10 DEF CopyInv

LEMMA CopyInvHolds == BackupSpec => []CopyInv
<1>1. BackupInit => CopyInv
  <2> SUFFICES ASSUME BackupInit
               PROVE  CopyInv
    OBVIOUS
  <2>1. /\ \A c \in Callers : call[c] = Idle
        /\ worktree = {} /\ stack = Nil /\ stackFile = <<>> /\ \A i \in Ids : files[i] = None
    BY DEF BackupInit
  <2>2. Copied(<<>>)
    BY DEF Copied
  <2> QED
    BY <2>1, <2>2 DEF CopyInv, Idle, After
<1>2. BackupInv /\ CopyInv /\ [BackupNext]_backupVars => CopyInv'
  <2> SUFFICES ASSUME BackupInv, CopyInv, [BackupNext]_backupVars
               PROVE  CopyInv'
    OBVIOUS
  <2>1. CASE Crash
    <3>1. \A c \in Callers : call'[c] = Idle
      BY <2>1, CrashStep
    <3>2. stack' = Nil /\ UNCHANGED <<worktree, files, stackFile, clock>>
      BY <2>1 DEF Crash
    <3> QED
      BY <3>1, <3>2 DEF CopyInv, Copied, Idle, After
  <2>2. CASE UNCHANGED backupVars
    BY <2>2 DEF backupVars, shared, CopyInv, Copied
  <2> QED
    BY <2>1, <2>2, CopyStep, NextIsAStep
<1> QED
  BY <1>1, <1>2, BackupInvHolds, PTL DEF BackupSpec

(* A patch is applied only after its copy was written, in every             *)
(* interleaving of calls and crashes.                                       *)
THEOREM BackupsComeFirst == BackupSpec => []BackedUpFirst
BY CopyInvHolds, PTL DEF CopyInv, BackedUpFirst

(* Every entry of the stack, in memory and on disk, has its copy.           *)
THEOREM EntriesKeepCopies == BackupSpec => []EntriesHaveCopies
<1>1. BackupInv /\ CopyInv => EntriesHaveCopies
  <2> SUFFICES ASSUME BackupInv, CopyInv
               PROVE  EntriesHaveCopies
    OBVIOUS
  <2>1. ASSUME NEW s \in Seq(Entries), Copied(s)
        PROVE  None \notin Listed(s)
    <3>1. DOMAIN s = 1..Len(s)
      OBVIOUS
    <3> QED
      BY <2>1, <3>1 DEF Listed, Copied
  <2>2. OnDisk \in Seq(Entries) /\ Copied(OnDisk)
    BY Constants DEF OnDisk, BackupInv, BackupTypeOK, CopyInv, Copied
  <2>3. InMemory \in Seq(Entries) /\ Copied(InMemory)
    BY Constants DEF InMemory, BackupInv, BackupTypeOK, CopyInv, Copied
  <2> QED
    BY <2>1, <2>2, <2>3 DEF EntriesHaveCopies
<1> QED
  BY <1>1, BackupInvHolds, CopyInvHolds, PTL

(* Every id that a backup list names has a copy.                            *)
ListedIds == IdsOf(OnDisk) \cup IdsOf(InMemory)

LEMMA ListedAreWritten == BackupInv /\ CopyInv => ListedIds \subseteq Log!Written
<1> SUFFICES ASSUME BackupInv, CopyInv
             PROVE  ListedIds \subseteq Log!Written
  OBVIOUS
<1>1. ASSUME NEW s \in Seq(Entries), Copied(s)
      PROVE  IdsOf(s) \subseteq Log!Written
  <2> SUFFICES ASSUME NEW i \in DOMAIN s
               PROVE  s[i].id \in Log!Written
    BY DEF IdsOf
  <2>1. s[i] \in Entries /\ i \in 1..Len(s)
    OBVIOUS
  <2>2. s[i].id \in Ids /\ files[s[i].id] # None
    BY <1>1, <2>1 DEF Entries, Copied
  <2> QED
    BY <2>2 DEF Log!Written
<1>2. OnDisk \in Seq(Entries) /\ Copied(OnDisk)
  BY Constants DEF OnDisk, BackupInv, BackupTypeOK, CopyInv, Copied
<1>3. InMemory \in Seq(Entries) /\ Copied(InMemory)
  BY Constants DEF InMemory, BackupInv, BackupTypeOK, CopyInv, Copied
<1> QED
  BY <1>1, <1>2, <1>3 DEF ListedIds

(* A copy is a step of the log, and so is git's part of a call; every other *)
(* step only changes what is listed.                                        *)
LEMMA CopyLogs ==
    ASSUME BackupInv, CopyInv, NEW c \in Callers, WriteBackup(c)
    PROVE  [Log!Next]_<<files, worktree, ListedIds>>
<1>1. UNCHANGED <<worktree, stackFile, stack>>
  BY DEF WriteBackup
<1>2. UNCHANGED ListedIds
  BY <1>1 DEF ListedIds, IdsOf, OnDisk, InMemory
<1>3. CASE files' = files
  BY <1>1, <1>2, <1>3
<1>4. CASE files' # files
  <2>1. call[c].at = "copy" /\ files' = [files EXCEPT ![call[c].id] = call[c].patch]
    BY <1>4 DEF WriteBackup, WithCopy, At
  <2>2. call[c].id \in Ids /\ call[c].patch \in Patches /\ files[call[c].id] = None
    BY <2>1 DEF BackupInv, CallInv, CopyInv
  <2>3. Log!Copy
    BY <1>1, <1>2, <2>1, <2>2 DEF Log!Copy, ListedIds
  <2> QED
    BY <2>3 DEF Log!Next
<1> QED
  BY <1>3, <1>4

LEMMA GitLogs ==
    ASSUME BackupInv, CopyInv, NEW c \in Callers, GitApply(c) \/ GitReverse(c)
    PROVE  [Log!Next]_<<files, worktree, ListedIds>>
<1>1. UNCHANGED <<files, stackFile, stack>>
  BY DEF GitApply, GitReverse
<1>2. UNCHANGED ListedIds
  BY <1>1 DEF ListedIds, IdsOf, OnDisk, InMemory
<1>3. \A patch \in worktree : \E i \in Log!Written : files[i] = patch
  BY Constants DEF BackupInv, BackupTypeOK, CopyInv, Log!Written
<1>4. CASE GitApply(c)
  <2>1. /\ call[c].at = "git"
        /\ \/ call[c].patch \notin worktree /\ worktree' = worktree \cup {call[c].patch}
           \/ UNCHANGED worktree
    BY <1>4 DEF GitApply, At
  <2>2. /\ call[c].id \in Ids /\ files[call[c].id] = call[c].patch /\ call[c].patch \in Patches
    BY <2>1 DEF BackupInv, CallInv, CopyInv, After
  <2>3. call[c].id \in Log!Written
    BY <2>2, Constants DEF Log!Written
  <2> QED
    BY <1>1, <1>2, <2>1, <2>2, <2>3 DEF Log!Next, Log!Apply, ListedIds
<1>5. CASE GitReverse(c)
  <2>1. \/ call[c].patch \in worktree /\ worktree' = worktree \ {call[c].patch}
        \/ UNCHANGED worktree
    BY <1>5 DEF GitReverse
  <2> QED
    BY <1>1, <1>2, <1>3, <2>1 DEF Log!Next, Log!Revert, ListedIds
<1> QED
  BY <1>4, <1>5

LEMMA OthersList ==
    ASSUME BackupInv', CopyInv', UNCHANGED <<files, worktree>>, ListedIds' \subseteq Log!Written'
    PROVE  [Log!Next]_<<files, worktree, ListedIds>>
<1>1. Log!Written' = Log!Written
  BY DEF Log!Written
<1> QED
  BY <1>1 DEF Log!Next, Log!List, ListedIds

(* The backups implement the log: nothing that interleaves, fails or dies   *)
(* applies a patch before its copy, changes or reuses a copy, or lists what *)
(* was not copied.                                                          *)
THEOREM BackupsAreALog == BackupSpec => ImplementsLog
<1> DEFINE Listing == ListedIds \subseteq Log!Written
<1>1. BackupInit => Log!Init
  <2> SUFFICES ASSUME BackupInit
               PROVE  Log!Init
    OBVIOUS
  <2>1. files = [i \in Ids |-> None] /\ worktree = {} /\ stackFile = <<>> /\ stack = Nil
    BY DEF BackupInit
  <2>2. OnDisk = <<>> /\ InMemory = <<>>
    BY <2>1 DEF OnDisk, InMemory
  <2>3. IdsOf(<<>>) = {}
    BY DEF IdsOf
  <2> QED
    BY <2>1, <2>2, <2>3 DEF Log!Init
<1>2. BackupSpec => [](BackupInv /\ CopyInv /\ Listing)
  BY BackupInvHolds, CopyInvHolds, ListedAreWritten, PTL
<1>3. /\ BackupInv /\ CopyInv /\ Listing
      /\ BackupInv' /\ CopyInv' /\ Listing'
      /\ [BackupNext]_backupVars
      => [Log!Next]_<<files, worktree, ListedIds>>
  <2> SUFFICES ASSUME BackupInv, CopyInv, BackupInv', CopyInv', Listing', [BackupNext]_backupVars
               PROVE  [Log!Next]_<<files, worktree, ListedIds>>
    OBVIOUS
  <2>1. CASE UNCHANGED <<files, worktree>>
    BY <2>1, OthersList
  <2>2. ASSUME NEW c \in Callers, CallerStep(c)
        PROVE  \/ UNCHANGED <<files, worktree>>
               \/ WriteBackup(c) \/ GitApply(c) \/ GitReverse(c)
    BY <2>2 DEF CallerStep, Apply, RestoreOrList, BeginCall, StackLoaded, LoadStack, InstallStack,
       ListBackups, ReadParent, TakeId, ReadEntries, StoreEntries, MarshalStack, TruncateStack,
       SaveStack, ReadBackup, shared
  <2>3. Crash \/ UNCHANGED backupVars => UNCHANGED <<files, worktree>>
    BY DEF Crash, backupVars, shared
  <2> QED
    BY <2>1, <2>2, <2>3, CopyLogs, GitLogs, NextIsAStep
<1> HIDE DEF Listing
<1>4. BackupSpec => [][Log!Next]_<<files, worktree, ListedIds>>
  BY <1>2, <1>3, PTL DEF BackupSpec
<1> QED
  BY <1>1, <1>4, PTL DEF BackupSpec, ImplementsLog, Log!Spec, Log!logVars, ListedIds
-----------------------------------------------------------------------------
(* A call in progress was permitted under the configuration of this daemon, *)
(* and without permission to run git the stack is never loaded.             *)
PermInv ==
    /\ \A c \in Callers :
         /\ call[c].at # "idle" => AllowExec
         /\ call[c].at # "idle" /\ call[c].kind # "list" => ~DryRunOnly
    /\ ~AllowExec => stack = Nil

(* What a step may change at all.                                           *)
LEMMA WhoWrites ==
    ASSUME NEW c \in Callers, CallerStep(c)
    PROVE  /\ config' = config
           /\ \/ UNCHANGED <<worktree, files, stackFile>>
              \/ call[c].at \in {"copy", "open", "saving", "git", "reverse"}
           /\ UNCHANGED shared \/ call[c].at # "idle" \/ AllowExec
           /\ stack' = stack \/ call[c].at # "idle"
<1>1. CASE Apply(c) \/ RestoreOrList(c)
  BY <1>1 DEF Apply, RestoreOrList, BeginCall, MayRun
<1>2. CASE StackLoaded(c) \/ LoadStack(c) \/ InstallStack(c) \/ ListBackups(c) \/ ReadParent(c)
           \/ TakeId(c) \/ WriteBackup(c) \/ ReadEntries(c) \/ StoreEntries(c)
  BY <1>2 DEF StackLoaded, LoadStack, InstallStack, ListBackups, ReadParent, TakeId, WriteBackup,
     ReadEntries, StoreEntries, At, shared
<1>3. CASE MarshalStack(c) \/ TruncateStack(c) \/ SaveStack(c) \/ GitApply(c) \/ ReadBackup(c)
           \/ GitReverse(c)
  BY <1>3 DEF MarshalStack, TruncateStack, SaveStack, GitApply, ReadBackup, GitReverse, At, shared
<1> QED
  BY <1>1, <1>2, <1>3 DEF CallerStep

(* A call begins only with permission, and keeps its kind.                  *)
LEMMA Permitted ==
    ASSUME BackupInv, NEW c \in Callers, CallerStep(c), call'[c].at # "idle"
    PROVE  \/ call[c].at # "idle" /\ call'[c].kind = call[c].kind
           \/ AllowExec /\ (call'[c].kind # "list" => ~DryRunOnly)
<1>0. call \in [Callers -> Calls] /\ call[c] \in Calls
  BY DEF BackupInv, BackupTypeOK
<1>1. ASSUME call' = [call EXCEPT ![c] = Idle]
      PROVE  FALSE
  BY <1>0, <1>1 DEF Idle
<1>2. ASSUME NEW place, Move(c, place)
      PROVE  call'[c].kind = call[c].kind
  BY <1>0, <1>2 DEF Move, Calls
<1>3. ASSUME NEW place, NEW q, call' = [call EXCEPT ![c].at = place, ![c].seen = q]
      PROVE  call'[c].kind = call[c].kind
  BY <1>0, <1>3 DEF Calls
<1>4. CASE Apply(c)
  BY <1>4 DEF Apply, MayRun, IsDry
<1>5. CASE RestoreOrList(c)
  <2>1. PICK k \in {"restore", "list"} : MayRun(k, "absent") /\ BeginCall(c, k, None)
    BY <1>5 DEF RestoreOrList
  <2>2. call'[c].kind = k
    BY <1>0, <2>1 DEF BeginCall, Idle
  <2> QED
    BY <2>1, <2>2 DEF MayRun
<1>6. CASE StackLoaded(c) \/ InstallStack(c) \/ StoreEntries(c)
  BY <1>2, <1>6 DEF StackLoaded, InstallStack, StoreEntries, At
<1>7. CASE ListBackups(c) \/ GitApply(c) \/ GitReverse(c)
  BY <1>1, <1>7 DEF ListBackups, ReadParent, TakeId, GitApply, GitReverse, ReturnCall
<1>8. CASE LoadStack(c)
  BY <1>1, <1>3, <1>8 DEF LoadStack, ReturnCall, At
<1>9. CASE WriteBackup(c)
  BY <1>1, <1>2, <1>9 DEF WriteBackup, ReturnCall, At
<1>10. CASE ReadEntries(c)
  BY <1>3, <1>10 DEF ReadEntries, At
<1>11. CASE MarshalStack(c)
  BY <1>1, <1>3, <1>11 DEF MarshalStack, ReturnCall, At
<1>14. CASE TruncateStack(c)
  BY <1>1, <1>2, <1>14 DEF TruncateStack, ReturnCall, At
<1>15. CASE ReadParent(c) \/ TakeId(c)
  BY <1>0, <1>15 DEF ReadParent, TakeId, At, Calls
<1>12. CASE SaveStack(c)
  BY <1>1, <1>2, <1>12 DEF SaveStack, ReturnCall, At
<1>13. CASE ReadBackup(c)
  BY <1>0, <1>1, <1>13 DEF ReadBackup, ReturnCall, At, Calls
<1> QED
  BY <1>4, <1>5, <1>6, <1>7, <1>8, <1>9, <1>10, <1>11, <1>12, <1>13, <1>14, <1>15 DEF CallerStep

LEMMA PermInvHolds == BackupSpec => []PermInv
<1>1. BackupInit => PermInv
  <2> SUFFICES ASSUME BackupInit
               PROVE  PermInv
    OBVIOUS
  <2>1. stack = Nil /\ \A c \in Callers : call[c].at = "idle"
    BY DEF BackupInit, Idle
  <2> QED
    BY <2>1 DEF PermInv
<1>2. BackupInv /\ PermInv /\ [BackupNext]_backupVars => PermInv'
  <2> SUFFICES ASSUME BackupInv, PermInv, [BackupNext]_backupVars
               PROVE  PermInv'
    OBVIOUS
  <2>1. ASSUME NEW c \in Callers, CallerStep(c)
        PROVE  PermInv'
    <3>1. config' = config /\ (AllowExec' <=> AllowExec) /\ (DryRunOnly' <=> DryRunOnly)
      BY <2>1, WhoWrites DEF AllowExec, DryRunOnly
    <3>2. ASSUME NEW d \in Callers, call'[d].at # "idle"
          PROVE  AllowExec /\ (call'[d].kind # "list" => ~DryRunOnly)
      <4>1. CASE d = c
        BY <2>1, <3>2, <4>1, Permitted DEF PermInv
      <4>2. CASE d # c
        BY <2>1, <3>2, <4>2, OthersKeep DEF PermInv
      <4> QED
        BY <4>1, <4>2
    <3>3. ~AllowExec => stack' = Nil
      BY <2>1, WhoWrites DEF PermInv
    <3> QED
      BY <3>1, <3>2, <3>3 DEF PermInv
  <2>2. CASE Crash
    <3>1. stack' = Nil /\ \A c \in Callers : call'[c].at = "idle"
      BY <2>2, CrashStep DEF Crash, Idle
    <3> QED
      BY <3>1 DEF PermInv
  <2>3. CASE UNCHANGED backupVars
    BY <2>3 DEF backupVars, shared, PermInv, AllowExec, DryRunOnly
  <2> QED
    BY <2>1, <2>2, <2>3, NextIsAStep
<1> QED
  BY <1>1, <1>2, BackupInvHolds, PTL DEF BackupSpec

(* A daemon that may not write leaves the tree, the copies and the stack on *)
(* disk alone, and one that may not run git leaves everything alone.        *)
THEOREM ReadOnlyIsReadOnly == BackupSpec => ReadOnlyTouchesNothing
<1>1. BackupInv /\ PermInv /\ [BackupNext]_backupVars
        => [ /\ ~WritesAllowed => UNCHANGED <<worktree, files, stackFile>>
             /\ ~(config.enabled /\ config.allowGit) => UNCHANGED shared ]_backupVars
  <2> SUFFICES ASSUME BackupInv, PermInv, [BackupNext]_backupVars
               PROVE  \/ /\ ~WritesAllowed => UNCHANGED <<worktree, files, stackFile>>
                         /\ ~(config.enabled /\ config.allowGit) => UNCHANGED shared
                      \/ UNCHANGED backupVars
    OBVIOUS
  <2>0. (AllowExec <=> config.enabled /\ config.allowGit) /\ (WritesAllowed <=> ~DryRunOnly)
    BY DEF AllowExec, WritesAllowed, DryRunOnly
  <2>1. ASSUME NEW c \in Callers, CallerStep(c)
        PROVE  /\ ~WritesAllowed => UNCHANGED <<worktree, files, stackFile>>
               /\ ~AllowExec => UNCHANGED shared
    <3>1. call[c].at \in {"copy", "open", "saving", "git", "reverse"} => call[c].kind # "list"
      BY DEF BackupInv, CallInv
    <3> QED
      BY <2>0, <2>1, <3>1, WhoWrites DEF PermInv
  <2>2. ASSUME Crash
        PROVE  UNCHANGED <<worktree, files, stackFile>> /\ (~AllowExec => UNCHANGED shared)
    BY <2>2 DEF Crash, PermInv, shared
  <2> QED
    BY <2>0, <2>1, <2>2, NextIsAStep
<1> QED
  BY <1>1, BackupInvHolds, PermInvHolds, PTL DEF BackupSpec, ReadOnlyTouchesNothing

-----------------------------------------------------------------------------
(* Before the stack is loaded no call has got past the load, and none has   *)
(* read a file that is torn.                                                *)
LoadInv ==
    stack = Nil => /\ \A c \in Callers : call[c].at \in {"idle", "stack", "load"}
                   /\ stackFile = Torn => \A c \in Callers : call[c].at # "load"

LEMMA LoadStep ==
    ASSUME BackupInv, LoadInv, NEW c \in Callers, CallerStep(c)
    PROVE  /\ LoadInv'
           /\ stackFile = Torn /\ stack = Nil => stack' = Nil /\ UNCHANGED <<worktree, files, stackFile>>
<1>0. call \in [Callers -> Calls] /\ call[c] \in Calls /\ call[c].seen \in Seq(Entries)
  <2>1. call \in [Callers -> Calls] /\ call[c] \in Calls
    BY DEF BackupInv, BackupTypeOK
  <2> QED
    BY <2>1 DEF Calls
<1>1. CASE stack # Nil
  BY <1>1, OthersKeep DEF LoadInv
<1>2. CASE stack = Nil
  <2>1. call[c].at \in {"idle", "stack", "load"}
    BY <1>2 DEF LoadInv
  <2>2. \/ Apply(c) \/ RestoreOrList(c) \/ LoadStack(c)
        \/ InstallStack(c) /\ call[c].at = "load"
    BY <1>2, <2>1 DEF CallerStep, StackLoaded, InstallStack, ListBackups, ReadParent, TakeId,
       WriteBackup, ReadEntries, StoreEntries, MarshalStack, TruncateStack, SaveStack, GitApply,
       ReadBackup, GitReverse, At
  <2>3. \A d \in Callers \ {c} : call'[d] = call[d]
    BY OthersKeep
  <2>4. CASE Apply(c) \/ RestoreOrList(c)
    <3>1. \E k, q : call' = [call EXCEPT ![c] = [Idle EXCEPT !.at = "stack", !.kind = k, !.patch = q]]
      BY <2>4 DEF Apply, RestoreOrList, BeginCall
    <3>2. call'[c].at = "stack"
      BY <1>0, <3>1 DEF Idle
    <3>3. UNCHANGED <<worktree, files, stackFile, stack>>
      BY <2>4 DEF Apply, RestoreOrList, BeginCall
    <3> QED
      BY <2>3, <3>2, <3>3 DEF LoadInv
  <2>5. CASE LoadStack(c)
    <3>1. call'[c].at = "idle" \/ (call'[c].at = "load" /\ stackFile # Torn)
      BY <1>0, <2>5 DEF LoadStack, ReturnCall, Idle, Calls
    <3>2. UNCHANGED <<worktree, files, stackFile, stack>>
      BY <2>5 DEF LoadStack, shared
    <3> QED
      BY <2>3, <3>1, <3>2 DEF LoadInv
  <2>6. CASE InstallStack(c) /\ call[c].at = "load"
    <3>1. stack' # Nil
      BY <1>0, <2>6, Constants DEF InstallStack
    <3>2. stackFile # Torn
      BY <1>2, <2>6 DEF LoadInv
    <3> QED
      BY <3>1, <3>2 DEF LoadInv
  <2> QED
    BY <2>2, <2>4, <2>5, <2>6
<1> QED
  BY <1>1, <1>2

(* Once the daemon starts on a torn stack.json, nothing is applied,         *)
(* reverted or backed up any more.                                          *)
THEOREM TornStackIsFinal == BackupSpec => TornStackStopsAll
<1>1. BackupInit => LoadInv
  <2> SUFFICES ASSUME BackupInit
               PROVE  LoadInv
    OBVIOUS
  <2>1. \A c \in Callers : call[c].at = "idle"
    BY DEF BackupInit, Idle
  <2> QED
    BY <2>1 DEF LoadInv
<1>2. BackupInv /\ LoadInv /\ [BackupNext]_backupVars => LoadInv'
  <2> SUFFICES ASSUME BackupInv, LoadInv, [BackupNext]_backupVars
               PROVE  LoadInv'
    OBVIOUS
  <2>1. CASE Crash
    <3>1. \A c \in Callers : call'[c].at = "idle"
      BY <2>1, CrashStep DEF Idle
    <3> QED
      BY <3>1 DEF LoadInv
  <2>2. CASE UNCHANGED backupVars
    BY <2>2 DEF backupVars, shared, LoadInv
  <2> QED
    BY <2>1, <2>2, LoadStep, NextIsAStep
<1>3. BackupInv /\ LoadInv /\ [BackupNext]_backupVars
        => [stackFile = Torn /\ stack = Nil =>
              stack' = Nil /\ UNCHANGED <<worktree, files, stackFile>>]_backupVars
  <2> SUFFICES ASSUME BackupInv, LoadInv, [BackupNext]_backupVars, stackFile = Torn, stack = Nil
               PROVE  (stack' = Nil /\ UNCHANGED <<worktree, files, stackFile>>) \/ UNCHANGED backupVars
    OBVIOUS
  <2>1. CASE Crash
    BY <2>1 DEF Crash
  <2> QED
    BY <2>1, LoadStep, NextIsAStep
<1> QED
  BY <1>1, <1>2, <1>3, BackupInvHolds, PTL DEF BackupSpec, TornStackStopsAll

-----------------------------------------------------------------------------
(* Until a call begins during another one, calls come one at a time: the    *)
(* list that a call has read is the list that it goes on from.              *)
Solo == ~raced => \A c, d \in Callers : ~At(c, "idle") /\ ~At(d, "idle") => c = d

LEMMA SoloStep == BackupInv /\ Solo /\ [BackupNext]_backupVars => Solo' /\ (~raced' => ~raced)
<1> SUFFICES ASSUME BackupInv, Solo, [BackupNext]_backupVars
             PROVE  Solo' /\ (~raced' => ~raced)
  OBVIOUS
<1>1. ASSUME NEW c \in Callers, CallerStep(c), ~raced'
      PROVE  ~raced /\ \A a, b \in Callers : ~At(a, "idle")' /\ ~At(b, "idle")' => a = b
  <2>0. \A d \in Callers \ {c} : call'[d] = call[d]
    BY <1>1, OthersKeep
  <2>1. CASE Apply(c) \/ RestoreOrList(c)
    <3>1. raced' = (raced \/ \E d \in Callers : ~At(d, "idle"))
      BY <2>1 DEF Apply, RestoreOrList, BeginCall
    <3>2. ~raced /\ \A d \in Callers : At(d, "idle")
      BY <1>1, <3>1
    <3> QED
      BY <2>0, <3>2 DEF At
  <2>2. CASE ~(Apply(c) \/ RestoreOrList(c))
    <3>1. raced' = raced /\ call[c].at # "idle"
      BY <1>1, <2>2 DEF CallerStep, StackLoaded, LoadStack, InstallStack, ListBackups, ReadParent,
         TakeId, WriteBackup, ReadEntries, StoreEntries, MarshalStack, TruncateStack, SaveStack,
         GitApply, ReadBackup, GitReverse, At, shared
    <3>2. ~raced
      BY <1>1, <3>1
    <3> QED
      BY <2>0, <3>1, <3>2 DEF Solo, At
  <2> QED
    BY <2>1, <2>2
<1>2. CASE Crash
  <2>1. \A c \in Callers : call'[c].at = "idle"
    BY <1>2, CrashStep DEF Idle
  <2>2. raced' = raced
    BY <1>2 DEF Crash
  <2> QED
    BY <2>1, <2>2 DEF Solo, At
<1>3. CASE UNCHANGED backupVars
  BY <1>3 DEF backupVars, shared, Solo, At
<1> QED
  BY <1>1, <1>2, <1>3, NextIsAStep DEF Solo

(* While calls come one at a time every list is a chain.                    *)
Chain(s) == \A i \in 1..Len(s) : s[i].parent = IF i = 1 THEN 0 ELSE s[i - 1].id

ChainInv ==
    ~raced => /\ stackFile # Torn => Chain(stackFile)
              /\ stack # Nil => Chain(stack)
              /\ \A c \in Callers : Chain(call[c].seen)
              /\ \A c \in Callers :
                   call[c].at \in {"parent", "copy", "append"} => call[c].parent = Latest(stack)

LEMMA ChainGrows ==
    ASSUME NEW s \in Seq(Entries), Chain(s), NEW e \in Entries, e.parent = Latest(s)
    PROVE  Chain(Append(s, e))
<1> DEFINE t == Append(s, e)
<1>1. /\ Len(s) \in Nat /\ Len(t) = Len(s) + 1 /\ t[Len(s) + 1] = e
      /\ \A i \in 1..Len(s) : t[i] = s[i]
  OBVIOUS
<1>2. ASSUME NEW i \in 1..Len(t)
      PROVE  t[i].parent = IF i = 1 THEN 0 ELSE t[i - 1].id
  <2>1. CASE i \in 1..Len(s)
    <3>1. i # 1 => i - 1 \in 1..Len(s)
      BY <1>1, <2>1
    <3> QED
      BY <1>1, <2>1, <3>1 DEF Chain
  <2>2. CASE i = Len(s) + 1
    <3>1. CASE s = <<>>
      BY <1>1, <2>2, <3>1 DEF Latest
    <3>2. CASE s # <<>>
      <4>1. Len(s) >= 1 /\ Len(s) \in 1..Len(s) /\ i - 1 = Len(s) /\ i # 1
        BY <1>1, <2>2, <3>2
      <4>2. Latest(s) = s[Len(s)].id
        BY <3>2 DEF Latest, Last
      <4> QED
        BY <1>1, <2>2, <4>1, <4>2
    <3> QED
      BY <3>1, <3>2
  <2> QED
    BY <1>1, <2>1, <2>2
<1> HIDE DEF t
<1>3. Chain(t)
  BY <1>2 DEF Chain
<1> QED
  BY <1>3 DEF t

LEMMA ChainStep ==
    ASSUME BackupInv, Solo, ChainInv, NEW c \in Callers, CallerStep(c), ~raced, ~raced', Solo'
    PROVE  ChainInv'
<1>0. /\ call \in [Callers -> Calls] /\ call[c] \in Calls /\ CallInv(c)
      /\ stack # Nil => stack \in Seq(Entries) /\ Chain(stack)
      /\ stackFile # Torn => Chain(stackFile)
      /\ Chain(call[c].seen)
      /\ \A d \in Callers \ {c} : call'[d] = call[d]
  BY OthersKeep DEF BackupInv, BackupTypeOK, ChainInv
<1>1. stackFile' \in {stackFile, Torn, call[c].seen}
  BY DEF CallerStep, Apply, RestoreOrList, BeginCall, StackLoaded, LoadStack, InstallStack,
     ListBackups, ReadParent, TakeId, WriteBackup, ReadEntries, StoreEntries, MarshalStack,
     TruncateStack, SaveStack, GitApply, ReadBackup, GitReverse, shared
<1>2. stack' \in {stack, call[c].seen}
  BY DEF CallerStep, Apply, RestoreOrList, BeginCall, StackLoaded, LoadStack, InstallStack,
     ListBackups, ReadParent, TakeId, WriteBackup, ReadEntries, StoreEntries, MarshalStack,
     TruncateStack, SaveStack, GitApply, ReadBackup, GitReverse, shared
<1>3. stackFile' # Torn => Chain(stackFile')
  BY <1>0, <1>1
<1>4. stack' # Nil => Chain(stack')
  BY <1>0, <1>2
<1>5. Chain(call'[c].seen)
  <2>1. Chain(<<>>)
    BY DEF Chain
  <2>2. ASSUME stack # Nil, At(c, "append")
        PROVE  Chain(Push(c))
    <3>1. NewEntry(c) \in Entries /\ NewEntry(c).parent = Latest(stack)
      BY <1>0, <2>2 DEF NewEntry, Entries, Calls, CallInv, At, ChainInv
    <3> QED
      BY <1>0, <2>2, <3>1, ChainGrows DEF Push
  <2> QED
    BY <1>0, <2>1, <2>2, SeenStep
<1>6. ASSUME NEW d \in Callers, call'[d].at \in {"parent", "copy", "append"}
      PROVE  call'[d].parent = Latest(stack)'
  <2>1. CASE d # c
    <3>1. ~At(d, "idle") /\ call[d].at \in {"parent", "copy", "append"}
      BY <1>0, <1>6, <2>1 DEF At
    <3>2. At(c, "idle")
      BY <2>1, <3>1 DEF Solo
    <3>3. stack' = stack /\ Latest(stack)' = Latest(stack)
      BY <3>2, WhoWrites DEF At, Latest
    <3> QED
      BY <1>0, <2>1, <3>1, <3>3 DEF ChainInv
  <2>2. CASE d = c
    <3>1. ASSUME NEW place, Move(c, place)
          PROVE  call'[c].at = place
      BY <1>0, <3>1 DEF Move
    <3>0. ASSUME call' = [call EXCEPT ![c] = Idle]
          PROVE  FALSE
      BY <1>0, <1>6, <2>2, <3>0 DEF Idle
    <3>2. CASE ReadParent(c)
      <4>1. call'[c].parent = Latest(stack) /\ stack' = stack
        BY <1>0, <3>2 DEF ReadParent, Calls, shared
      <4> QED
        BY <2>2, <4>1 DEF Latest
    <3>3. CASE TakeId(c) \/ WriteBackup(c)
      <4>1. call'[c].parent = call[c].parent /\ stack' = stack /\ call[c].at \in {"parent", "copy"}
        BY <1>0, <3>0, <3>3 DEF TakeId, WriteBackup, Move, ReturnCall, At, Calls
      <4> QED
        BY <2>2, <4>1 DEF ChainInv, Latest
    <3>4. CASE Apply(c) \/ RestoreOrList(c)
      <4>1. \E k, q : call' = [call EXCEPT ![c] = [Idle EXCEPT !.at = "stack", !.kind = k, !.patch = q]]
        BY <3>4 DEF Apply, RestoreOrList, BeginCall
      <4> QED
        BY <1>0, <1>6, <2>2, <4>1 DEF Idle
    <3>5. CASE StackLoaded(c) \/ InstallStack(c) \/ StoreEntries(c) \/ TruncateStack(c) \/ SaveStack(c)
      BY <1>6, <2>2, <3>0, <3>1, <3>5
         DEF StackLoaded, InstallStack, StoreEntries, TruncateStack, SaveStack, ReturnCall
    <3>6. CASE ListBackups(c) \/ GitApply(c) \/ GitReverse(c)
      BY <3>0, <3>6 DEF ListBackups, GitApply, GitReverse, ReturnCall
    <3>7. CASE LoadStack(c) \/ ReadEntries(c) \/ MarshalStack(c) \/ ReadBackup(c)
      BY <1>0, <1>6, <2>2, <3>0, <3>7
         DEF LoadStack, ReadEntries, MarshalStack, ReadBackup, ReturnCall, Calls
    <3> QED
      BY <3>2, <3>3, <3>4, <3>5, <3>6, <3>7 DEF CallerStep
  <2> QED
    BY <2>1, <2>2
<1>7. \A d \in Callers : Chain(call'[d].seen)
  BY <1>0, <1>5 DEF ChainInv
<1> QED
  BY <1>3, <1>4, <1>6, <1>7 DEF ChainInv, Chain

LEMMA SoloHolds == BackupSpec => []Solo
<1>1. BackupInit => Solo
  BY DEF BackupInit, Solo, At, Idle
<1> QED
  BY <1>1, SoloStep, BackupInvHolds, PTL DEF BackupSpec

(* While calls come one at a time the lineage is a chain, over crashes and  *)
(* abandoned backups.                                                       *)
THEOREM LineageHolds == BackupSpec => []LineageIsChain
<1>1. BackupInit => ChainInv
  <2> SUFFICES ASSUME BackupInit
               PROVE  ChainInv
    OBVIOUS
  <2>1. stack = Nil /\ stackFile = <<>> /\ \A c \in Callers : call[c] = Idle
    BY DEF BackupInit
  <2> QED
    BY <2>1 DEF ChainInv, Chain, Idle, At
<1>2. BackupInv /\ Solo /\ Solo' /\ ChainInv /\ [BackupNext]_backupVars => ChainInv'
  <2> SUFFICES ASSUME BackupInv, Solo, Solo', ChainInv, [BackupNext]_backupVars, ~raced'
               PROVE  ChainInv'
    BY DEF ChainInv
  <2>0. ~raced
    BY SoloStep
  <2>1. CASE Crash
    <3>1. stack' = Nil /\ stackFile' = stackFile /\ \A c \in Callers : call'[c] = Idle
      BY <2>1, CrashStep DEF Crash
    <3> QED
      BY <2>0, <3>1 DEF ChainInv, Chain, Idle, At
  <2>2. CASE UNCHANGED backupVars
    BY <2>2 DEF backupVars, shared, ChainInv, Chain, At, Latest
  <2> QED
    BY <2>0, <2>1, <2>2, ChainStep, NextIsAStep
<1>3. BackupInv /\ ChainInv => LineageIsChain
  <2> SUFFICES ASSUME BackupInv, ChainInv, ~raced
               PROVE  IsChain(OnDisk) /\ IsChain(InMemory)
    BY DEF LineageIsChain
  <2>1. ASSUME NEW s \in Seq(Entries), Chain(s)
        PROVE  IsChain(s)
    <3>1. DOMAIN s = 1..Len(s)
      OBVIOUS
    <3> QED
      BY <2>1, <3>1 DEF IsChain, Chain
  <2>2. Chain(<<>>) /\ <<>> \in Seq(Entries)
    BY DEF Chain
  <2>3. OnDisk \in Seq(Entries) /\ Chain(OnDisk)
    BY <2>2 DEF OnDisk, BackupInv, BackupTypeOK, ChainInv
  <2>4. InMemory \in Seq(Entries) /\ Chain(InMemory)
    BY <2>2 DEF InMemory, BackupInv, BackupTypeOK, ChainInv
  <2> QED
    BY <2>1, <2>3, <2>4
<1> QED
  BY <1>1, <1>2, <1>3, BackupInvHolds, SoloHolds, PTL DEF BackupSpec

-----------------------------------------------------------------------------
(* While calls come one at a time, what is applied is on the stack in       *)
(* memory, in the list a call is about to install or to write, and in the   *)
(* file, and the patch that is to be applied is, too.                       *)
Has(copies, entries, q) == \E i \in 1..Len(entries) : copies[entries[i].id] = q

Covers(copies, patches, entries) == \A q \in patches : Has(copies, entries, q)

TrackInv ==
    ~raced =>
      /\ stackFile # Torn => Covers(files, worktree, stackFile)
      /\ stack # Nil => Covers(files, worktree, stack)
      /\ \A c \in Callers :
           /\ call[c].at \in {"load", "appended", "open", "saving"} => Covers(files, worktree, call[c].seen)
           /\ call[c].at \in {"appended", "open", "saving"} => Has(files, call[c].seen, call[c].patch)
           /\ call[c].at \in {"save", "open", "saving", "git"} =>
                stack # Nil /\ Has(files, stack, call[c].patch)
           /\ At(c, "saving") => stackFile = Torn
           /\ At(c, "git") /\ stackFile # Torn => Has(files, stackFile, call[c].patch)

(* Copies are only added, so that what is covered stays covered.            *)
LEMMA HasStays ==
    ASSUME BackupInv, CopyInv, NEW c \in Callers, CallerStep(c),
           NEW s \in Seq(Entries), NEW q \in Patches, Has(files, s, q)
    PROVE  Has(files', s, q)
<1>1. PICK i \in 1..Len(s) : files[s[i].id] = q
  BY DEF Has
<1>2. s[i] \in Entries
  OBVIOUS
<1>3. s[i].id \in Ids /\ q # None
  BY <1>2, Constants DEF Entries
<1>4. files'[s[i].id] = q
  BY <1>1, <1>3, FilesStep
<1> QED
  BY <1>4 DEF Has

(* The steps of the only call in progress, in terms of what it holds.       *)
LEMMA TrackStep ==
    ASSUME BackupInv, CopyInv, Solo, TrackInv, NEW c \in Callers, CallerStep(c), ~raced, ~raced', Solo'
    PROVE  TrackInv'
<1>0. /\ call \in [Callers -> Calls] /\ call[c] \in Calls /\ CallInv(c)
      /\ stack # Nil => stack \in Seq(Entries) /\ Covers(files, worktree, stack)
      /\ stackFile # Torn => stackFile \in Seq(Entries) /\ Covers(files, worktree, stackFile)
      /\ call[c].seen \in Seq(Entries) /\ worktree \subseteq Patches
  <2>1. call[c] \in Calls
    BY DEF BackupInv, BackupTypeOK
  <2>2. call[c].seen \in Seq(Entries)
    BY <2>1 DEF Calls
  <2> QED
    BY <2>2 DEF BackupInv, BackupTypeOK, TrackInv
<1>1. ASSUME NEW s \in Seq(Entries), Covers(files, worktree, s), worktree' \subseteq worktree
      PROVE  Covers(files', worktree', s)
  <2>1. \A q \in worktree' : Has(files', s, q)
    BY <1>0, <1>1, HasStays DEF Covers
  <2> QED
    BY <2>1 DEF Covers
(* The others are idle.                                                     *)
<1>2. ASSUME NEW d \in Callers, d # c
      PROVE  call'[d].at = "idle"
  <2>1. CASE call[c].at # "idle"
    BY <1>2, <2>1, OthersKeep DEF Solo, At
  <2>2. CASE call[c].at = "idle"
    <3>1. Apply(c) \/ RestoreOrList(c)
      BY <2>2 DEF CallerStep, StackLoaded, LoadStack, InstallStack, ListBackups, ReadParent,
         TakeId, WriteBackup, ReadEntries, StoreEntries, MarshalStack, TruncateStack, SaveStack,
         GitApply, ReadBackup, GitReverse, At
    <3>2. raced' = (raced \/ \E e \in Callers : ~At(e, "idle"))
      BY <3>1 DEF Apply, RestoreOrList, BeginCall
    <3>3. call[d].at = "idle"
      BY <3>2 DEF At
    <3> QED
      BY <1>2, <3>3, OthersKeep
  <2> QED
    BY <2>1, <2>2
(* What is to be shown of the call itself.                                  *)
<1> DEFINE CallTracked ==
      /\ call'[c].at \in {"load", "appended", "open", "saving"} =>
           Covers(files', worktree', call'[c].seen)
      /\ call'[c].at \in {"appended", "open", "saving"} => Has(files', call'[c].seen, call'[c].patch)
      /\ call'[c].at \in {"save", "open", "saving", "git"} =>
           stack' # Nil /\ Has(files', stack', call'[c].patch)
      /\ call'[c].at = "saving" => stackFile' = Torn
      /\ call'[c].at = "git" /\ stackFile' # Torn => Has(files', stackFile', call'[c].patch)
<1>3. ASSUME (stackFile # Torn => Covers(files, worktree, stackFile))',
             (stack # Nil => Covers(files, worktree, stack))', CallTracked
      PROVE  TrackInv'
  BY <1>2, <1>3 DEF TrackInv, At, Covers, Has
<1>4. ASSUME worktree' \subseteq worktree, stackFile' = stackFile, stack' = stack
      PROVE  (stackFile # Torn => Covers(files, worktree, stackFile))' /\ (stack # Nil => Covers(files, worktree, stack))'
  BY <1>0, <1>1, <1>4 DEF Covers, Has
<1>5. ASSUME call' = [call EXCEPT ![c] = Idle]
      PROVE  CallTracked
  <2>1. call'[c].at = "idle"
    BY <1>0, <1>5 DEF Idle
  <2> QED
    BY <2>1
<1>6. CASE Apply(c) \/ RestoreOrList(c)
  <2>1. \E k, q : call' = [call EXCEPT ![c] = [Idle EXCEPT !.at = "stack", !.kind = k, !.patch = q]]
    BY <1>6 DEF Apply, RestoreOrList, BeginCall
  <2>2. call'[c].at = "stack"
    BY <1>0, <2>1 DEF Idle
  <2>3. worktree' = worktree /\ stackFile' = stackFile /\ stack' = stack
    BY <1>6 DEF Apply, RestoreOrList, BeginCall
  <2> QED
    BY <1>3, <1>4, <2>2, <2>3
<1>7. CASE StackLoaded(c) \/ ListBackups(c) \/ ReadBackup(c) \/ ReadParent(c) \/ TakeId(c) \/ WriteBackup(c)
  <2>1. worktree' = worktree /\ stackFile' = stackFile /\ stack' = stack
    BY <1>7 DEF StackLoaded, ListBackups, ReadBackup, ReadParent, TakeId, WriteBackup, shared
  <2>2. call' = [call EXCEPT ![c] = Idle] \/ call'[c].at \in {"begun", "reverse", "parent", "copy", "append"}
    BY <1>0, <1>7 DEF StackLoaded, ListBackups, ReadBackup, ReadParent, TakeId, WriteBackup,
       ReturnCall, Move, Calls
  <2> QED
    BY <1>3, <1>4, <1>5, <2>1, <2>2
<1>8. CASE LoadStack(c)
  <2>1. worktree' = worktree /\ stackFile' = stackFile /\ stack' = stack /\ files' = files
    BY <1>8 DEF LoadStack, shared
  <2>2. CASE call' = [call EXCEPT ![c].at = "load", ![c].seen = stackFile] /\ stackFile # Torn
    <3>1. call'[c].at = "load" /\ call'[c].seen = stackFile
      BY <1>0, <2>2 DEF Calls
    <3>2. Covers(files', worktree', stackFile)
      BY <1>0, <1>4, <2>1, <2>2
    <3> QED
      BY <1>3, <1>4, <2>1, <3>1, <3>2 DEF Covers, Has
  <2> QED
    BY <1>3, <1>4, <1>5, <1>8, <2>1, <2>2 DEF LoadStack, ReturnCall
<1>9. CASE InstallStack(c) \/ StoreEntries(c)
  <2>1. /\ worktree' = worktree /\ stackFile' = stackFile /\ files' = files
        /\ stack' = call[c].seen
    BY <1>9 DEF InstallStack, StoreEntries
  <2>2. Covers(files, worktree, call[c].seen) /\ (call[c].at = "appended" => Has(files, call[c].seen, call[c].patch))
    BY <1>9 DEF InstallStack, StoreEntries, TrackInv, At
  <2>3. Covers(files', worktree', call[c].seen) /\ stack' # Nil
    BY <1>0, <1>1, <2>1, <2>2, Constants
  <2>4. /\ stackFile' # Torn => Covers(files', worktree', stackFile')
        /\ stack' # Nil => Covers(files', worktree', stack')
    <3>1. stackFile # Torn => Covers(files, worktree, stackFile)
      BY <1>0
    <3> QED
      BY <2>1, <2>2, <3>1
  <2>5. CASE InstallStack(c)
    <3>1. call'[c].at = "begun"
      BY <1>0, <2>5 DEF InstallStack, Move
    <3> QED
      BY <1>3, <2>4, <3>1
  <2>6. CASE StoreEntries(c)
    <3>1. call'[c].at = "save" /\ call'[c].patch = call[c].patch /\ call[c].at = "appended"
      BY <1>0, <2>6 DEF StoreEntries, Move, At, Calls
    <3>2. call[c].patch \in Patches
      BY <1>0, <3>1 DEF CallInv
    <3>3. Has(files', call[c].seen, call[c].patch)
      BY <1>0, <2>2, <3>1, <3>2, HasStays DEF Has
    <3>4. Has(files', stack', call'[c].patch)
      BY <2>1, <3>1, <3>3 DEF Has
    <3> QED
      BY <1>3, <2>3, <2>4, <3>1, <3>4
  <2> QED
    BY <1>9, <2>5, <2>6
<1>10. CASE ReadEntries(c)
  <2>1. /\ worktree' = worktree /\ stackFile' = stackFile /\ stack' = stack /\ files' = files
        /\ call[c].at = "append" /\ stack # Nil /\ stack \in Seq(Entries)
    BY <1>0, <1>10 DEF ReadEntries, shared, At, CallInv
  <2>2. call'[c].at = "appended" /\ call'[c].seen = Push(c) /\ call'[c].patch = call[c].patch
    BY <1>0, <1>10 DEF ReadEntries, Calls
  <2>3. NewEntry(c) \in Entries /\ files[NewEntry(c).id] = call[c].patch
    BY <1>0, <2>1 DEF NewEntry, Entries, Calls, CallInv, CopyInv, After
  <2>4. /\ Len(Push(c)) = Len(stack) + 1 /\ Len(stack) \in Nat
        /\ \A i \in 1..Len(stack) : Push(c)[i] = stack[i] /\ i \in 1..Len(Push(c))
        /\ Push(c)[Len(stack) + 1] = NewEntry(c)
    BY <2>1, <2>3 DEF Push
  <2>5. Has(files, Push(c), call[c].patch)
    <3>1. Len(stack) + 1 \in 1..Len(Push(c))
      BY <2>4
    <3> QED
      BY <2>3, <2>4, <3>1 DEF Has
  <2>6. Covers(files, worktree, Push(c))
    <3>1. Covers(files, worktree, stack)
      BY <1>0, <2>1
    <3> QED
      BY <2>4, <3>1 DEF Covers, Has
  <2>7. Covers(files', worktree', call'[c].seen) /\ Has(files', call'[c].seen, call'[c].patch)
    BY <2>1, <2>2, <2>5, <2>6 DEF Covers, Has
  <2> QED
    BY <1>3, <1>4, <2>1, <2>2, <2>7
<1>11. CASE MarshalStack(c)
  <2>1. /\ worktree' = worktree /\ stackFile' = stackFile /\ stack' = stack /\ files' = files
        /\ call[c].at = "save" /\ stack # Nil /\ Has(files, stack, call[c].patch) /\ Covers(files, worktree, stack)
    BY <1>0, <1>11 DEF MarshalStack, At, TrackInv, shared
  <2>2. CASE call' = [call EXCEPT ![c].at = "open", ![c].seen = stack]
    <3>1. call'[c].at = "open" /\ call'[c].seen = stack /\ call'[c].patch = call[c].patch
      BY <1>0, <2>2 DEF Calls
    <3>2. Covers(files', worktree', call'[c].seen) /\ Has(files', call'[c].seen, call'[c].patch)
          /\ Has(files', stack', call'[c].patch)
      BY <2>1, <3>1 DEF Covers, Has
    <3> QED
      BY <1>3, <1>4, <2>1, <3>1, <3>2
  <2>3. CASE call' = [call EXCEPT ![c] = Idle]
    BY <1>3, <1>4, <1>5, <2>1, <2>3
  <2> QED
    BY <1>11, <2>2, <2>3 DEF MarshalStack, ReturnCall
<1>15. CASE TruncateStack(c)
  <2>1. /\ worktree' = worktree /\ stack' = stack /\ files' = files /\ call[c].at = "open"
        /\ stack # Nil /\ Has(files, stack, call[c].patch) /\ Covers(files, worktree, stack)
        /\ Has(files, call[c].seen, call[c].patch) /\ Covers(files, worktree, call[c].seen)
    BY <1>0, <1>15 DEF TruncateStack, At, TrackInv
  <2>2. CASE Move(c, "saving") /\ stackFile' = Torn
    <3>1. call'[c].at = "saving" /\ call'[c].seen = call[c].seen /\ call'[c].patch = call[c].patch
      BY <1>0, <2>2 DEF Move, Calls
    <3>2. Covers(files', worktree', stack') /\ Has(files', stack', call'[c].patch)
      BY <2>1, <3>1 DEF Covers, Has
    <3>3. Covers(files', worktree', call'[c].seen) /\ Has(files', call'[c].seen, call'[c].patch)
      BY <2>1, <3>1 DEF Covers, Has
    <3> QED
      BY <1>3, <2>1, <2>2, <3>1, <3>2, <3>3
  <2>3. CASE call' = [call EXCEPT ![c] = Idle] /\ stackFile' = stackFile
    BY <1>3, <1>4, <1>5, <2>1, <2>3
  <2> QED
    BY <1>15, <2>2, <2>3 DEF TruncateStack, ReturnCall
<1>12. CASE SaveStack(c)
  <2>1. /\ worktree' = worktree /\ stack' = stack /\ files' = files /\ call[c].at = "saving"
        /\ stackFile = Torn /\ stack # Nil /\ Has(files, stack, call[c].patch) /\ Covers(files, worktree, stack)
        /\ Has(files, call[c].seen, call[c].patch) /\ Covers(files, worktree, call[c].seen)
    BY <1>0, <1>12 DEF SaveStack, At, TrackInv
  <2>2. CASE stackFile' = call[c].seen /\ Move(c, "git")
    <3>1. call'[c].at = "git" /\ call'[c].patch = call[c].patch
      BY <1>0, <2>2 DEF Move, Calls
    <3>2. Covers(files', worktree', stackFile') /\ Covers(files', worktree', stack')
      BY <2>1, <2>2 DEF Covers, Has
    <3>3. Has(files', stackFile', call'[c].patch) /\ Has(files', stack', call'[c].patch)
      BY <2>1, <2>2, <3>1 DEF Has
    <3> QED
      BY <1>3, <2>1, <3>1, <3>2, <3>3
  <2>3. CASE call' = [call EXCEPT ![c] = Idle] /\ stackFile' = stackFile
    BY <1>3, <1>4, <1>5, <2>1, <2>3
  <2> QED
    BY <1>12, <2>1, <2>2, <2>3 DEF SaveStack, ReturnCall
<1>13. CASE GitApply(c)
  <2>1. /\ stackFile' = stackFile /\ stack' = stack /\ files' = files /\ call[c].at = "git"
        /\ call' = [call EXCEPT ![c] = Idle] /\ worktree' \subseteq worktree \cup {call[c].patch}
    BY <1>13 DEF GitApply, At, ReturnCall
  <2>2. stack # Nil /\ Has(files, stack, call[c].patch) /\ (stackFile # Torn => Has(files, stackFile, call[c].patch))
    BY <2>1 DEF TrackInv, At
  <2>3. (stackFile # Torn => Covers(files, worktree, stackFile))' /\ (stack # Nil => Covers(files, worktree, stack))'
    BY <1>0, <2>1, <2>2 DEF Covers, Has
  <2> QED
    BY <1>3, <1>5, <2>1, <2>3
<1>14. CASE GitReverse(c)
  <2>1. worktree' \subseteq worktree /\ stackFile' = stackFile /\ stack' = stack
        /\ call' = [call EXCEPT ![c] = Idle]
    BY <1>14 DEF GitReverse, ReturnCall
  <2> QED
    BY <1>3, <1>4, <1>5, <2>1
<1> QED
  BY <1>6, <1>7, <1>8, <1>9, <1>10, <1>11, <1>12, <1>13, <1>14, <1>15 DEF CallerStep

(* While calls come one at a time, every applied patch is in stack.json,    *)
(* over crashes and failed saves, unless the file is torn.                  *)
THEOREM TrackingHolds == BackupSpec => []TrackedUnlessRaced
<1>1. BackupInit => TrackInv
  <2> SUFFICES ASSUME BackupInit
               PROVE  TrackInv
    OBVIOUS
  <2>1. stack = Nil /\ worktree = {} /\ \A c \in Callers : call[c].at = "idle"
    BY DEF BackupInit, Idle
  <2> QED
    BY <2>1 DEF TrackInv, Covers, At
<1>2. BackupInv /\ CopyInv /\ Solo /\ Solo' /\ TrackInv /\ [BackupNext]_backupVars => TrackInv'
  <2> SUFFICES ASSUME BackupInv, CopyInv, Solo, Solo', TrackInv, [BackupNext]_backupVars, ~raced'
               PROVE  TrackInv'
    BY DEF TrackInv
  <2>0. ~raced
    BY SoloStep
  <2>1. CASE Crash
    <3>1. stack' = Nil /\ UNCHANGED <<worktree, files, stackFile>> /\ \A c \in Callers : call'[c].at = "idle"
      BY <2>1, CrashStep DEF Crash, Idle
    <3> QED
      BY <2>0, <3>1 DEF TrackInv, Covers, Has, At
  <2>2. CASE UNCHANGED backupVars
    BY <2>2 DEF backupVars, shared, TrackInv, Covers, Has, At
  <2> QED
    BY <2>0, <2>1, <2>2, TrackStep, NextIsAStep
<1>3. BackupInv /\ TrackInv => TrackedUnlessRaced
  <2> SUFFICES ASSUME BackupInv, TrackInv, ~raced, stackFile # Torn
               PROVE  worktree \subseteq Listed(stackFile)
    BY DEF TrackedUnlessRaced
  <2>1. DOMAIN stackFile = 1..Len(stackFile) /\ Covers(files, worktree, stackFile)
    BY DEF BackupInv, BackupTypeOK, TrackInv
  <2> QED
    BY <2>1 DEF Listed, Covers, Has
<1> QED
  BY <1>1, <1>2, <1>3, BackupInvHolds, CopyInvHolds, SoloHolds, PTL DEF BackupSpec
=============================================================================
