------------------------- MODULE StoredFilesProofs --------------------------
(***************************************************************************)
(* Proofs about StoredFiles for any set of instances, any files the disk   *)
(* can hold and any number of kills and power failures: the types, the     *)
(* inductive invariant IInv, and from it that the identity file is never   *)
(* torn and that the runtime library is never loaded torn unless a write   *)
(* of the shared temporary name broke off under another instance.          *)
(***************************************************************************)
EXTENDS StoredFiles, TLAPS

USE FilesAssumption
USE DEF procVars, fileVars, TempName, Goto, Saving

\* The file a CreateTemp makes is in nobody's hands and under no name.
LEMMA FreshFile ==
  ASSUME TypeOK, Free # {}
  PROVE  LET f == CHOOSE f \in Free : TRUE IN
         /\ f \in Inodes /\ f # 0 /\ f # name /\ f # diskName
         /\ \A t \in Procs \cup {"shared"} : f # temp[t]
         /\ \A p \in Procs : f # ino[p]
<1> DEFINE f == CHOOSE f \in Free : TRUE
<1>1. f \in Free
  OBVIOUS
<1>2. DOMAIN temp = Procs \cup {"shared"}
  BY DEF TypeOK
<1> HIDE DEF f
<1>3. /\ f \in Inodes /\ f # 0 /\ f # name /\ f # diskName
      /\ \A t \in Procs \cup {"shared"} : f # temp[t]
      /\ \A p \in Procs : f # ino[p]
  BY <1>1, <1>2 DEF Free
<1>4. QED
  BY <1>3 DEF f

\* What Open does to the files, with the file it opens named.
LEMMA OpenedFile ==
  ASSUME TypeOK, NEW p \in Procs, Open(p)
  PROVE  \E i \in Inodes :
            /\ i # 0
            /\ \/ store = "runtime" /\ i = temp["shared"]
               \/ /\ i # name /\ i # diskName /\ \A q \in Procs : i # ino[q]
                  /\ store = "runtime" => temp["shared"] = 0
            /\ temp' = [temp EXCEPT ![TempName(p)] = i]
            /\ ino' = [ino EXCEPT ![p] = i]
            /\ data' = [data EXCEPT ![i] = "empty"]
            /\ synced' = [synced EXCEPT ![i] = FALSE]
<1>1. CASE Truncates
  <2>1. temp["shared"] \in Inodes /\ TempName(p) = "shared"
    BY <1>1 DEF Truncates, TypeOK
  <2>2. QED
    BY <1>1, <2>1 DEF Open, Truncates
<1>2. CASE ~Truncates
  <2> DEFINE f == CHOOSE f \in Free : TRUE
  <2>1. Free # {}
    BY <1>2 DEF Open
  <2>2. /\ f \in Inodes /\ f # 0 /\ f # name /\ f # diskName
        /\ \A q \in Procs : f # ino[q]
    BY <2>1, FreshFile
  <2>3. /\ temp' = [temp EXCEPT ![TempName(p)] = f]
        /\ ino' = [ino EXCEPT ![p] = f]
        /\ data' = [data EXCEPT ![f] = "empty"]
        /\ synced' = [synced EXCEPT ![f] = FALSE]
    BY <1>2 DEF Open
  <2> HIDE DEF f
  <2>4. QED
    BY <1>2, <2>2, <2>3 DEF Truncates
<1>3. QED
  BY <1>1, <1>2

\* Every step of an instance, the file system or a failure keeps the types.
LEMMA TypeStep == TypeOK /\ [Next]_vars => TypeOK'
<1> SUFFICES ASSUME TypeOK, [Next]_vars PROVE TypeOK'
  OBVIOUS
<1> USE DEF TypeOK
<1>1. ASSUME NEW p \in Procs, Look(p) \/ Fetch(p) \/ OpenFails(p) \/ CloseTemp(p)
      PROVE TypeOK'
  BY <1>1 DEF Look, Fetch, OpenFails, CloseTemp
<1>2. ASSUME NEW p \in Procs, Open(p) PROVE TypeOK'
  <2>1. PICK i \in Inodes :
            /\ temp' = [temp EXCEPT ![TempName(p)] = i]
            /\ ino' = [ino EXCEPT ![p] = i]
            /\ data' = [data EXCEPT ![i] = "empty"]
            /\ synced' = [synced EXCEPT ![i] = FALSE]
    BY <1>2, OpenedFile
  <2>2. pc' = [pc EXCEPT ![p] = "write"] /\ UNCHANGED <<store, name, diskName, brokeOff>>
    BY <1>2 DEF Open
  <2>3. QED
    BY <2>1, <2>2
<1>3. ASSUME NEW p \in Procs, Write(p) PROVE TypeOK'
  BY <1>3 DEF Write, OtherIn
<1>4. ASSUME NEW p \in Procs, Sync(p) PROVE TypeOK'
  BY <1>4 DEF Sync
<1>5. ASSUME NEW p \in Procs, Rename(p) PROVE TypeOK'
  <2>1. TempName(p) \in DOMAIN temp
    OBVIOUS
  <2>2. QED
    BY <1>5, <2>1 DEF Rename
<1>6. ASSUME NEW p \in Procs, Remove(p) PROVE TypeOK'
  BY <1>6 DEF Remove
<1>7. ASSUME NEW p \in Procs, Use(p) PROVE TypeOK'
  BY <1>7 DEF Use
<1>8. ASSUME NEW p \in Procs, Kill(p) PROVE TypeOK'
  BY <1>8 DEF Kill, Restarted, OtherIn
<1>9. CASE WriteBackName
  BY <1>9 DEF WriteBackName
<1>10. CASE PowerLoss
  BY <1>10 DEF PowerLoss
<1>11. ASSUME NEW i \in Inodes, WriteBackData(i) PROVE TypeOK'
  BY <1>11 DEF WriteBackData
<1>12. CASE UNCHANGED vars
  BY <1>12 DEF vars
<1>13. QED
  BY <1>1, <1>2, <1>3, <1>4, <1>5, <1>6, <1>7, <1>8, <1>9, <1>10, <1>11, <1>12
     DEF Next, Step

\* The files a first start finds have the types the steps keep.
LEMMA InitTyped == ASSUME Init PROVE TypeOK
BY DEF Init, TypeOK

\* The variables of the instances and of the file system always have their
\* types: a name never stands for a file that is not there.
THEOREM TypeCorrect == Spec => []TypeOK
<1>1. Init => TypeOK
  BY InitTyped
<1>2. QED
  BY <1>1, TypeStep, PTL DEF Spec

-----------------------------------------------------------------------------
\* No step loads a library that is not there: the name appears before the
\* load and goes only in a power failure.
LEMMA LoadsStep ==
  ASSUME TypeOK, LoadsFile, [Next]_vars PROVE LoadsFile'
<1> USE DEF TypeOK, LoadsFile
<1>1. ASSUME NEW p \in Procs, Look(p) \/ Use(p) PROVE LoadsFile'
  BY <1>1 DEF Look, Use, Good
<1>2. ASSUME NEW p \in Procs,
             \/ Fetch(p) \/ Open(p) \/ OpenFails(p) \/ Write(p) \/ Sync(p)
             \/ CloseTemp(p) \/ Remove(p)
      PROVE LoadsFile'
  BY <1>2 DEF Fetch, Open, OpenFails, Write, Sync, CloseTemp, Remove
<1>3. ASSUME NEW p \in Procs, Rename(p) PROVE LoadsFile'
  BY <1>3 DEF Rename, MayRename
<1>4. ASSUME NEW p \in Procs, Kill(p) PROVE LoadsFile'
  BY <1>4 DEF Kill, Restarted
<1>5. CASE WriteBackName \/ PowerLoss \/ \E i \in Inodes : WriteBackData(i)
  BY <1>5 DEF WriteBackName, PowerLoss, WriteBackData
<1>6. CASE UNCHANGED vars
  BY <1>6 DEF vars
<1>7. QED
  BY <1>1, <1>2, <1>3, <1>4, <1>5, <1>6 DEF Next, Step

-----------------------------------------------------------------------------
(* identity.pem.                                                           *)

\* A step of loadOrFetchIdentity or saveIdentity keeps the part of IInv about
\* the identity: a file is fresh when it is created, and gets the real name
\* only after the Sync.
LEMMA StepKeepsIdentity ==
  ASSUME TypeOK, IdentityInv, NEW p \in Procs, Step(p) PROVE IdentityInv'
<1> SUFFICES ASSUME store = "identity"
             PROVE  OwnTemp' /\ SyncedBeforeRename' /\ NamedIsOnDisk'
  <2>1. UNCHANGED store
    BY DEF Step, Look, Fetch, Open, OpenFails, Write, Sync, CloseTemp, Rename, Remove, Use
  <2>2. QED
    BY <2>1 DEF IdentityInv
<1> USE DEF TypeOK, IdentityInv, OwnTemp, SyncedBeforeRename, NamedIsOnDisk
<1>1. CASE Look(p) \/ Fetch(p) \/ OpenFails(p) \/ CloseTemp(p) \/ Use(p)
  BY <1>1 DEF Look, Fetch, OpenFails, CloseTemp, Use
<1>2. CASE Open(p)
  <2>1. PICK i \in Inodes :
            /\ i # 0 /\ i # name /\ i # diskName /\ \A q \in Procs : i # ino[q]
            /\ temp' = [temp EXCEPT ![p] = i]
            /\ ino' = [ino EXCEPT ![p] = i]
            /\ data' = [data EXCEPT ![i] = "empty"]
            /\ synced' = [synced EXCEPT ![i] = FALSE]
    BY <1>2, OpenedFile
  <2>2. pc' = [pc EXCEPT ![p] = "write"] /\ UNCHANGED <<name, diskName>>
    BY <1>2 DEF Open
  <2>3. QED
    BY <2>1, <2>2
<1>3. CASE Write(p)
  <2>1. ino[p] \in Inodes /\ ino[p] \notin {name, diskName}
    BY <1>3 DEF Write
  <2>2. OwnTemp'
    BY <1>3 DEF Write
  <2>3. SyncedBeforeRename'
    <3> SUFFICES ASSUME NEW q \in Procs
                 PROVE  /\ pc'[q] = "sync" => data'[ino'[q]] = "whole"
                        /\ pc'[q] = "rename" => data'[ino'[q]] = "whole" /\ synced'[ino'[q]]
                        /\ pc'[q] # "close"
      OBVIOUS
    <3>1. CASE q = p
      BY <1>3, <2>1, <3>1 DEF Write
    <3>2. CASE q # p /\ Saving(q)
      <4>1. ino[q] # ino[p] /\ ino[q] \in Inodes
        BY <1>3, <3>2 DEF Write
      <4>2. QED
        BY <1>3, <3>2, <4>1 DEF Write
    <3>3. CASE q # p /\ ~Saving(q)
      BY <1>3, <3>3 DEF Write
    <3>4. QED
      BY <3>1, <3>2, <3>3
  <2>4. NamedIsOnDisk'
    BY <1>3, <2>1 DEF Write
  <2>5. QED
    BY <2>2, <2>3, <2>4
<1>4. CASE Sync(p)
  <2>1. ino[p] \in Inodes /\ ino[p] \notin {name, diskName}
    BY <1>4 DEF Sync
  <2>2. OwnTemp'
    BY <1>4 DEF Sync
  <2>3. SyncedBeforeRename'
    <3> SUFFICES ASSUME NEW q \in Procs
                 PROVE  /\ pc'[q] = "sync" => data'[ino'[q]] = "whole"
                        /\ pc'[q] = "rename" => data'[ino'[q]] = "whole" /\ synced'[ino'[q]]
                        /\ pc'[q] # "close"
      OBVIOUS
    <3>1. CASE q = p
      BY <1>4, <2>1, <3>1 DEF Sync
    <3>2. CASE q # p /\ Saving(q)
      <4>1. ino[q] # ino[p] /\ ino[q] \in Inodes
        BY <1>4, <3>2 DEF Sync
      <4>2. synced'[ino[q]] = synced[ino[q]]
        BY <1>4, <4>1 DEF Sync
      <4>3. data' = data /\ ino' = ino /\ pc'[q] = pc[q]
        BY <1>4, <3>2 DEF Sync
      <4>4. QED
        BY <4>2, <4>3
    <3>3. CASE q # p /\ ~Saving(q)
      BY <1>4, <3>3 DEF Sync
    <3>4. QED
      BY <3>1, <3>2, <3>3
  <2>4. NamedIsOnDisk'
    BY <1>4, <2>1 DEF Sync
  <2>5. QED
    BY <2>2, <2>3, <2>4
<1>5. CASE Rename(p)
  <2>1. OwnTemp'
    BY <1>5 DEF Rename
  <2>2. SyncedBeforeRename'
    BY <1>5 DEF Rename
  <2>3. NamedIsOnDisk'
    BY <1>5 DEF Rename
  <2>4. QED
    BY <2>1, <2>2, <2>3
<1>6. CASE Remove(p)
  BY <1>6 DEF Remove
<1>7. QED
  BY <1>1, <1>2, <1>3, <1>4, <1>5, <1>6 DEF Step

\* Neither write-back, nor a kill, nor a power failure breaks it: what the
\* disk's name stands for was on disk before it had that name.
LEMMA FailureKeepsIdentity ==
  ASSUME TypeOK, IdentityInv,
         \/ WriteBackName \/ PowerLoss
         \/ \E p \in Procs : Kill(p)
         \/ \E i \in Inodes : WriteBackData(i)
  PROVE  IdentityInv'
<1> USE DEF TypeOK, IdentityInv, OwnTemp, SyncedBeforeRename, NamedIsOnDisk
<1>1. CASE WriteBackName
  BY <1>1 DEF WriteBackName
<1>2. CASE PowerLoss
  BY <1>2 DEF PowerLoss
<1>3. ASSUME NEW p \in Procs, Kill(p) PROVE IdentityInv'
  BY <1>3 DEF Kill, Restarted
<1>4. ASSUME NEW i \in Inodes, WriteBackData(i) PROVE IdentityInv'
  BY <1>4 DEF WriteBackData
<1>5. QED
  BY <1>1, <1>2, <1>3, <1>4

-----------------------------------------------------------------------------
(* WinDivert.dll.                                                          *)

\* A step of writeEmbeddedVerified or loadWinDivertRuntime keeps the part of
\* IInv about the runtime: the shared file is renamed only when nobody has it
\* open, and a write that breaks off under another instance is recorded.
LEMMA StepKeepsRuntime ==
  ASSUME TypeOK, LoadsFile, RuntimeInv, RuntimeIsWhole, NEW p \in Procs, Step(p)
  PROVE  RuntimeInv' /\ RuntimeIsWhole'
<1>1. UNCHANGED store
  BY DEF Step, Look, Fetch, Open, OpenFails, Write, Sync, CloseTemp, Rename, Remove, Use
<1>2. CASE store # "runtime"
  BY <1>1, <1>2 DEF Step, Look, Fetch, Open, OpenFails, Write, Sync, CloseTemp,
     Rename, Remove, Use, TypeOK, LoadsFile, RuntimeInv, RuntimeIsWhole, OtherIn
<1>3. CASE store = "runtime"
  <2> SUFFICES SharedTemp' /\ AboutToRename' /\ RuntimeIsWhole'
    BY DEF RuntimeInv
  <2> USE <1>3 DEF TypeOK, LoadsFile, RuntimeInv, SharedTemp, AboutToRename, RuntimeIsWhole,
                   Good
  <2>1. CASE Look(p) \/ Fetch(p) \/ OpenFails(p) \/ CloseTemp(p)
    BY <2>1 DEF Look, Fetch, OpenFails, CloseTemp
  <2>2. CASE Use(p)
    BY <2>2 DEF Use
  <2>3. CASE Open(p)
    <3>1. PICK i \in Inodes :
            /\ i # 0
            /\ \/ i = temp["shared"]
               \/ i # name /\ i # diskName /\ temp["shared"] = 0
            /\ temp' = [temp EXCEPT !["shared"] = i]
            /\ ino' = [ino EXCEPT ![p] = i]
            /\ data' = [data EXCEPT ![i] = "empty"]
      BY <2>3, OpenedFile
    <3>2. /\ pc' = [pc EXCEPT ![p] = "write"]
          /\ UNCHANGED <<name, diskName, loaded, brokeOff>>
      BY <2>3 DEF Open
    <3>3. QED
      BY <3>1, <3>2
  <2>4. CASE Write(p)
    <3>1. SharedTemp' /\ RuntimeIsWhole'
      BY <2>4 DEF Write
    <3>2. ino[p] \in Inodes /\ ino[p] = temp["shared"] /\ ino[p] # name
      BY <2>4 DEF Write
    <3>3. CASE data' = [data EXCEPT ![ino[p]] = "whole"]
      BY <2>4, <3>2, <3>3 DEF Write
    <3>4. CASE /\ data' = [data EXCEPT ![ino[p]] = "part"]
               /\ brokeOff' = (brokeOff \/ OtherIn(p))
               /\ pc' = [pc EXCEPT ![p] = "failed"]
      BY <2>4, <3>2, <3>4 DEF Write, OtherIn
    <3>5. QED
      BY <2>4, <3>1, <3>3, <3>4 DEF Write
  <2>5. CASE Sync(p)
    BY <2>5 DEF Sync
  <2>6. CASE Rename(p)
    <3>1. SharedTemp' /\ RuntimeIsWhole'
      BY <2>6 DEF Rename, MayRename, HasOpen
    <3>2. AboutToRename'
      BY <2>6 DEF Rename, MayRename, HasOpen
    <3>3. QED
      BY <3>1, <3>2
  <2>7. CASE Remove(p)
    <3>1. SharedTemp' /\ RuntimeIsWhole'
      BY <2>7 DEF Remove, HasOpen
    <3>2. AboutToRename'
      BY <2>7 DEF Remove
    <3>3. QED
      BY <3>1, <3>2
  <2>8. QED
    BY <2>1, <2>2, <2>3, <2>4, <2>5, <2>6, <2>7 DEF Step
<1>4. QED
  BY <1>2, <1>3

\* Nor does anything that happens to the instances: a kill in the middle of a
\* write is recorded, and after a power failure every instance starts anew.
LEMMA FailureKeepsRuntime ==
  ASSUME TypeOK, LoadsFile, RuntimeInv, RuntimeIsWhole,
         \/ WriteBackName \/ PowerLoss
         \/ \E p \in Procs : Kill(p)
         \/ \E i \in Inodes : WriteBackData(i)
  PROVE  RuntimeInv' /\ RuntimeIsWhole'
<1> USE DEF TypeOK, LoadsFile, RuntimeInv, SharedTemp, AboutToRename,
            RuntimeIsWhole, Good
<1>1. CASE WriteBackName
  BY <1>1 DEF WriteBackName
<1>2. CASE PowerLoss
  BY <1>2 DEF PowerLoss
<1>3. ASSUME NEW p \in Procs, Kill(p) PROVE RuntimeInv' /\ RuntimeIsWhole'
  BY <1>3 DEF Kill, Restarted, OtherIn
<1>4. ASSUME NEW i \in Inodes, WriteBackData(i) PROVE RuntimeInv' /\ RuntimeIsWhole'
  BY <1>4 DEF WriteBackData
<1>5. QED
  BY <1>1, <1>2, <1>3, <1>4

-----------------------------------------------------------------------------
\* IInv is inductive: the two stores share their code but not their argument.
THEOREM InductiveInvariant == Spec => []IInv
<1>1. Init => IInv
  <2> SUFFICES ASSUME Init PROVE IInv
    OBVIOUS
  <2>1. IdentityInv
    BY DEF Init, IdentityInv, OwnTemp, SyncedBeforeRename, NamedIsOnDisk
  <2>2. LoadsFile /\ RuntimeInv /\ RuntimeIsWhole
    BY DEF Init, LoadsFile, RuntimeInv, SharedTemp, AboutToRename, RuntimeIsWhole
  <2>3. QED
    BY <2>1, <2>2, InitTyped DEF IInv
<1>2. IInv /\ [Next]_vars => IInv'
  <2> SUFFICES ASSUME IInv, [Next]_vars PROVE IInv'
    OBVIOUS
  <2>1. TypeOK' /\ LoadsFile'
    BY TypeStep, LoadsStep DEF IInv
  <2>2. CASE \E p \in Procs : Step(p)
    BY <2>1, <2>2, StepKeepsIdentity, StepKeepsRuntime DEF IInv
  <2>3. CASE \/ WriteBackName \/ PowerLoss
             \/ \E p \in Procs : Kill(p)
             \/ \E i \in Inodes : WriteBackData(i)
    BY <2>1, <2>3, FailureKeepsIdentity, FailureKeepsRuntime DEF IInv
  <2>4. CASE UNCHANGED vars
    BY <2>1, <2>4 DEF vars, IInv, IdentityInv, OwnTemp, SyncedBeforeRename,
       NamedIsOnDisk, RuntimeInv, SharedTemp, AboutToRename, RuntimeIsWhole, Good
  <2>5. QED
    BY <2>2, <2>3, <2>4 DEF Next
<1>3. QED
  BY <1>1, <1>2, PTL DEF Spec

\* However many instances save at once and wherever one is killed or power
\* fails, identity.pem is absent or whole, in the cache and on the disk.
THEOREM IdentityNeverTorn == Spec => []IdentityIsWhole
<1>1. IInv => IdentityIsWhole
  BY DEF IInv, IdentityInv, NamedIsOnDisk, IdentityIsWhole
<1>2. QED
  BY <1>1, InductiveInvariant, PTL

\* The library an instance loads is whole although nothing is synced and the
\* temporary name is shared, as long as no write of it broke off under another
\* instance that was to rename it.
THEOREM RuntimeNeverTorn == Spec => []RuntimeIsWhole
<1>1. IInv => RuntimeIsWhole
  BY DEF IInv
<1>2. QED
  BY <1>1, InductiveInvariant, PTL
=============================================================================
