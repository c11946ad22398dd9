----------------------------- MODULE StoredFiles ----------------------------
(***************************************************************************)
(* The files DisFree keeps between runs, each written to a temporary file  *)
(* that is then renamed over the real one.  The variable store says which: *)
(*                                                                         *)
(*   "identity"  identity.pem: loadOrFetchIdentity and saveIdentity, a     *)
(*               temporary name of its own and a Sync before the rename;   *)
(*   "runtime"   WinDivert.dll: writeEmbeddedVerified and                  *)
(*               loadWinDivertRuntime, one fixed temporary name, no Sync,  *)
(*               and a checksum at every start instead.                    *)
(*                                                                         *)
(* Several instances of the program run at once; one may be killed and     *)
(* power may fail between any two steps.  The file system keeps names and  *)
(* contents in its cache and writes each to disk when it likes, or when a  *)
(* Sync asks for the contents.                                             *)
(***************************************************************************)
EXTENDS Integers, FiniteSets

CONSTANTS Procs,       \* instances of the program
          Inodes,      \* files the file system can hold
          MaxCrashes   \* bound on kills and power failures

ASSUME FilesAssumption ==
    /\ Inodes \subseteq Nat \ {0} /\ 1 \in Inodes
    /\ MaxCrashes \in Nat

VARIABLES store,
          pc, ino,     \* per instance: where it is, the file it writes
          data,        \* contents of each file, in the cache
          synced,      \* those contents are on disk
          name,        \* the file the real name stands for, 0 for none
          diskName,    \* the same on disk
          temp,        \* temporary names
          loaded,      \* what each instance has used
          brokeOff,    \* a write of the shared name broke off under another
          crashes

procVars == <<pc, ino, loaded, brokeOff>>
fileVars == <<data, synced, name, diskName, temp>>
vars == <<store, procVars, fileVars, crashes>>

\* CreateTemp makes a name of its own; ".tmp" is the same for everyone.
TempName(p) == IF store = "identity" THEN p ELSE "shared"

Init ==
    /\ store \in {"identity", "runtime"}
    /\ pc = [p \in Procs |-> "start"] /\ ino = [p \in Procs |-> 0]
    /\ loaded = [p \in Procs |-> "nothing"]
    /\ data = [i \in Inodes |-> "whole"] /\ synced = [i \in Inodes |-> TRUE]
    /\ name \in {0, 1} /\ diskName = name
    /\ temp = [t \in Procs \cup {"shared"} |-> 0]
    /\ brokeOff = FALSE /\ crashes = 0

Goto(p, l) == pc' = [pc EXCEPT ![p] = l]
Free == Inodes \ ({name, diskName} \cup {temp[t] : t \in DOMAIN temp}
                                   \cup {ino[p] : p \in Procs})
HasOpen(i) == {p \in Procs : pc[p] \in {"write", "sync", "close"} /\ ino[p] = i}

\* Another instance is between its look and its rename of the same name.
OtherIn(p) == /\ store = "runtime"
              /\ \E q \in Procs \ {p} :
                    pc[q] \in {"open", "write", "close", "rename"}

Good == name # 0 /\ data[name] = "whole"

-----------------------------------------------------------------------------
(* An instance.                                                            *)

\* Mutant: a file that is there is good.
LookNoChecksum(p) ==
    /\ pc[p] = "start"
    /\ Goto(p, IF name # 0 THEN "use" ELSE "open")
    /\ UNCHANGED <<store, ino, loaded, fileVars, brokeOff, crashes>>

\* The file is read: one that parses, or has the checksum, will do.  An
\* identity is fetched anew when it has less than a day to go.
Look(p) ==
    /\ pc[p] = "start"
    /\ \/ Good /\ Goto(p, "use")
       \/ store = "identity" /\ Goto(p, "fetch")
       \/ store = "runtime" /\ ~Good /\ Goto(p, "open")
    /\ UNCHANGED <<store, ino, loaded, fileVars, brokeOff, crashes>>

\* API.identity
Fetch(p) ==
    /\ pc[p] = "fetch"
    /\ Goto(p, "open") \/ Goto(p, "failed")
    /\ UNCHANGED <<store, ino, loaded, fileVars, brokeOff, crashes>>

\* The temporary file is created, or the one of that name is truncated ...
Truncates == store = "runtime" /\ temp["shared"] # 0

Open(p) ==
    /\ pc[p] = "open"
    /\ Truncates \/ Free # {}
    /\ LET t == TempName(p)
           i == IF Truncates THEN temp[t] ELSE CHOOSE f \in Free : TRUE
       IN  /\ temp' = [temp EXCEPT ![t] = i]
           /\ ino' = [ino EXCEPT ![p] = i]
           /\ data' = [data EXCEPT ![i] = "empty"]
           /\ synced' = [synced EXCEPT ![i] = FALSE]
    /\ Goto(p, "write")
    /\ UNCHANGED <<store, loaded, name, diskName, brokeOff, crashes>>

\* ... or cannot be.
OpenFails(p) ==
    /\ pc[p] = "open"
    /\ Goto(p, "failed")
    /\ UNCHANGED <<store, ino, loaded, fileVars, brokeOff, crashes>>

\* All of it is written, or the write breaks off; WriteFile then returns and
\* leaves the temporary file, saveIdentity closes and removes it.
Write(p) ==
    /\ pc[p] = "write"
    /\ \/ /\ data' = [data EXCEPT ![ino[p]] = "whole"]
          /\ Goto(p, IF store = "identity" THEN "sync" ELSE "close")
          /\ UNCHANGED brokeOff
       \/ /\ data' = [data EXCEPT ![ino[p]] = "part"]
          /\ Goto(p, IF store = "identity" THEN "remove" ELSE "failed")
          /\ brokeOff' = (brokeOff \/ OtherIn(p))
    /\ synced' = [synced EXCEPT ![ino[p]] = FALSE]
    /\ UNCHANGED <<store, ino, loaded, name, diskName, temp, crashes>>

\* Mutant: the rename comes without a Sync.
SyncSkipped(p) ==
    /\ pc[p] = "sync"
    /\ Goto(p, "rename")
    /\ UNCHANGED <<store, ino, loaded, fileVars, brokeOff, crashes>>

\* tmp.Sync() and tmp.Close()
Sync(p) ==
    /\ pc[p] = "sync"
    /\ \/ synced' = [synced EXCEPT ![ino[p]] = TRUE] /\ Goto(p, "rename")
       \/ UNCHANGED synced /\ Goto(p, "remove")
    /\ UNCHANGED <<store, ino, loaded, data, name, diskName, temp, brokeOff, crashes>>

\* The end of os.WriteFile, whose Close may fail.
CloseTemp(p) ==
    /\ pc[p] = "close"
    /\ Goto(p, "rename") \/ Goto(p, "failed")
    /\ UNCHANGED <<store, ino, loaded, fileVars, brokeOff, crashes>>

\* Windows refuses to rename a file that someone has open, or to replace one
\* that is mapped; and there may be nothing of that name any more.  The
\* permissions of the renamed identity are set last, which may fail.
MayRename(p) ==
    /\ temp[TempName(p)] # 0
    /\ store = "runtime" => /\ HasOpen(temp["shared"]) = {}
                            /\ \A q \in Procs : loaded[q] = "nothing"

Rename(p) ==
    /\ pc[p] = "rename"
    /\ \/ /\ MayRename(p)
          /\ name' = temp[TempName(p)]
          /\ temp' = [temp EXCEPT ![TempName(p)] = 0]
          /\ Goto(p, "use") \/ (store = "identity" /\ Goto(p, "failed"))
       \/ Goto(p, "remove") /\ UNCHANGED <<name, temp>>
    /\ ino' = [ino EXCEPT ![p] = 0]
    /\ UNCHANGED <<store, loaded, data, synced, diskName, brokeOff, crashes>>

\* os.Remove(tmp) on the way out, which an open file survives on Windows.
Remove(p) ==
    /\ pc[p] = "remove"
    /\ temp' = [temp EXCEPT ![TempName(p)] =
                   IF store = "runtime" /\ HasOpen(@) # {} THEN @ ELSE 0]
    /\ ino' = [ino EXCEPT ![p] = 0]
    /\ Goto(p, "failed")
    /\ UNCHANGED <<store, loaded, data, synced, name, diskName, brokeOff, crashes>>

\* The identity that was parsed or fetched is in memory; the DLL is loaded
\* from its path, unless the driver's file, LoadDLL or one of the exports fails.
Use(p) ==
    /\ pc[p] = "use"
    /\ \/ /\ loaded' = [loaded EXCEPT ![p] =
                           IF store = "identity" THEN "whole" ELSE data[name]]
          /\ Goto(p, "done")
       \/ store = "runtime" /\ Goto(p, "failed") /\ UNCHANGED loaded
    /\ UNCHANGED <<store, ino, fileVars, brokeOff, crashes>>

-----------------------------------------------------------------------------
(* The file system, kills and power.                                       *)

WriteBackName ==
    /\ diskName # name
    /\ diskName' = name
    /\ UNCHANGED <<store, procVars, data, synced, name, temp, crashes>>

WriteBackData(i) ==
    /\ ~synced[i]
    /\ synced' = [synced EXCEPT ![i] = TRUE]
    /\ UNCHANGED <<store, procVars, data, name, diskName, temp, crashes>>

Restarted(p) == /\ pc' = [pc EXCEPT ![p] = "start"]
                /\ ino' = [ino EXCEPT ![p] = 0]
                /\ loaded' = [loaded EXCEPT ![p] = "nothing"]

\* An instance ends or is killed, and is started again.
Kill(p) ==
    /\ crashes < MaxCrashes
    /\ crashes' = crashes + 1
    /\ Restarted(p)
    /\ brokeOff' = (brokeOff \/ (pc[p] = "write" /\ OtherIn(p)))
    /\ UNCHANGED <<store, fileVars>>

\* The names are those on disk; contents that were not are lost in part or in
\* full, or were written in time.
PowerLoss ==
    /\ crashes < MaxCrashes
    /\ crashes' = crashes + 1
    /\ pc' = [p \in Procs |-> "start"] /\ ino' = [p \in Procs |-> 0]
    /\ loaded' = [p \in Procs |-> "nothing"]
    /\ brokeOff' = FALSE
    /\ name' = diskName
    /\ \E lost \in [Inodes -> {"empty", "part", "whole"}] :
          /\ \A i \in Inodes : lost[i] = "whole" => data[i] = "whole"
          /\ \A i \in Inodes : synced[i] \/ i \in Free => lost[i] = data[i]
          /\ data' = lost
    /\ synced' = [i \in Inodes |-> TRUE]
    /\ UNCHANGED <<store, diskName, temp>>

-----------------------------------------------------------------------------
Step(p) == Look(p) \/ Fetch(p) \/ Open(p) \/ OpenFails(p) \/ Write(p) \/ Sync(p)
           \/ CloseTemp(p) \/ Rename(p) \/ Remove(p) \/ Use(p)

Next == \/ \E p \in Procs : Step(p) \/ Kill(p)
        \/ WriteBackName \/ PowerLoss
        \/ \E i \in Inodes : WriteBackData(i)

Spec == Init /\ [][Next]_vars

-----------------------------------------------------------------------------
TypeOK ==
    /\ store \in {"identity", "runtime"} /\ brokeOff \in BOOLEAN
    /\ pc \in [Procs -> {"start", "fetch", "open", "write", "sync", "close",
                         "rename", "remove", "use", "done", "failed"}]
    /\ ino \in [Procs -> Inodes \cup {0}]
    /\ data \in [Inodes -> {"empty", "part", "whole"}]
    /\ synced \in [Inodes -> BOOLEAN]
    /\ name \in Inodes \cup {0} /\ diskName \in Inodes \cup {0}
    /\ temp \in [Procs \cup {"shared"} -> Inodes \cup {0}]

\* The identity file is absent or whole, in the cache and on the disk a power
\* failure leaves, whatever instance is killed or fails at whatever step.
IdentityIsWhole ==
    store = "identity" =>
        /\ name # 0 => data[name] = "whole"
        /\ diskName # 0 => data[diskName] = "whole" /\ synced[diskName]

\* The runtime may be torn on disk, since nothing is synced, and two instances
\* may write the one temporary name at a time; what an instance loads is whole
\* all the same, unless a write broke off while another instance was about to
\* rename what it was writing.
RuntimeIsWhole == ~brokeOff => \A p \in Procs : loaded[p] \in {"nothing", "whole"}

-----------------------------------------------------------------------------
(* The inductive invariant behind the two.                                 *)

Saving(p) == pc[p] \in {"write", "sync", "rename"}

\* saveIdentity: an instance that has not renamed its file yet has it to
\* itself, and it is under no real name, cached or on disk.
OwnTemp ==
    \A p \in Procs : Saving(p) =>
        /\ ino[p] # 0 /\ temp[p] = ino[p]
        /\ ino[p] # name /\ ino[p] # diskName
        /\ \A q \in Procs \ {p} : Saving(q) => ino[q] # ino[p]

\* saveIdentity: whole before the Sync, whole and on disk before the rename.
SyncedBeforeRename ==
    \A p \in Procs :
        /\ pc[p] = "sync" => data[ino[p]] = "whole"
        /\ pc[p] = "rename" => data[ino[p]] = "whole" /\ synced[ino[p]]
        /\ pc[p] # "close"

NamedIsOnDisk ==
    \A i \in {name, diskName} \ {0} : data[i] = "whole" /\ synced[i]

IdentityInv ==
    store = "identity" => OwnTemp /\ SyncedBeforeRename /\ NamedIsOnDisk

\* writeEmbeddedVerified: the shared temporary file is under no real name, and
\* every open one is it.
SharedTemp ==
    /\ temp["shared"] # 0 => temp["shared"] \notin {name, diskName}
    /\ \A p \in Procs :
          /\ pc[p] \in {"write", "close"} => ino[p] # 0 /\ ino[p] = temp["shared"]
          /\ pc[p] \notin {"fetch", "sync"}

\* What an instance is about to rename is whole, or being written by another;
\* what it is about to load is whole.
AboutToRename ==
    ~brokeOff =>
        \A p \in Procs :
            /\ pc[p] \in {"close", "rename"} /\ temp["shared"] # 0 =>
                  \/ data[temp["shared"]] = "whole"
                  \/ \E q \in Procs : pc[q] = "write"
            /\ pc[p] = "use" => Good

RuntimeInv == store = "runtime" => SharedTemp /\ AboutToRename

\* There is a file to load when the library is loaded.
LoadsFile ==
    /\ loaded \in [Procs -> {"nothing", "empty", "part", "whole"}]
    /\ \A p \in Procs : store = "runtime" /\ pc[p] = "use" => name # 0

IInv == TypeOK /\ LoadsFile /\ IdentityInv /\ RuntimeInv /\ RuntimeIsWhole
=============================================================================
