-------------------------- MODULE DiscoveryProofs --------------------------
(***************************************************************************)
(* Proofs about Discovery, for one instance and any number of launches,    *)
(* crashes and I/O failures: what a client finds at the path is never half *)
(* written, never a launch that was unloaded, and is the running launch    *)
(* when that was told TRUE.                                                *)
(***************************************************************************)
EXTENDS Discovery, TLAPS

LEMMA InitHolds == Init => IInv
  BY LaunchesAssumption
  DEF Init, IInv, TypeOK, FilesInv, LaunchInv, StreamInv, Writing, Inodes, Half, Cut,
      NeverHalfWritten, SuccessIsPublished, UnloadedIsGone

\* No launch is mistaken for an empty or a cut file.
LEMMA Marks ==
  /\ Half = 0 /\ Cut = MaxLaunches + 1 /\ Inodes = 1..MaxLaunches
  /\ Half # Cut /\ Half \notin 1..MaxLaunches /\ Cut \notin 1..MaxLaunches
  BY LaunchesAssumption DEF Half, Cut, Inodes

-----------------------------------------------------------------------------
(* One step of the only instance. *)

LEMMA LaunchKeeps ==
  ASSUME Single, IInv, NEW i \in Instances, Launch(i)
  PROVE  IInv'
  <1> USE LaunchesAssumption, Marks
  <1>0. \A j \in Instances : j = i
    BY DEF Single
  <1>1. /\ phase[i] = "off" /\ phase' = [phase EXCEPT ![i] = "starting"]
        /\ launches < MaxLaunches /\ launches' = launches + 1
        /\ launch' = [launch EXCEPT ![i] = launches + 1]
        /\ result' = [result EXCEPT ![i] = "none"]
        /\ UNCHANGED <<handle, tmp, path, content, made, ended>>
    BY DEF Launch, Goto, files
  <1>2. TypeOK'
    BY <1>1 DEF IInv, TypeOK
  <1>3. FilesInv' /\ StreamInv'
    BY <1>0, <1>1 DEF IInv, TypeOK, FilesInv, StreamInv, Writing
  <1>4. LaunchInv'
    BY <1>0, <1>1 DEF IInv, TypeOK, LaunchInv
  <1>5. NeverHalfWritten' /\ SuccessIsPublished' /\ UnloadedIsGone'
    BY <1>0, <1>1 DEF IInv, TypeOK, NeverHalfWritten, SuccessIsPublished, UnloadedIsGone
  <1> QED
    BY <1>2, <1>3, <1>4, <1>5 DEF IInv

LEMMA OpenTmpKeeps ==
  ASSUME Single, IInv, NEW i \in Instances, OpenTmp(i)
  PROVE  IInv'
  <1> USE LaunchesAssumption, Marks
  <1>0. \A j \in Instances : j = i
    BY DEF Single
  <1>1. /\ phase[i] = "starting" /\ phase' = [phase EXCEPT ![i] = "opened"]
        /\ tmp' = IF tmp = 0 THEN made + 1 ELSE tmp
        /\ made' = IF tmp = 0 THEN made + 1 ELSE made
        /\ handle' = [handle EXCEPT ![i] = tmp']
        /\ content' = [content EXCEPT ![tmp'] = Half]
        /\ UNCHANGED <<launch, launches, result, path, ended>>
    BY DEF OpenTmp, Goto
  <1>2. made < launches /\ tmp' \in Inodes /\ tmp' # path /\ tmp' <= made' /\ made' \in 0..MaxLaunches
        /\ made' <= launches /\ path <= made'
    BY <1>1 DEF IInv, TypeOK, FilesInv
  <1>3. content' \in [Inodes -> {Half, Cut} \cup (1..MaxLaunches)] /\ content'[tmp'] = Half
        /\ content'[path] = content[path] /\ tmp' # 0
    BY <1>1, <1>2 DEF IInv, TypeOK
  <1>4. TypeOK'
    BY <1>1, <1>2, <1>3 DEF IInv, TypeOK
  <1>5. FilesInv' /\ StreamInv'
    BY <1>0, <1>1, <1>2, <1>3 DEF IInv, TypeOK, FilesInv, StreamInv, Writing
  <1>6. LaunchInv'
    BY <1>0, <1>1 DEF IInv, TypeOK, LaunchInv
  <1>7. NeverHalfWritten' /\ SuccessIsPublished' /\ UnloadedIsGone'
    BY <1>0, <1>1, <1>3 DEF IInv, TypeOK, NeverHalfWritten, SuccessIsPublished, UnloadedIsGone
  <1> QED
    BY <1>4, <1>5, <1>6, <1>7 DEF IInv

LEMMA FlushKeeps ==
  ASSUME Single, IInv, NEW i \in Instances, Flush(i) \/ FlushFails(i)
  PROVE  IInv'
  <1> USE LaunchesAssumption, Marks
  <1>0. \A j \in Instances : j = i
    BY DEF Single
  <1>1. /\ phase[i] = "opened" /\ phase' = [phase EXCEPT ![i] = "flushed"]
        /\ UNCHANGED <<launch, launches, result, handle, tmp, path, made, ended>>
    BY DEF Flush, FlushFails, Goto
  <1>2. tmp \in Inodes /\ handle[i] = tmp /\ content[tmp] = Half /\ tmp # path
    BY <1>1 DEF IInv, TypeOK, FilesInv, StreamInv, Writing
  <1>3. PICK c \in {launch[i], Cut} : content' = [content EXCEPT ![tmp] = c]
    BY <1>2 DEF Flush, FlushFails
  <1>4. launch[i] \in 1..MaxLaunches
    BY <1>1 DEF IInv, TypeOK, LaunchInv
  <1>5. content' \in [Inodes -> {Half, Cut} \cup (1..MaxLaunches)]
        /\ content'[tmp] \in {launch[i], Cut} /\ content'[path] = content[path]
    BY <1>2, <1>3, <1>4 DEF IInv, TypeOK
  <1>6. TypeOK'
    BY <1>1, <1>5 DEF IInv, TypeOK
  <1>7. FilesInv' /\ StreamInv'
    BY <1>0, <1>1, <1>2, <1>5 DEF IInv, TypeOK, FilesInv, StreamInv, Writing
  <1>8. LaunchInv'
    BY <1>0, <1>1 DEF IInv, TypeOK, LaunchInv
  <1>9. NeverHalfWritten' /\ SuccessIsPublished' /\ UnloadedIsGone'
    BY <1>0, <1>1, <1>5 DEF IInv, TypeOK, NeverHalfWritten, SuccessIsPublished, UnloadedIsGone
  <1> QED
    BY <1>6, <1>7, <1>8, <1>9 DEF IInv

\* The old file is removed, on the way to the rename or by unload.
LEMMA RemoveKeeps ==
  ASSUME Single, IInv, NEW i \in Instances, RemoveOld(i) \/ Unload(i)
  PROVE  IInv'
  <1> USE LaunchesAssumption, Marks
  <1>0. \A j \in Instances : j = i
    BY DEF Single
  <1>1. /\ path' = 0
        /\ \/ phase[i] = "flushed" /\ phase' = [phase EXCEPT ![i] = "removed"] /\ ended' = ended
           \/ phase[i] = "up" /\ phase' = [phase EXCEPT ![i] = "off"]
              /\ ended' = ended \cup {launch[i]}
        /\ UNCHANGED <<launch, launches, result, handle, tmp, content, made>>
    BY DEF RemoveOld, Unload, Goto
  <1>2. launch[i] \in 1..launches /\ launches \in 0..MaxLaunches
    BY <1>1 DEF IInv, TypeOK, LaunchInv
  <1>3. TypeOK'
    <2>0. launch[i] \in 1..MaxLaunches /\ ended \subseteq 1..MaxLaunches
      BY <1>2 DEF IInv, TypeOK
    <2>1. ended' \subseteq 1..MaxLaunches
      BY <1>1, <2>0
    <2>2. phase' \in [Instances -> {"off", "starting", "opened", "flushed", "removed", "up"}]
      BY <1>1 DEF IInv, TypeOK
    <2> QED
      BY <1>1, <2>1, <2>2 DEF IInv, TypeOK
  <1>4. FilesInv' /\ StreamInv'
    BY <1>0, <1>1 DEF IInv, TypeOK, FilesInv, StreamInv, Writing
  <1>5. LaunchInv'
    BY <1>0, <1>1, <1>2 DEF IInv, TypeOK, LaunchInv
  <1>6. NeverHalfWritten' /\ SuccessIsPublished' /\ UnloadedIsGone'
    BY <1>0, <1>1 DEF IInv, TypeOK, NeverHalfWritten, SuccessIsPublished, UnloadedIsGone
  <1> QED
    BY <1>3, <1>4, <1>5, <1>6 DEF IInv

LEMMA RenameKeeps ==
  ASSUME Single, IInv, NEW i \in Instances, Rename(i)
  PROVE  IInv'
  <1> USE LaunchesAssumption, Marks
  <1>0. \A j \in Instances : j = i
    BY DEF Single
  <1>1. /\ phase[i] = "removed" /\ phase' = [phase EXCEPT ![i] = "up"]
        /\ path' = tmp /\ tmp' = 0 /\ result' = [result EXCEPT ![i] = "ok"]
        /\ UNCHANGED <<launch, launches, handle, content, made, ended>>
    BY DEF Rename, Return, Goto
  <1>2. tmp # 0 /\ content[tmp] \in {launch[i], Cut} /\ launch[i] \in (1..MaxLaunches) \ ended
        /\ Cut \notin ended
    BY <1>1 DEF IInv, TypeOK, LaunchInv, StreamInv, Writing
  <1>3. TypeOK'
    BY <1>1 DEF IInv, TypeOK
  <1>4. FilesInv' /\ StreamInv'
    BY <1>0, <1>1 DEF IInv, TypeOK, FilesInv, StreamInv, Writing
  <1>5. LaunchInv'
    BY <1>0, <1>1 DEF IInv, TypeOK, LaunchInv
  <1>6. NeverHalfWritten' /\ SuccessIsPublished' /\ UnloadedIsGone'
    BY <1>0, <1>1, <1>2 DEF IInv, TypeOK, NeverHalfWritten, SuccessIsPublished, UnloadedIsGone
  <1> QED
    BY <1>3, <1>4, <1>5, <1>6 DEF IInv

\* A failure is told, a crash leaves the files as they are.
LEMMA FailureKeeps ==
  ASSUME Single, IInv, NEW i \in Instances, OpenFails(i) \/ RenameFails(i) \/ Crash(i)
  PROVE  IInv'
  <1> USE LaunchesAssumption, Marks
  <1>0. \A j \in Instances : j = i
    BY DEF Single
  <1>1. /\ phase[i] # "off"
        /\ \/ phase' = [phase EXCEPT ![i] = "up"] /\ result' = [result EXCEPT ![i] = "failed"]
              /\ tmp' \in {0, tmp}
           \/ phase' = [phase EXCEPT ![i] = "off"] /\ result' = result /\ tmp' = tmp
        /\ UNCHANGED <<launch, launches, handle, path, content, made, ended>>
    BY DEF OpenFails, RenameFails, Crash, Return, Goto, files, IInv, TypeOK
  <1>2. TypeOK'
    BY <1>1 DEF IInv, TypeOK
  <1>3. FilesInv' /\ StreamInv'
    BY <1>0, <1>1 DEF IInv, TypeOK, FilesInv, StreamInv, Writing
  <1>4. LaunchInv'
    BY <1>0, <1>1 DEF IInv, TypeOK, LaunchInv
  <1>5. NeverHalfWritten' /\ SuccessIsPublished' /\ UnloadedIsGone'
    BY <1>0, <1>1 DEF IInv, TypeOK, NeverHalfWritten, SuccessIsPublished, UnloadedIsGone
  <1> QED
    BY <1>2, <1>3, <1>4, <1>5 DEF IInv

-----------------------------------------------------------------------------
\* With one instance the two names are never the same file, what was flushed stays until
\* it is renamed, and no file describes a launch that was unloaded.
THEOREM Invariance == Single => (Spec => []IInv)
  <1> SUFFICES ASSUME Single PROVE Spec => []IInv
    OBVIOUS
  <1>1. Init => IInv
    BY InitHolds
  <1>2. IInv /\ UNCHANGED vars => IInv'
    BY DEF vars, IInv, TypeOK, FilesInv, LaunchInv, StreamInv, Writing, NeverHalfWritten,
           SuccessIsPublished, UnloadedIsGone
  <1>3. IInv /\ Next => IInv'
    BY LaunchKeeps, OpenTmpKeeps, FlushKeeps, RemoveKeeps, RenameKeeps, FailureKeeps DEF Next, Step
  <1> QED
    BY <1>1, <1>2, <1>3, PTL DEF Spec

\* A reader of the path never finds a file whose writer had not flushed it, whatever
\* crashes and fails (writeDiscoveryFile's temporary file and rename).
THEOREM WholeFilesOnly == Single => (Spec => []NeverHalfWritten)
  <1>1. IInv => NeverHalfWritten
    BY DEF IInv
  <1> QED
    BY <1>1, Invariance, PTL

\* What a launch was told TRUE of is what its clients find as long as it is up, unless
\* its flush failed unseen (writeDiscoveryFile's result).
THEOREM ToldIsPublished == Single => (Spec => []SuccessIsPublished)
  <1>1. IInv => SuccessIsPublished
    BY DEF IInv
  <1> QED
    BY <1>1, Invariance, PTL

\* No client ever finds a launch that was unloaded (removeDiscoveryFile in shutDown).
THEOREM UnloadedStaysGone == Single => (Spec => []UnloadedIsGone)
  <1>1. IInv => UnloadedIsGone
    BY DEF IInv
  <1> QED
    BY <1>1, Invariance, PTL
=============================================================================
