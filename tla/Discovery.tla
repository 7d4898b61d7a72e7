------------------------------ MODULE Discovery ------------------------------
(***************************************************************************)
(* The client discovery file: every launch of the extension gets a new     *)
(* port and token and writes them to one path in REAPER's resource         *)
(* directory - a temporary file first, then rename - and unload removes    *)
(* the path.  REAPER may run more than once and may crash at any point;    *)
(* the instances share both paths.                                         *)
(*                                                                         *)
(* Files are inodes, so that a rename or a removal does not disturb a      *)
(* stream that is still open.  A file's content is the launch it describes *)
(* or Half for anything that is not one complete document; Cut is what a   *)
(* failed flush leaves.                                                    *)
(***************************************************************************)
EXTENDS Naturals

CONSTANTS
    Instances,      \* REAPER processes with this resource directory
    MaxLaunches,    \* launches in all
    Faults,         \* I/O failures that may happen
    RenameReplaces  \* rename() replaces an existing file (POSIX, not Windows)

ASSUME LaunchesAssumption == MaxLaunches \in Nat
ASSUME FaultsAssumption == Faults \subseteq {"open", "flush", "rename"}
ASSUME RenameAssumption == RenameReplaces \in BOOLEAN

VARIABLES
    phase,      \* off, starting, opened, flushed, removed, up
    launch,     \* the number of an instance's current launch
    launches,   \* launches so far
    result,     \* what writeDiscoveryFile returned
    handle,     \* the inode an instance's stream writes to
    tmp, path,  \* the inodes at path.tmp and path, 0 for none
    content,    \* of each inode
    made,       \* inodes made so far
    ended       \* launches that were unloaded, as opposed to crashed

vars == <<phase, launch, launches, result, handle, tmp, path, content, made, ended>>
files == <<tmp, path, content, made>>

Inodes   == 1..MaxLaunches
Half     == 0
Cut      == MaxLaunches + 1

TypeOK ==
    /\ phase \in [Instances -> {"off", "starting", "opened", "flushed", "removed", "up"}]
    /\ launch \in [Instances -> 0..MaxLaunches]
    /\ launches \in 0..MaxLaunches
    /\ result \in [Instances -> {"none", "ok", "failed"}]
    /\ handle \in [Instances -> {0} \cup Inodes]
    /\ tmp \in {0} \cup Inodes
    /\ path \in {0} \cup Inodes
    /\ content \in [Inodes -> {Half, Cut} \cup (1..MaxLaunches)]
    /\ made \in 0..MaxLaunches
    /\ ended \subseteq 1..MaxLaunches

Init ==
    /\ phase = [i \in Instances |-> "off"]
    /\ launch = [i \in Instances |-> 0]
    /\ launches = 0
    /\ result = [i \in Instances |-> "none"]
    /\ handle = [i \in Instances |-> 0]
    /\ tmp = 0
    /\ path = 0
    /\ content = [n \in Inodes |-> Half]
    /\ made = 0
    /\ ended = {}

Goto(i, p) == phase' = [phase EXCEPT ![i] = p]

\* Mutant: the error code is passed on.
Return_Raw(i, r) ==
    Goto(i, "up") /\ result' = [result EXCEPT ![i] = IF r = "ok" THEN r ELSE "errno"]

\* writeDiscoveryFile returns; writeDiscovery ignores what.
Return(i, r) == Goto(i, "up") /\ result' = [result EXCEPT ![i] = r]

-----------------------------------------------------------------------------
\* startUp: the server has bound its port and has its token.
Launch(i) ==
    /\ phase[i] = "off"
    /\ launches < MaxLaunches
    /\ launches' = launches + 1
    /\ launch' = [launch EXCEPT ![i] = launches + 1]
    /\ result' = [result EXCEPT ![i] = "none"]
    /\ Goto(i, "starting")
    /\ UNCHANGED <<handle, files, ended>>

\* std::ofstream os(tmp, trunc): the file at path.tmp, emptied, or a new one.
OpenTmp(i) ==
    /\ phase[i] = "starting"
    /\ tmp' = IF tmp = 0 THEN made + 1 ELSE tmp
    /\ made' = IF tmp = 0 THEN made + 1 ELSE made
    /\ handle' = [handle EXCEPT ![i] = tmp']
    /\ content' = [content EXCEPT ![tmp'] = Half]
    /\ Goto(i, "opened")
    /\ UNCHANGED <<launch, launches, result, path, ended>>

OpenFails(i) ==
    /\ phase[i] = "starting"
    /\ "open" \in Faults
    /\ Return(i, "failed")
    /\ UNCHANGED <<launch, launches, handle, files, ended>>

\* Mutant: the stream is still open, and unflushed, when the file is renamed.
Flush_Late(i) ==
    /\ phase[i] = "opened"
    /\ Goto(i, "flushed")
    /\ UNCHANGED <<launch, launches, result, handle, files, ended>>

\* The document is shorter than the stream's buffer: os.good() has seen nothing
\* of the file, the destructor writes it.  Two streams on one file may mix.
Flush(i) ==
    /\ phase[i] = "opened"
    /\ \E c \in {launch[i]} \cup (IF content[handle[i]] = Half THEN {} ELSE {Half}) :
         content' = [content EXCEPT ![handle[i]] = c]
    /\ Goto(i, "flushed")
    /\ UNCHANGED <<launch, launches, result, handle, tmp, path, made, ended>>

FlushFails(i) ==
    /\ phase[i] = "opened"
    /\ "flush" \in Faults
    /\ content' = [content EXCEPT ![handle[i]] = Cut]
    /\ Goto(i, "flushed")
    /\ UNCHANGED <<launch, launches, result, handle, tmp, path, made, ended>>

\* std::remove(path): Windows rename() does not replace.
RemoveOld(i) ==
    /\ phase[i] = "flushed"
    /\ path' = 0
    /\ Goto(i, "removed")
    /\ UNCHANGED <<launch, launches, result, handle, tmp, content, made, ended>>

Renames == tmp # 0 /\ (RenameReplaces \/ path = 0)

Rename(i) ==
    /\ phase[i] = "removed"
    /\ Renames
    /\ path' = tmp
    /\ tmp' = 0
    /\ Return(i, "ok")
    /\ UNCHANGED <<launch, launches, handle, content, made, ended>>

\* Mutant: the result of rename() is not looked at.
RenameFails_Ignored(i) ==
    /\ phase[i] = "removed"
    /\ ~Renames \/ "rename" \in Faults
    /\ Return(i, "ok")
    /\ UNCHANGED <<launch, launches, handle, files, ended>>

RenameFails(i) ==
    /\ phase[i] = "removed"
    /\ ~Renames \/ "rename" \in Faults
    /\ tmp' = 0
    /\ Return(i, "failed")
    /\ UNCHANGED <<launch, launches, handle, path, content, made, ended>>

\* Mutant: the remembered path is cleared before the file is removed.
Unload_Forgets(i) ==
    /\ phase[i] = "up"
    /\ ended' = ended \cup {launch[i]}
    /\ Goto(i, "off")
    /\ UNCHANGED <<launch, launches, result, handle, files>>

\* shutDown: whatever is at path by now.
Unload(i) ==
    /\ phase[i] = "up"
    /\ path' = 0
    /\ ended' = ended \cup {launch[i]}
    /\ Goto(i, "off")
    /\ UNCHANGED <<launch, launches, result, handle, tmp, content, made>>

\* The kernel keeps the files as they are; a buffer that was not flushed is lost.
Crash(i) ==
    /\ phase[i] # "off"
    /\ Goto(i, "off")
    /\ UNCHANGED <<launch, launches, result, handle, files, ended>>

-----------------------------------------------------------------------------
Step(i) ==
    \/ Launch(i) \/ OpenTmp(i) \/ OpenFails(i) \/ Flush(i) \/ FlushFails(i)
    \/ RemoveOld(i) \/ Rename(i) \/ RenameFails(i) \/ Unload(i) \/ Crash(i)

Next == \E i \in Instances : Step(i)

Spec == Init /\ [][Next]_vars
-----------------------------------------------------------------------------
(* Properties. *)

\* "a reader never observes a half-written file" (discovery.h 25-26), whatever
\* crashes and fails; only the failed flush, below, is seen.
NeverHalfWritten == path # 0 => content[path] # Half

\* A launch that was told TRUE is the one its clients find as long as it is up,
\* unless its flush failed.
SuccessIsPublished ==
    \A i \in Instances :
      phase[i] = "up" /\ result[i] = "ok" => path # 0 /\ content[path] \in {launch[i], Cut}

\* "Returns false on any I/O failure" (discovery.h 26).
NoCutPublished == path # 0 => content[path] # Cut

\* A launch that was unloaded is never found again, whatever was written before;
\* a crash is the only way to leave a stale file (discovery.h 8-10).
UnloadedIsGone == path # 0 => content[path] \notin ended
-----------------------------------------------------------------------------
(* The inductive invariant, for one instance. *)

Single == \A i, j \in Instances : i = j

Writing(i) == phase[i] \in {"opened", "flushed", "removed"}

\* An inode is made by a launch; the two names are never the same file.
FilesInv ==
    /\ tmp <= made /\ path <= made /\ made <= launches
    /\ tmp # 0 => tmp # path
    /\ \A i \in Instances : phase[i] = "starting" => made < launches

\* Launches are numbered, one that runs was not unloaded.
LaunchInv ==
    /\ ended \subseteq 1..launches
    /\ \A i \in Instances : phase[i] # "off" => launch[i] \in (1..launches) \ ended

\* While an instance writes, the temporary file is its own, and what it has flushed
\* stays there until it is renamed.
StreamInv ==
    \A i \in Instances :
      /\ Writing(i) => tmp # 0 /\ handle[i] = tmp
      /\ phase[i] = "opened" => content[tmp] = Half
      /\ phase[i] \in {"flushed", "removed"} => content[tmp] \in {launch[i], Cut}

IInv ==
    /\ TypeOK /\ FilesInv /\ LaunchInv /\ StreamInv
    /\ NeverHalfWritten /\ SuccessIsPublished /\ UnloadedIsGone
=============================================================================
