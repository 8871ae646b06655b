----------------------------- MODULE AtomicFile -----------------------------
(***************************************************************************)
(* One file that is replaced with write_atomic and removed with            *)
(* clear_state, and the readers that look at it meanwhile.                 *)
(*                                                                         *)
(* Source: src/cyclopsctl/state.py.  state.json, run-history.json, the     *)
(* task queue, the tag pointer and the complexity report are such files.   *)
(* One process writes at a time; a step is one call into the file system.  *)
(***************************************************************************)
EXTENDS Integers

CONSTANTS
    Contents,           \* the complete texts a file may hold
    Absent, Partial,    \* no file; a text that is cut short
    Readers,            \* processes that read: `status`, the dashboard
    MaxCrashes          \* bound: how often the writer is killed

ASSUME AtomicFileAssumption ==
    /\ Absent \notin Contents /\ Partial \notin Contents /\ Absent # Partial
    /\ MaxCrashes \in Nat

VARIABLES
    target, tmp,        \* path, and path with the suffix ".tmp"
    pc,                 \* the writer: where it is in write_atomic
    content,            \* the text it was called with
    before,             \* the file when it was called, for the properties
    crashes,
    rpc, result         \* readers: next step, and what the last read gave

writer == <<target, tmp, pc, content, before, crashes>>
vars == <<writer, rpc, result>>

States == Contents \cup {Absent, Partial}
WriterPCs == {"idle", "open", "fill", "unlink", "replace", "down"}
ReaderPCs == {"idle", "read"}
Results == Contents \cup {"none", "missing", "corrupt"}

Init ==
    /\ target \in Contents \cup {Absent} /\ tmp = Absent
    /\ pc = "idle" /\ content \in Contents /\ before = target
    /\ crashes = 0
    /\ rpc = [r \in Readers |-> "idle"] /\ result = [r \in Readers |-> "none"]

(***************************************************************************)
(* write_atomic                                                            *)
(***************************************************************************)
Call(c) ==
    /\ pc = "idle"
    /\ content' = c /\ before' = target
    /\ pc' = "open"
    /\ UNCHANGED <<target, tmp, crashes, rpc, result>>

\* Defect: the text is written in place.
OpenTarget ==
    /\ pc = "open"
    /\ target' = Partial
    /\ pc' = "fill"
    /\ UNCHANGED <<tmp, content, before, crashes, rpc, result>>

\* tmp_path.write_text opens the temporary file, which truncates it, ...
OpenTmp ==
    /\ pc = "open"
    /\ tmp' = Partial
    /\ pc' = "fill"
    /\ UNCHANGED <<target, content, before, crashes, rpc, result>>

\* ... and writes and closes it.
FillTmp ==
    /\ pc = "fill"
    /\ tmp' = content
    /\ pc' = "unlink"
    /\ UNCHANGED <<target, content, before, crashes, rpc, result>>

\* Defect: the old file is removed before the new one is written.
UnlinkEarly ==
    /\ pc \in {"open", "unlink"}
    /\ target' = Absent
    /\ pc' = IF pc = "unlink" THEN "replace" ELSE pc
    /\ UNCHANGED <<tmp, content, before, crashes, rpc, result>>

\* path.exists() and path.unlink()
Unlink ==
    /\ pc = "unlink"
    /\ target' = Absent
    /\ pc' = "replace"
    /\ UNCHANGED <<tmp, content, before, crashes, rpc, result>>

Replace ==
    /\ pc = "replace"
    /\ target' = tmp /\ tmp' = Absent
    /\ pc' = "idle"
    /\ UNCHANGED <<content, before, crashes, rpc, result>>

\* clear_state
Clear ==
    /\ pc = "idle"
    /\ target' = Absent /\ before' = Absent
    /\ UNCHANGED <<tmp, pc, content, crashes, rpc, result>>

\* kill -9 at any point; what is on disk stays as it is.
Crash ==
    /\ pc # "down" /\ crashes < MaxCrashes
    /\ pc' = "down" /\ crashes' = crashes + 1
    /\ UNCHANGED <<target, tmp, content, before, rpc, result>>

\* The next process finds the files as they are; it looks at the temporary file
\* no more than the last one did.
Restart ==
    /\ pc = "down"
    /\ pc' = "idle" /\ before' = target
    /\ UNCHANGED <<target, tmp, content, crashes, rpc, result>>

(***************************************************************************)
(* read_state                                                              *)
(***************************************************************************)
CheckFile(r) ==
    /\ rpc[r] = "idle"
    /\ IF target = Absent
       THEN result' = [result EXCEPT ![r] = "missing"] /\ UNCHANGED rpc
       ELSE rpc' = [rpc EXCEPT ![r] = "read"] /\ UNCHANGED result
    /\ UNCHANGED writer

\* Defect: an OSError is not caught, and what was found is handed on.
ReadTextUnchecked(r) ==
    /\ rpc[r] = "read"
    /\ result' = [result EXCEPT ![r] = target]
    /\ rpc' = [rpc EXCEPT ![r] = "idle"]
    /\ UNCHANGED writer

\* A file that went away meanwhile is an OSError, which is reported like JSON
\* that does not parse.
ReadText(r) ==
    /\ rpc[r] = "read"
    /\ result' = [result EXCEPT ![r] =
                    IF target \in Contents THEN target ELSE "corrupt"]
    /\ rpc' = [rpc EXCEPT ![r] = "idle"]
    /\ UNCHANGED writer

Next ==
    \/ \E c \in Contents : Call(c)
    \/ OpenTmp \/ FillTmp \/ Unlink \/ Replace \/ Clear \/ Crash \/ Restart
    \/ \E r \in Readers : CheckFile(r) \/ ReadText(r)

Spec == Init /\ [][Next]_vars

-----------------------------------------------------------------------------
\* Type invariant; a read ends with one of the answers of read_state.
TypeOK ==
    /\ target \in States /\ tmp \in States
    /\ pc \in WriterPCs /\ content \in Contents
    /\ before \in Contents \cup {Absent} /\ crashes \in Nat
    /\ rpc \in [Readers -> ReaderPCs] /\ result \in [Readers -> Results]

\* Nobody finds a text that is cut short, whenever the writer is killed: a crash
\* cannot make tasks.json or the history unreadable.
NeverCutShort == target # Partial

\* A file that existed when a write began is never lost altogether: the old or the
\* new text is in place, or the new one is complete in the temporary file.
OldOrNewOnDisk ==
    before # Absent =>
        \/ target \in {before, content}
        \/ target = Absent /\ tmp = content

\* docs/runtime/crash-recovery-state.md: writes use a temp file and atomic rename,
\* so that operators can inspect where a run stopped after a crash or kill.
OldOrNewAfterCrash == pc = "down" /\ before # Absent => target # Absent
=============================================================================
