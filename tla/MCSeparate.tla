----------------------------- MODULE MCSeparate -----------------------------
(***************************************************************************)
(* Three components that share no state, checked for safety in one run:    *)
(* the issuer of camera commands, the archive and the diagnostics socket.  *)
(* Which of them a behaviour is about is chosen at its start, and the      *)
(* others stay as they were initialised.                                   *)
(***************************************************************************)
EXTENDS CameraIssuer, ArchiveCycle, Diagnostics, TLC

CONSTANTS
  p1, p2,     \* issuers, cycles or sessions
  q1, q2      \* bindings, batches or identifiers of sessions

VARIABLE part

separateVars == <<part, vars, archiveVars, diagnosticsVars>>

SeparateInit ==
  /\ part \in {"issuer", "archive", "diagnostics"}
  /\ Init /\ ArchiveInit /\ DiagnosticsInit
  \* The archive begins with a session open or not; this differs only in a behaviour
  \* that is about it.
  /\ part # "archive" => ~open

SeparateNext ==
  /\ UNCHANGED part
  /\ \/ /\ part = "issuer" /\ Next
        /\ UNCHANGED <<archiveVars, diagnosticsVars>>
     \/ /\ part = "archive" /\ ArchiveNext
        /\ UNCHANGED <<vars, diagnosticsVars>>
     \/ /\ part = "diagnostics" /\ DiagnosticsNext
        /\ UNCHANGED <<vars, archiveVars>>

SeparateSpec == SeparateInit /\ [][SeparateNext]_separateVars

\* All these are only compared.
Alike == Permutations({p1, p2}) \cup Permutations({q1, q2})
=============================================================================
