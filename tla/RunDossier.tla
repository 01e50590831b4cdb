----------------------------- MODULE RunDossier -----------------------------
(***************************************************************************)
(* GET /runs/{id}/dossier: all the ledger has of one run, read table by    *)
(* table while the handlers that write them go on.  The nine SELECTs share *)
(* no transaction, and the tables are read parents first.                  *)
(*                                                                         *)
(* One dossier is read, of the run of some handler; what that handler has  *)
(* recorded in this run is the part of it that is followed.                *)
(***************************************************************************)
EXTENDS LedgerClient, Naturals

VARIABLES
  subject,   \* the handler whose run is asked for, or None
  section,   \* how many of the SELECTs have returned
  shown,     \* what they returned
  begun      \* history: how much the ledger held when the dossier was asked for

dossierVars == <<subject, section, shown, begun>>

Sections == <<"runs", "events", "tool_invocations", "side_effects", "guardrails",
              "human_approvals", "bias_slices", "artifacts", "run_version_bindings">>

\* The table a record goes to; the gateway writes no guardrails or bias slices.
Table(e) ==
  CASE e.kind = "run" -> "runs"
    [] e.kind = "tool_invocation" -> "tool_invocations"
    [] e.kind = "side_effect" -> "side_effects"
    [] e.kind \in {"human_approval_granted", "human_approval_denied"} -> "human_approvals"
    [] e.kind = "artifact" -> "artifacts"
    [] e.kind = "binding" -> "run_version_bindings"
    [] OTHER -> "events"

DossierTypeOK ==
  /\ subject \in Handlers \cup {None}
  /\ section \in 0 .. Len(Sections)
  /\ shown \subseteq Entries
  /\ subject = None \/ begun \in 0 .. Len(ledger[subject])

DossierInit ==
  /\ subject = None
  /\ section = 0
  /\ shown = {}
  /\ begun = 0

-----------------------------------------------------------------------------
(* dossier *)

\* A run the ledger does not know is a 404.
AskDossier(h) ==
  /\ subject = None
  /\ h \in Identified \/ Committed(h, Entry("run"))
  /\ subject' = h
  /\ begun' = Len(ledger[h])
  /\ UNCHANGED <<linkVars, section, shown>>

\* Mutant of Select: side effects are joined with the invocation they name.
SelectJoined(table, rows) ==
  { e \in rows : Table(e) = table
                   /\ (e.kind = "side_effect" => e.linked /\ Entry("tool_invocation") \in rows) }

\* SELECT * FROM table WHERE run_id = $1
Select(table, rows) == { e \in rows : Table(e) = table }

ReadSection ==
  /\ subject # None /\ section < Len(Sections)
  /\ section' = section + 1
  /\ shown' = shown \cup Select(Sections[section'], ToSet(ledger[subject]))
  /\ UNCHANGED <<linkVars, subject, begun>>

DossierNext == (\E h \in Handlers : AskDossier(h)) \/ ReadSection

-----------------------------------------------------------------------------
(* Properties *)

\* What a row stands on, in another table: a side effect on its invocation, an
\* invocation on the outcome of its call, a human approval on its decision.
Names(e) ==
  CASE e.kind = "side_effect" /\ e.linked -> {"tool_invocation"}
    [] e.kind = "tool_invocation" -> {"tool_result", "tool_error"}
    [] e.kind = "human_approval_granted" -> {"approval_granted"}
    [] e.kind = "human_approval_denied" -> {"approval_denied"}
    [] OTHER -> {}

\* "Everything the ledger has for a single run", though not "in one shot": a
\* dossier holds all that was committed when it was asked for, whatever is
\* committed while it is read.  A row may stand in it without the row it names,
\* but only if the missing row is in the ledger and newer than the question; a
\* second dossier has both.
DossierMissesOnlyNewer ==
  section = Len(Sections) =>
    /\ \A i \in 1 .. begun : ledger[subject][i] \in shown
    /\ \A e \in shown :
         /\ e \in ToSet(ledger[subject])
         /\ Names(e) # {} /\ (\A p \in shown : p.kind \notin Names(e)) =>
              \E i \in begun + 1 .. Len(ledger[subject]) : ledger[subject][i].kind \in Names(e)

=============================================================================
