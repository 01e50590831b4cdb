---------------------------- MODULE RegistryProofs ----------------------------
(***************************************************************************)
(* Proofs about Registry, for any number of gateways, files and runs.      *)
(***************************************************************************)
EXTENDS Registry, TLAPS

-----------------------------------------------------------------------------
(* The inductive invariant *)

\* Results are finitely many, so the latest is one of them.
HasLatest == evals = {} \/ \E e \in evals : \A f \in evals : f <= e

\* The binding names the file of this kind, or the file is missing.
CarriesKind(b, files, kind) ==
  IF files[kind] = Missing THEN b[kind] = None
  ELSE \E row \in versions : b[kind] = row /\ row.kind = kind /\ row.content = files[kind]

\* What a gateway has resolved by now is what it has on disk, and it keeps
\* nothing of another life.
ResolvedInOrder ==
  \A g \in Gateways :
    /\ pc[g] \notin Stopped => checkout[g] \in Checkouts
    /\ pc[g] # "up" => binding[g] = Unbound
    /\ pc[g] \in Stopped \cup {"up", "prompt"} => out[g] = Unbound
    /\ pc[g] \in {"policy", "eval"} => CarriesKind(out[g], checkout[g], "prompt")
    /\ pc[g] = "policy" => out[g].policy = None
    /\ pc[g] = "eval" => CarriesKind(out[g], checkout[g], "policy")

\* A gateway that waits has one call, for the file it is at.
CallsAreCurrent ==
  \A c \in calls : c.by \in Gateways =>
    /\ pc[c.by] = c.version.kind
    /\ checkout[c.by][c.version.kind] = c.version.content
    /\ c.version.content # Missing
    /\ \A d \in calls : d.by = c.by => d = c

\* A binding on its way to a run is of the gateway that minted it.
StampsCarry ==
  /\ \A s \in stamps : minted[s[1]] # None /\ Carries(s[2], minted[s[1]])
  /\ \A u \in Runs : bound[u] # None => minted[u] # None

\* Rows are never removed: a call for a content that had a row finds one.
CallsFindTheirRow ==
  \A c \in calls : c.by \in Gateways /\ ~early[c.by] =>
    ~c.found /\ \E row \in versions : SameVersion(row, c.version)

CameUpBound ==
  \A g \in Gateways :
    pc[g] = "up" /\ g \in Configured /\ ~lost[g] /\ ~early[g] => Carries(binding[g], checkout[g])

IInv == /\ TypeOK /\ HasLatest /\ ResolvedInOrder /\ CallsAreCurrent
        /\ StampsCarry /\ RunsCarryTheirVersions /\ CallsFindTheirRow /\ CameUpBound

-----------------------------------------------------------------------------
(* Lemmas *)

LEMMA CarriesIsEachKind ==
  ASSUME NEW b, NEW files
  PROVE  Carries(b, files) <=> CarriesKind(b, files, "prompt") /\ CarriesKind(b, files, "policy")
  BY DEF Carries, CarriesKind, Kinds

\* Rows are never removed, so a binding stays true to its files.
LEMMA RowsStay ==
  ASSUME versions \subseteq versions', NEW b, NEW files
  PROVE  /\ \A kind : CarriesKind(b, files, kind) => CarriesKind(b, files, kind)'
         /\ Carries(b, files) => Carries(b, files)'
  BY DEF Carries, CarriesKind

LEMMA LatestEvalType ==
  ASSUME TypeOK, HasLatest
  PROVE  LatestEval \in {None} \cup Evals
<1>1. CASE evals = {}
  BY <1>1 DEF LatestEval
<1>2. CASE evals # {}
  <2>1. \E e \in evals : \A f \in evals : f <= e
    BY <1>2 DEF HasLatest
  <2>2. LatestEval \in evals
    BY <1>2, <2>1 DEF LatestEval
  <2>. QED
    BY <2>2 DEF TypeOK
<1>. QED
  BY <1>1, <1>2

LEMMA UnboundType == Unbound \in Binding
  BY DEF Unbound, Binding

LEMMA InitIInv == Init => IInv
<1> SUFFICES ASSUME Init
             PROVE  IInv
  OBVIOUS
<1>1. TypeOK
  BY UnboundType DEF Init, TypeOK, Stopped
<1>2. HasLatest /\ ResolvedInOrder /\ CallsAreCurrent /\ StampsCarry
  BY DEF Init, HasLatest, ResolvedInOrder, CallsAreCurrent, StampsCarry, Stopped
<1>3. RunsCarryTheirVersions /\ CallsFindTheirRow /\ CameUpBound
  BY DEF Init, RunsCarryTheirVersions, CallsFindTheirRow, CameUpBound
<1>. QED
  BY <1>1, <1>2, <1>3 DEF IInv

\* Steps of a startup leave the rows, the stamps and the runs alone.
LEMMA RunsUntouched ==
  ASSUME IInv, UNCHANGED <<versions, runVars>>
  PROVE  /\ StampsCarry'
         /\ \A u \in Runs : bound'[u] # None => Carries(bound[u], minted[u])'
<1>1. StampsCarry'
  BY DEF IInv, StampsCarry, Carries, runVars
<1>2. \A u \in Runs : bound'[u] # None => Carries(bound[u], minted[u])'
  BY DEF IInv, RunsCarryTheirVersions, Carries, runVars
<1>. QED
  BY <1>1, <1>2

\* Calls that stay calls still find the row they would have found.
LEMMA CallsStillFind ==
  ASSUME IInv, versions \subseteq versions', calls' \subseteq calls, UNCHANGED early
  PROVE  CallsFindTheirRow'
  BY DEF IInv, CallsFindTheirRow, SameVersion

\* A gateway that is up stays bound while nothing of its startup changes.
LEMMA StaysBound ==
  ASSUME IInv, versions \subseteq versions', UNCHANGED <<checkout, lost, early>>,
         \A g \in Gateways : pc'[g] = "up" =>
           \/ pc[g] = "up" /\ binding'[g] = binding[g]
           \/ lost[g] \/ early[g] \/ g \notin Configured
  PROVE  CameUpBound'
  BY DEF IInv, CameUpBound, Carries

-----------------------------------------------------------------------------
(* Startup *)

LEMMA BootIInv ==
  ASSUME IInv, NEW g \in Gateways, NEW files \in Images[g], Boot(g, files)
  PROVE  IInv'
<1>. USE DEF IInv
<1>1. /\ pc[g] \in Stopped /\ pc' = [pc EXCEPT ![g] = IF g \in Configured THEN "prompt" ELSE "up"]
      /\ checkout' = [checkout EXCEPT ![g] = files]
      /\ UNCHANGED <<out, binding, lost, early, calls, versions, evals, runVars>>
  BY DEF Boot
<1>2. files \in Checkouts
  BY ImagesAssumption
<1>3. /\ pc'[g] \in {"prompt", "up"} /\ checkout'[g] = files
      /\ pc'[g] = "up" => g \notin Configured
      /\ \A h \in Gateways \ {g} : pc'[h] = pc[h] /\ checkout'[h] = checkout[h]
  BY <1>1 DEF TypeOK
<1>4. TypeOK'
  BY <1>1, <1>2 DEF TypeOK, Resolving, runVars
<1>5. HasLatest'
  BY <1>1 DEF HasLatest
<1>6. out[g] = Unbound /\ binding[g] = Unbound
  BY <1>1 DEF ResolvedInOrder, Stopped
<1>7. ResolvedInOrder'
  BY <1>1, <1>2, <1>3, <1>6 DEF ResolvedInOrder, CarriesKind, Stopped
<1>8. CallsAreCurrent'
  <2>1. \A c \in calls : c.by # g
    BY <1>1 DEF CallsAreCurrent, TypeOK, Version, Kinds, Stopped
  <2>. QED
    BY <1>1, <1>3, <2>1 DEF CallsAreCurrent
<1>9. RunsCarryTheirVersions'
  BY <1>1, <1>3, <1>6, RunsUntouched DEF RunsCarryTheirVersions, Carries
<1>10. CameUpBound'
  BY <1>1, <1>3 DEF CameUpBound, Carries
<1>. QED
  BY <1>1, <1>4, <1>5, <1>7, <1>8, <1>9, <1>10, RunsUntouched, CallsStillFind

LEMMA RegisterIInv ==
  ASSUME IInv, NEW g \in Gateways, NEW kind \in Kinds, Register(g, kind)
  PROVE  IInv'
<1>. USE DEF IInv
<1> DEFINE new == [by |-> g, found |-> FALSE, version |->
                    [kind |-> kind, content |-> checkout[g][kind], commit |-> checkout[g].commit]]
<1>1. /\ pc[g] = kind /\ ~ Waiting(g) /\ checkout[g][kind] # Missing
      /\ calls' = calls \cup {new}
      /\ UNCHANGED <<pc, checkout, out, binding, lost, versions, evals, runVars>>
  BY DEF Register
<1> DEFINE known == \E row \in versions : row.kind = kind /\ row.content = checkout[g][kind]
<1>9. /\ early' \in [Gateways -> BOOLEAN]
      /\ \A h \in Gateways \ {g} : early'[h] = early[h]
      /\ ~early'[g] => ~early[g] /\ known
  <2>1. early' = [early EXCEPT ![g] = early[g] \/ ~known]
    BY DEF Register, NoteEarly
  <2>. QED
    BY <2>1, Zenon DEF TypeOK
<1>2. new.version \in Version
  <2>1. checkout[g] \in Checkouts
    BY <1>1 DEF ResolvedInOrder, Kinds, Stopped
  <2>. QED
    BY <1>1, <2>1, CheckoutsAssumption DEF Version, Kinds
<1>3. new \in [by : Gateways \cup {Nobody}, version : Version, found : BOOLEAN]
  BY <1>2
<1>4. /\ new.by = g /\ new.version.kind = kind /\ new.version.content = checkout[g][kind]
      /\ ~new.found
  OBVIOUS
<1> HIDE DEF new
<1>5. TypeOK'
  BY <1>1, <1>3, <1>9 DEF TypeOK, runVars
<1>6. HasLatest' /\ ResolvedInOrder'
  BY <1>1 DEF HasLatest, ResolvedInOrder, CarriesKind
<1>7. CallsAreCurrent'
  BY <1>1, <1>4 DEF CallsAreCurrent, Waiting
<1>8. RunsCarryTheirVersions'
  BY <1>1, RunsUntouched DEF RunsCarryTheirVersions, Carries
<1>10. CallsFindTheirRow'
  <2>1. ~early'[g] => \E row \in versions : SameVersion(row, new.version)
    BY <1>4, <1>9 DEF SameVersion
  <2>2. \A c \in calls : c.by \in Gateways => c.by # g
    BY <1>1 DEF Waiting
  <2>. QED
    BY <1>1, <1>4, <1>9, <2>1, <2>2 DEF CallsFindTheirRow, SameVersion
<1>11. CameUpBound'
  BY <1>1, <1>9 DEF CameUpBound, Carries, Kinds
<1>. QED
  BY <1>1, <1>5, <1>6, <1>7, <1>8, <1>10, <1>11, RunsUntouched

LEMMA SkipMissingIInv ==
  ASSUME IInv, NEW g \in Gateways, NEW kind \in Kinds, SkipMissing(g, kind)
  PROVE  IInv'
<1>. USE DEF IInv
<1>1. /\ pc[g] = kind /\ checkout[g][kind] = Missing /\ pc' = [pc EXCEPT ![g] = After(kind)]
      /\ UNCHANGED <<checkout, out, binding, lost, early, calls, versions, evals, runVars>>
  BY DEF SkipMissing
<1>2. /\ pc'[g] = After(kind) /\ After(kind) \in {"policy", "eval"}
      /\ \A h \in Gateways \ {g} : pc'[h] = pc[h]
  BY <1>1 DEF TypeOK, After
<1>3. TypeOK'
  BY <1>1, <1>2 DEF TypeOK, Resolving, runVars
<1>4. HasLatest'
  BY <1>1 DEF HasLatest
<1>5. ResolvedInOrder'
  <2>1. CASE kind = "prompt"
    <3>1. out[g] = Unbound /\ pc'[g] = "policy"
      BY <1>1, <1>2, <2>1 DEF ResolvedInOrder, After
    <3>2. CarriesKind(out[g], checkout[g], "prompt")
      BY <1>1, <2>1, <3>1 DEF CarriesKind, Unbound
    <3>. QED
      BY <1>1, <1>2, <2>1, <3>1, <3>2 DEF ResolvedInOrder, CarriesKind, Stopped, Unbound
  <2>2. CASE kind = "policy"
    <3>1. out[g].policy = None
      BY <1>1, <2>2 DEF ResolvedInOrder
    <3>2. CarriesKind(out[g], checkout[g], "policy") /\ pc'[g] = "eval"
      BY <1>1, <1>2, <2>2, <3>1 DEF CarriesKind, After
    <3>. QED
      BY <1>1, <1>2, <2>2, <3>2 DEF ResolvedInOrder, CarriesKind, Stopped
  <2>. QED
    BY <2>1, <2>2 DEF Kinds
<1>6. CallsAreCurrent'
  <2>1. \A c \in calls : c.by # g
    BY <1>1 DEF CallsAreCurrent
  <2>. QED
    BY <1>1, <1>2, <2>1 DEF CallsAreCurrent
<1>7. RunsCarryTheirVersions'
  BY <1>1, RunsUntouched DEF RunsCarryTheirVersions, Carries
<1>8. CameUpBound'
  BY <1>1, <1>2, StaysBound
<1>. QED
  BY <1>1, <1>3, <1>4, <1>5, <1>6, <1>7, <1>8, RunsUntouched, CallsStillFind

LEMMA LookUpEvalIInv ==
  ASSUME IInv, NEW g \in Gateways, LookUpEval(g)
  PROVE  IInv'
<1>. USE DEF IInv
<1>1. /\ pc[g] = "eval" /\ pc' = [pc EXCEPT ![g] = "up"]
      /\ binding' = [binding EXCEPT ![g] = [out[g] EXCEPT !.eval = LatestEval]]
      /\ out' = [out EXCEPT ![g] = Unbound]
      /\ UNCHANGED <<checkout, lost, early, calls, versions, evals, runVars>>
  BY DEF LookUpEval
<1> DEFINE b == [out[g] EXCEPT !.eval = LatestEval]
<1>2. b \in Binding /\ b.prompt = out[g].prompt /\ b.policy = out[g].policy
  <2>1. out[g] \in Binding
    BY DEF TypeOK
  <2>. QED
    BY <2>1, LatestEvalType DEF Binding
<1>3. binding' = [binding EXCEPT ![g] = b]
  BY <1>1
<1> HIDE DEF b
<1>4. TypeOK'
  BY <1>1, <1>2, <1>3, UnboundType DEF TypeOK, Resolving, runVars
<1>5. /\ pc'[g] = "up" /\ binding'[g] = b /\ out'[g] = Unbound
      /\ \A h \in Gateways \ {g} : pc'[h] = pc[h] /\ binding'[h] = binding[h] /\ out'[h] = out[h]
  BY <1>1, <1>3 DEF TypeOK
<1>6. HasLatest'
  BY <1>1 DEF HasLatest
<1>7. ResolvedInOrder'
  BY <1>1, <1>5 DEF ResolvedInOrder, CarriesKind, Stopped
<1>8. CallsAreCurrent'
  <2>1. \A c \in calls : c.by # g
    BY <1>1 DEF CallsAreCurrent, TypeOK, Version, Kinds
  <2>. QED
    BY <1>1, <1>5, <2>1 DEF CallsAreCurrent
<1>9. Carries(b, checkout[g])
  <2>1. CarriesKind(b, checkout[g], "prompt") /\ CarriesKind(b, checkout[g], "policy")
    BY <1>1, <1>2 DEF ResolvedInOrder, CarriesKind
  <2>. QED
    BY <2>1, CarriesIsEachKind
<1>10. RunsCarryTheirVersions'
  BY <1>1, <1>5, <1>9, RunsUntouched DEF RunsCarryTheirVersions, Carries
<1>11. CameUpBound'
  BY <1>1, <1>5, <1>9 DEF CameUpBound, Carries
<1>. QED
  BY <1>1, <1>4, <1>6, <1>7, <1>8, <1>10, <1>11, RunsUntouched, CallsStillFind

\* Calls that are abandoned are nobody's; the others are as they were.
LEMMA AbandonedCalls ==
  ASSUME TypeOK, NEW g \in Gateways
  PROVE  /\ Abandon(g) \subseteq [by : Gateways \cup {Nobody}, version : Version, found : BOOLEAN]
         /\ \A c \in Abandon(g) : c.by \in Gateways => c \in calls /\ c.by # g
<1>1. ASSUME NEW c \in calls, c.by = g
      PROVE  /\ [c EXCEPT !.by = Nobody] \in [by : Gateways \cup {Nobody}, version : Version, found : BOOLEAN]
             /\ [c EXCEPT !.by = Nobody].by \notin Gateways
  BY <1>1, NobodyAssumption DEF TypeOK
<1>. QED
  BY <1>1 DEF Abandon, TypeOK

LEMMA ResolveFailsIInv ==
  ASSUME IInv, NEW g \in Gateways, ResolveFails(g)
  PROVE  IInv'
<1>. USE DEF IInv
<1>1. /\ pc[g] \in {"prompt", "policy", "eval"} /\ pc' = [pc EXCEPT ![g] = "up"]
      /\ out' = [out EXCEPT ![g] = Unbound] /\ lost' = [lost EXCEPT ![g] = TRUE]
      /\ calls' = Abandon(g)
      /\ UNCHANGED <<checkout, binding, early, versions, evals, runVars>>
  BY DEF ResolveFails, StartWithout, Kinds
<1>2. TypeOK'
  BY <1>1, UnboundType, AbandonedCalls DEF TypeOK, Resolving, runVars
<1>3. /\ pc'[g] = "up" /\ out'[g] = Unbound /\ lost'[g]
      /\ \A h \in Gateways \ {g} : pc'[h] = pc[h] /\ out'[h] = out[h] /\ lost'[h] = lost[h]
  BY <1>1 DEF TypeOK
<1>4. HasLatest'
  BY <1>1 DEF HasLatest
<1>5. ResolvedInOrder'
  BY <1>1, <1>3 DEF ResolvedInOrder, CarriesKind, Stopped
<1>6. CallsAreCurrent'
  BY <1>1, <1>3, AbandonedCalls DEF CallsAreCurrent
<1>7. RunsCarryTheirVersions'
  BY <1>1, RunsUntouched DEF RunsCarryTheirVersions, Carries
<1>8. CallsFindTheirRow'
  BY <1>1, AbandonedCalls DEF CallsFindTheirRow
<1>9. CameUpBound'
  BY <1>1, <1>3 DEF CameUpBound, Carries
<1>. QED
  BY <1>1, <1>2, <1>4, <1>5, <1>6, <1>7, <1>8, <1>9, RunsUntouched

LEMMA CrashIInv ==
  ASSUME IInv, NEW g \in Gateways, Crash(g)
  PROVE  IInv'
<1>. USE DEF IInv
<1>1. /\ pc' = [pc EXCEPT ![g] = "killed"] /\ checkout' = [checkout EXCEPT ![g] = None]
      /\ out' = [out EXCEPT ![g] = Unbound] /\ binding' = [binding EXCEPT ![g] = Unbound]
      /\ lost' = [lost EXCEPT ![g] = FALSE] /\ early' = [early EXCEPT ![g] = FALSE]
      /\ calls' = Abandon(g)
      /\ UNCHANGED <<versions, evals, runVars>>
  BY DEF Crash
<1>2. TypeOK'
  BY <1>1, UnboundType, AbandonedCalls DEF TypeOK, Stopped, runVars
<1>3. /\ pc'[g] = "killed" /\ out'[g] = Unbound /\ binding'[g] = Unbound
      /\ \A h \in Gateways \ {g} : /\ pc'[h] = pc[h] /\ out'[h] = out[h]
                                   /\ checkout'[h] = checkout[h] /\ binding'[h] = binding[h]
                                   /\ lost'[h] = lost[h] /\ early'[h] = early[h]
  BY <1>1 DEF TypeOK
<1>4. HasLatest'
  BY <1>1 DEF HasLatest
<1>5. ResolvedInOrder'
  BY <1>1, <1>3 DEF ResolvedInOrder, CarriesKind, Stopped
<1>6. CallsAreCurrent'
  BY <1>1, <1>3, AbandonedCalls DEF CallsAreCurrent
<1>7. RunsCarryTheirVersions'
  BY <1>1, <1>3, RunsUntouched DEF RunsCarryTheirVersions, Carries
<1>8. CallsFindTheirRow'
  BY <1>1, <1>3, AbandonedCalls DEF CallsFindTheirRow
<1>9. CameUpBound'
  BY <1>1, <1>3 DEF CameUpBound, Carries
<1>. QED
  BY <1>1, <1>2, <1>4, <1>5, <1>6, <1>7, <1>8, <1>9, RunsUntouched

-----------------------------------------------------------------------------
(* The ledger *)

\* A row with the content that was asked for completes the gateway's step.
LEMMA ReturnIInv ==
  ASSUME IInv, NEW c \in calls, NEW row \in versions',
         row \in Version, SameVersion(row, c.version), Return(c, row),
         versions \subseteq versions', versions' \subseteq Version,
         UNCHANGED <<evals, runVars>>
  PROVE  IInv'
<1>. USE DEF IInv
<1>1. /\ calls' = calls \ {c} /\ UNCHANGED <<checkout, binding, lost, early, evals, runVars>>
      /\ IF c.by \in Gateways
         THEN /\ out' = [out EXCEPT ![c.by][row.kind] = row]
              /\ pc' = [pc EXCEPT ![c.by] = After(row.kind)]
         ELSE UNCHANGED <<out, pc>>
  BY DEF Return
<1>2. c.version \in Version /\ row.kind = c.version.kind /\ row.content = c.version.content
  BY DEF TypeOK, SameVersion
<1>3. row.kind \in Kinds
  BY <1>2 DEF Version
<1>4. HasLatest'
  BY <1>1 DEF HasLatest
<1>5. StampsCarry'
  BY <1>1, RowsStay DEF StampsCarry, runVars
<1>6. RunsCarryTheirVersions'
  <2>1. \A u \in Runs : bound'[u] # None => Carries(bound'[u], minted'[u])
    BY <1>1 DEF RunsCarryTheirVersions, runVars
  <2>2. \A g \in Gateways : binding'[g] # Unbound => Carries(binding'[g], checkout'[g])
    BY <1>1 DEF RunsCarryTheirVersions
  <2>3. \A b, files : Carries(b, files) => (\A kind \in Kinds :
            IF files[kind] = Missing THEN b[kind] = None
            ELSE \E r \in versions' : b[kind] = r /\ r.kind = kind /\ r.content = files[kind])
    BY DEF Carries
  <2>. QED
    BY <2>1, <2>2, <2>3 DEF RunsCarryTheirVersions, Carries
<1>9. CallsFindTheirRow'
  BY <1>1, CallsStillFind
<1>7. CASE c.by \notin Gateways
  <2>1. TypeOK'
    BY <1>1, <1>7 DEF TypeOK, runVars
  <2>2. ResolvedInOrder'
    BY <1>1, <1>7, RowsStay DEF ResolvedInOrder, CarriesKind
  <2>3. CallsAreCurrent'
    BY <1>1, <1>7 DEF CallsAreCurrent
  <2>4. CameUpBound'
    BY <1>1, <1>7, StaysBound
  <2>. QED
    BY <1>4, <1>5, <1>6, <1>9, <2>1, <2>2, <2>3, <2>4
<1>8. CASE c.by \in Gateways
  <2> PICK g \in Gateways : g = c.by
    BY <1>8
  <2> PICK b : b = [out[g] EXCEPT ![row.kind] = row]
    OBVIOUS
  <2>1. /\ g \in Gateways /\ pc[g] = row.kind /\ checkout[g][row.kind] = row.content
        /\ row.content # Missing /\ \A d \in calls : d.by = g => d = c
    BY <1>2, <1>8 DEF CallsAreCurrent
  <2>2. out' = [out EXCEPT ![g] = b] /\ pc' = [pc EXCEPT ![g] = After(row.kind)]
    BY <1>1, <1>8
  <2>3. b \in Binding /\ b[row.kind] = row
        /\ (row.kind = "prompt" => b.policy = out[g].policy)
        /\ (row.kind = "policy" => b.prompt = out[g].prompt)
    <3>1. out[g] \in Binding
      BY <2>1 DEF TypeOK
    <3>2. CASE row.kind = "prompt"
      <4>1. b = [out[g] EXCEPT !.prompt = row]
        BY <3>2
      <4>. QED
        BY <3>1, <3>2, <4>1 DEF Binding
    <3>3. CASE row.kind = "policy"
      <4>1. b = [out[g] EXCEPT !.policy = row]
        BY <3>3
      <4>. QED
        BY <3>1, <3>3, <4>1 DEF Binding
    <3>. QED
      BY <1>3, <3>2, <3>3 DEF Kinds
  <2>4. After(row.kind) \in {"policy", "eval"}
    BY DEF After
  <2>5. TypeOK'
    BY <1>1, <2>1, <2>2, <2>3, <2>4 DEF TypeOK, Resolving, runVars
  <2>6. /\ pc'[g] = After(row.kind) /\ out'[g] = b
        /\ \A h \in Gateways \ {g} : pc'[h] = pc[h] /\ out'[h] = out[h]
    BY <2>1, <2>2 DEF TypeOK
  <2>7. CarriesKind(b, checkout[g], row.kind)'
    BY <1>1, <2>1, <2>3, <2>6 DEF CarriesKind
  <2>8. ResolvedInOrder'
    <3>1. \A h \in Gateways \ {g} :
            /\ pc'[h] \notin Stopped => checkout'[h] \in Checkouts
            /\ pc'[h] # "up" => binding'[h] = Unbound
            /\ pc'[h] \in Stopped \cup {"up", "prompt"} => out'[h] = Unbound
            /\ pc'[h] \in {"policy", "eval"} => CarriesKind(out[h], checkout[h], "prompt")'
            /\ pc'[h] = "policy" => out'[h].policy = None
            /\ pc'[h] = "eval" => CarriesKind(out[h], checkout[h], "policy")'
      BY <1>1, <2>6 DEF ResolvedInOrder, CarriesKind
    <3>2. checkout'[g] \in Checkouts /\ binding'[g] = Unbound
      BY <1>1, <1>3, <2>1 DEF ResolvedInOrder, Kinds, Stopped
    <3>3. CASE row.kind = "prompt"
      <4>1. pc'[g] = "policy" /\ out'[g].policy = None
        BY <2>1, <2>3, <2>6, <3>3 DEF ResolvedInOrder, After, Unbound
      <4>2. CarriesKind(out[g], checkout[g], "prompt")'
        BY <2>6, <2>7, <3>3 DEF CarriesKind
      <4>. QED
        BY <3>1, <3>2, <4>1, <4>2 DEF ResolvedInOrder, Stopped
    <3>4. CASE row.kind = "policy"
      <4>1. pc'[g] = "eval"
        BY <2>6, <3>4 DEF After
      <4>2. CarriesKind(out[g], checkout[g], "policy")'
        BY <2>6, <2>7, <3>4 DEF CarriesKind
      <4>3. CarriesKind(out[g], checkout[g], "prompt")
        BY <2>1, <3>4 DEF ResolvedInOrder
      <4>4. CarriesKind(out[g], checkout[g], "prompt")'
        BY <1>1, <2>3, <2>6, <3>4, <4>3 DEF CarriesKind
      <4>. QED
        BY <3>1, <3>2, <4>1, <4>2, <4>4 DEF ResolvedInOrder, Stopped
    <3>. QED
      BY <1>3, <3>3, <3>4 DEF Kinds
  <2>9. CallsAreCurrent'
    <3>1. \A d \in calls' : d \in calls /\ d.by # g
      BY <1>1, <2>1
    <3>. QED
      BY <1>1, <2>6, <3>1 DEF CallsAreCurrent
  <2>10. CameUpBound'
    BY <1>1, <2>4, <2>6, StaysBound
  <2>. QED
    BY <1>4, <1>5, <1>6, <1>9, <2>5, <2>8, <2>9, <2>10
<1>. QED
  BY <1>7, <1>8

LEMMA SelectFindsIInv ==
  ASSUME IInv, NEW c \in calls, SelectFinds(c)
  PROVE  IInv'
<1>1. PICK row \in versions : SameVersion(row, c.version) /\ Return(c, row)
  BY DEF SelectFinds
<1>2. UNCHANGED <<versions, evals, runVars>>
  BY DEF SelectFinds
<1>3. row \in Version /\ row \in versions' /\ versions' \subseteq Version
  BY <1>2 DEF IInv, TypeOK
<1>. QED
  BY <1>1, <1>2, <1>3, ReturnIInv

LEMMA InsertIInv ==
  ASSUME IInv, NEW c \in calls, Insert(c)
  PROVE  IInv'
<1>1. /\ ~ \E row \in versions : SameVersion(row, c.version)
      /\ versions' = versions \cup {c.version} /\ Return(c, c.version)
      /\ UNCHANGED <<evals, runVars>>
  BY DEF Insert
<1>2. c.version \in Version /\ versions \subseteq Version
  BY DEF IInv, TypeOK
<1>3. SameVersion(c.version, c.version)
  BY DEF SameVersion
<1>. QED
  BY <1>1, <1>2, <1>3, ReturnIInv

LEMMA SelectFindsNothingIInv ==
  ASSUME IInv, NEW c \in calls, SelectFindsNothing(c)
  PROVE  IInv'
<1>. USE DEF IInv
<1>1. PICK d : d = [c EXCEPT !.found = TRUE]
  OBVIOUS
<1>2. /\ calls' = (calls \ {c}) \cup {d}
      /\ UNCHANGED <<pc, checkout, out, binding, lost, early, versions, evals, runVars>>
  BY <1>1 DEF SelectFindsNothing, startVars
<1>3. /\ d \in [by : Gateways \cup {Nobody}, version : Version, found : BOOLEAN]
      /\ d.by = c.by /\ d.version = c.version
  BY <1>1 DEF TypeOK
<1>4. TypeOK'
  BY <1>2, <1>3 DEF TypeOK, runVars
<1>5. HasLatest' /\ ResolvedInOrder'
  BY <1>2 DEF HasLatest, ResolvedInOrder, CarriesKind
<1>6. CallsAreCurrent'
  BY <1>2, <1>3 DEF CallsAreCurrent
<1>7. RunsCarryTheirVersions'
  BY <1>2, RunsUntouched DEF RunsCarryTheirVersions, Carries
<1>8. CallsFindTheirRow'
  <2>1. c.by \in Gateways => early[c.by]
    BY DEF CallsFindTheirRow, SelectFindsNothing
  <2>. QED
    BY <1>2, <1>3, <2>1 DEF CallsFindTheirRow, SameVersion
<1>9. CameUpBound'
  BY <1>2, StaysBound
<1>. QED
  BY <1>2, <1>4, <1>5, <1>6, <1>7, <1>8, <1>9, RunsUntouched

LEMMA InsertConflictIInv ==
  ASSUME IInv, NEW c \in calls, InsertConflict(c)
  PROVE  IInv'
<1>. USE DEF IInv
<1>1. /\ calls' = calls \ {c}
      /\ UNCHANGED <<checkout, binding, lost, early, versions, evals, runVars>>
      /\ IF c.by \in Gateways
         THEN pc' = [pc EXCEPT ![c.by] = "up"] /\ out' = [out EXCEPT ![c.by] = Unbound]
         ELSE UNCHANGED <<pc, out>>
  BY DEF InsertConflict, StartWithout
<1>2. TypeOK'
  BY <1>1, UnboundType DEF TypeOK, runVars
<1>3. HasLatest'
  BY <1>1 DEF HasLatest
<1>4. RunsCarryTheirVersions'
  BY <1>1, RunsUntouched DEF RunsCarryTheirVersions, Carries
<1>5. ResolvedInOrder' /\ CallsAreCurrent'
  <2>1. CASE c.by \notin Gateways
    BY <1>1, <2>1 DEF ResolvedInOrder, CarriesKind, CallsAreCurrent
  <2>2. CASE c.by \in Gateways
    <3>1. PICK g \in Gateways : g = c.by
      BY <2>2
    <3>2. /\ pc'[g] = "up" /\ out'[g] = Unbound
          /\ \A h \in Gateways \ {g} : pc'[h] = pc[h] /\ out'[h] = out[h]
      BY <1>1, <3>1 DEF TypeOK
    <3>3. pc[g] \notin Stopped
      BY <3>1 DEF CallsAreCurrent, TypeOK, Version, Kinds, Stopped
    <3>4. ResolvedInOrder'
      <4>1. pc[g] # "up"
        BY <3>1 DEF CallsAreCurrent, TypeOK, Version, Kinds
      <4>. QED
        BY <1>1, <3>2, <3>3, <4>1 DEF ResolvedInOrder, CarriesKind, Stopped
    <3>5. CallsAreCurrent'
      <4>1. \A d \in calls' : d \in calls /\ d.by # g
        BY <1>1, <3>1 DEF CallsAreCurrent
      <4>. QED
        BY <1>1, <3>2, <4>1 DEF CallsAreCurrent
    <3>. QED
      BY <3>4, <3>5
  <2>. QED
    BY <2>1, <2>2
\* Only a content that had no row yet can be refused.
<1>6. CameUpBound'
  <2>1. c.by \in Gateways => early[c.by]
    BY DEF CallsFindTheirRow, InsertConflict
  <2>2. \A g \in Gateways : g # c.by => pc'[g] = pc[g]
    BY <1>1 DEF TypeOK
  <2>. QED
    BY <1>1, <2>1, <2>2, StaysBound
<1>. QED
  BY <1>1, <1>2, <1>3, <1>4, <1>5, <1>6, RunsUntouched, CallsStillFind

LEMMA CallDroppedIInv ==
  ASSUME IInv, NEW c \in calls, CallDropped(c)
  PROVE  IInv'
<1>. USE DEF IInv
<1>1. /\ calls' = calls \ {c}
      /\ UNCHANGED <<pc, checkout, out, binding, lost, early, versions, evals, runVars>>
  BY DEF CallDropped, startVars
<1>2. TypeOK' /\ HasLatest' /\ ResolvedInOrder' /\ CallsAreCurrent'
  BY <1>1 DEF TypeOK, HasLatest, ResolvedInOrder, CarriesKind, CallsAreCurrent, runVars
<1>3. RunsCarryTheirVersions'
  BY <1>1, RunsUntouched DEF RunsCarryTheirVersions, Carries
<1>4. CallsFindTheirRow' /\ CameUpBound'
  BY <1>1, CallsStillFind, StaysBound
<1>. QED
  BY <1>1, <1>2, <1>3, <1>4, RunsUntouched

LEMMA PostEvalIInv ==
  ASSUME IInv, NEW e \in Evals, PostEval(e)
  PROVE  IInv'
<1>. USE DEF IInv
<1>1. /\ evals' = evals \cup {e}
      /\ UNCHANGED <<pc, checkout, out, binding, lost, early, calls, versions, runVars>>
  BY DEF PostEval, startVars
<1>2. TypeOK' /\ ResolvedInOrder' /\ CallsAreCurrent'
  BY <1>1 DEF TypeOK, ResolvedInOrder, CarriesKind, CallsAreCurrent, runVars
<1>3. HasLatest'
  <2>1. CASE evals = {}
    BY <1>1, <2>1, EvalsAssumption DEF HasLatest
  <2>2. CASE evals # {}
    <3>1. PICK last \in evals : \A f \in evals : f <= last
      BY <2>2 DEF HasLatest
    <3>2. e \in Nat /\ evals \subseteq Nat
      BY EvalsAssumption DEF TypeOK
    <3>3. CASE last <= e
      BY <1>1, <3>1, <3>2, <3>3 DEF HasLatest
    <3>4. CASE e <= last
      BY <1>1, <3>1, <3>2, <3>4 DEF HasLatest
    <3>. QED
      BY <3>1, <3>2, <3>3, <3>4
  <2>. QED
    BY <2>1, <2>2
<1>4. RunsCarryTheirVersions'
  BY <1>1, RunsUntouched DEF RunsCarryTheirVersions, Carries
<1>5. CallsFindTheirRow' /\ CameUpBound'
  BY <1>1, CallsStillFind, StaysBound
<1>. QED
  BY <1>1, <1>2, <1>3, <1>4, <1>5, RunsUntouched

-----------------------------------------------------------------------------
(* Runs *)

\* A run is stamped by the gateway that minted it, with what it holds.
LEMMA MintIInv ==
  ASSUME IInv, NEW g \in Gateways, NEW u \in Runs, Mint(g, u)
  PROVE  IInv'
<1>. USE DEF IInv
<1>1. /\ pc[g] = "up" /\ minted[u] = None /\ minted' = [minted EXCEPT ![u] = checkout[g]]
      /\ stamps' = IF binding[g] = Unbound THEN stamps ELSE stamps \cup {<<u, binding[g]>>}
      /\ UNCHANGED <<pc, checkout, out, binding, lost, early, calls, versions, evals, bound>>
  BY DEF Mint, startVars
<1>2. checkout[g] \in Checkouts /\ checkout[g] # None /\ binding[g] \in Binding
  BY <1>1, NoneAssumption DEF ResolvedInOrder, TypeOK, Stopped
<1>3. minted'[u] = checkout[g] /\ \A w \in Runs \ {u} : minted'[w] = minted[w]
  BY <1>1 DEF TypeOK
<1>4. TypeOK'
  BY <1>1, <1>2 DEF TypeOK
<1>5. HasLatest' /\ ResolvedInOrder' /\ CallsAreCurrent' /\ CallsFindTheirRow' /\ CameUpBound'
  BY <1>1, CallsStillFind, StaysBound DEF HasLatest, ResolvedInOrder, CarriesKind, CallsAreCurrent
<1>6. \A s \in stamps : s[1] \in Runs /\ s[1] # u
  BY <1>1 DEF StampsCarry, TypeOK
<1>7. StampsCarry'
  <2>1. \A s \in stamps : minted'[s[1]] # None /\ Carries(s[2], minted'[s[1]])
    BY <1>3, <1>6 DEF StampsCarry
  <2>2. binding[g] # Unbound => Carries(binding[g], minted'[u])
    BY <1>3 DEF RunsCarryTheirVersions
  <2>3. ASSUME NEW s \in stamps'
        PROVE  minted'[s[1]] # None /\ Carries(s[2], minted'[s[1]])
    <3>1. CASE s \in stamps
      BY <2>1, <3>1
    <3>2. CASE s \notin stamps
      <4>1. binding[g] # Unbound /\ s = <<u, binding[g]>>
        BY <1>1, <3>2
      <4>2. s[1] = u /\ s[2] = binding[g]
        BY <4>1
      <4>. QED
        BY <1>2, <1>3, <2>2, <4>1, <4>2
    <3>. QED
      BY <3>1, <3>2
  <2>4. versions' = versions
    BY <1>1
  <2>5. \A s \in stamps' : minted'[s[1]] # None /\ Carries(s[2], minted[s[1]])'
    <3> TAKE s \in stamps'
    <3>1. minted'[s[1]] # None /\ Carries(s[2], minted'[s[1]])
      BY <2>3
    <3>. QED
      BY <3>1, <2>4 DEF Carries
  <2>6. \A w \in Runs : bound'[w] # None => minted'[w] # None
    BY <1>1, <1>2, <1>3 DEF StampsCarry
  <2>. QED
    BY <2>5, <2>6 DEF StampsCarry
<1>8. RunsCarryTheirVersions'
  <2>1. \A w \in Runs : bound'[w] # None => w # u
    BY <1>1 DEF StampsCarry
  <2>2. \A w \in Runs : bound'[w] # None => Carries(bound[w], minted[w])'
    BY <1>1, <1>3, <2>1 DEF RunsCarryTheirVersions, Carries
  <2>3. \A h \in Gateways : binding'[h] # Unbound => Carries(binding[h], checkout[h])'
    BY <1>1 DEF RunsCarryTheirVersions, Carries
  <2>. QED
    BY <2>2, <2>3 DEF RunsCarryTheirVersions
<1>. QED
  BY <1>4, <1>5, <1>7, <1>8

LEMMA StampLandsIInv ==
  ASSUME IInv, NEW s \in stamps, StampLands(s)
  PROVE  IInv'
<1>. USE DEF IInv
<1>1. /\ stamps' = stamps \ {s} /\ bound' = [bound EXCEPT ![s[1]] = s[2]]
      /\ UNCHANGED <<pc, checkout, out, binding, lost, early, calls, versions, evals, minted>>
  BY DEF StampLands, startVars
<1>2. s[1] \in Runs /\ s[2] \in Binding
  BY DEF TypeOK
<1>3. bound'[s[1]] = s[2] /\ \A w \in Runs \ {s[1]} : bound'[w] = bound[w]
  BY <1>1, <1>2 DEF TypeOK
<1>4. TypeOK'
  BY <1>1, <1>2 DEF TypeOK
<1>5. HasLatest' /\ ResolvedInOrder' /\ CallsAreCurrent' /\ CallsFindTheirRow' /\ CameUpBound'
  BY <1>1, CallsStillFind, StaysBound DEF HasLatest, ResolvedInOrder, CarriesKind, CallsAreCurrent
<1>6. minted[s[1]] # None /\ Carries(s[2], minted[s[1]])
  BY DEF StampsCarry
<1>7. StampsCarry'
  BY <1>1, <1>2, <1>3, <1>6 DEF StampsCarry, Carries
<1>8. RunsCarryTheirVersions'
  <2>1. \A w \in Runs : bound'[w] # None => Carries(bound'[w], minted[w])
    BY <1>3, <1>6 DEF RunsCarryTheirVersions
  <2>2. \A w \in Runs : bound'[w] # None => Carries(bound[w], minted[w])'
    BY <1>1, <2>1 DEF Carries
  <2>3. \A h \in Gateways : binding'[h] # Unbound => Carries(binding[h], checkout[h])'
    BY <1>1 DEF RunsCarryTheirVersions, Carries
  <2>. QED
    BY <2>2, <2>3 DEF RunsCarryTheirVersions
<1>. QED
  BY <1>4, <1>5, <1>7, <1>8

LEMMA StampLostIInv ==
  ASSUME IInv, NEW s \in stamps, StampLost(s)
  PROVE  IInv'
<1>. USE DEF IInv
<1>1. /\ stamps' = stamps \ {s}
      /\ UNCHANGED <<pc, checkout, out, binding, lost, early, calls, versions, evals, minted, bound>>
  BY DEF StampLost, startVars
<1>2. TypeOK'
  BY <1>1 DEF TypeOK
<1>3. HasLatest' /\ ResolvedInOrder' /\ CallsAreCurrent' /\ CallsFindTheirRow' /\ CameUpBound'
  BY <1>1, CallsStillFind, StaysBound DEF HasLatest, ResolvedInOrder, CarriesKind, CallsAreCurrent
<1>4. StampsCarry' /\ RunsCarryTheirVersions'
  BY <1>1 DEF StampsCarry, RunsCarryTheirVersions, Carries
<1>. QED
  BY <1>2, <1>3, <1>4

-----------------------------------------------------------------------------
(* The theorems *)

LEMMA NextIInv == IInv /\ [Next]_vars => IInv'
<1> SUFFICES ASSUME IInv, [Next]_vars
             PROVE  IInv'
  OBVIOUS
<1>1. CASE UNCHANGED vars
  <2>1. UNCHANGED <<pc, checkout, out, binding, lost, early, calls, versions, evals, runVars>>
    BY <1>1 DEF vars, runVars
  <2>2. TypeOK'
    BY <2>1 DEF IInv, TypeOK, runVars
  <2>3. HasLatest' /\ ResolvedInOrder' /\ CallsAreCurrent'
    BY <2>1 DEF IInv, HasLatest, ResolvedInOrder, CarriesKind, CallsAreCurrent
  <2>4. RunsCarryTheirVersions'
    BY <2>1, RunsUntouched DEF IInv, RunsCarryTheirVersions, Carries
  <2>5. CallsFindTheirRow' /\ CameUpBound'
    BY <2>1, CallsStillFind, StaysBound
  <2>. QED
    BY <2>1, <2>2, <2>3, <2>4, <2>5, RunsUntouched DEF IInv
<1>2. CASE \E g \in Gateways : \/ \E files \in Images[g] : Boot(g, files)
                               \/ StartupStep(g) \/ ResolveFails(g) \/ Crash(g)
                               \/ \E u \in Runs : Mint(g, u)
  BY <1>2, BootIInv, RegisterIInv, SkipMissingIInv, LookUpEvalIInv, ResolveFailsIInv,
     CrashIInv, MintIInv DEF StartupStep
<1>3. CASE \E c \in calls : Serve(c) \/ CallDropped(c)
  BY <1>3, SelectFindsIInv, SelectFindsNothingIInv, InsertIInv, InsertConflictIInv,
     CallDroppedIInv DEF Serve
<1>4. CASE \E e \in Evals : PostEval(e)
  BY <1>4, PostEvalIInv
<1>5. CASE \E s \in stamps : StampLands(s) \/ StampLost(s)
  BY <1>5, StampLandsIInv, StampLostIInv
<1>. QED
  BY <1>1, <1>2, <1>3, <1>4, <1>5 DEF Next

LEMMA Invariant == Spec => []IInv
  BY InitIInv, NextIInv, PTL DEF Spec

\* The variables keep their types through every startup, crash and lost call.
THEOREM RegistryTypeCorrect == Spec => []TypeOK
<1>1. IInv => TypeOK
  BY DEF IInv
<1>. QED
  BY <1>1, Invariant, PTL

\* A gateway whose contents had rows when it registered them comes up bound,
\* whatever other replicas, killed startups and late calls do meanwhile.
THEOREM KnownContentsResolve == Spec => []KnownContentsAreBound
<1>1. IInv => KnownContentsAreBound
  <2> SUFFICES ASSUME IInv, NEW g \in Gateways, NEW kind \in Kinds, checkout[g][kind] # Missing,
                      pc[g] = "up", g \in Configured, ~lost[g], ~early[g]
               PROVE  binding[g] # Unbound
    BY DEF KnownContentsAreBound
  <2>1. Carries(binding[g], checkout[g])
    BY DEF IInv, CameUpBound
  <2>2. PICK row \in versions : binding[g][kind] = row
    BY <2>1 DEF Carries
  <2>3. row # None
    BY NoRowAssumption DEF IInv, TypeOK
  <2>4. Unbound[kind] = None
    BY DEF Unbound, Kinds
  <2>. QED
    BY <2>2, <2>3, <2>4
<1>. QED
  BY <1>1, Invariant, PTL

\* A bound run names what the gateway that minted it had on disk.
THEOREM BindingsAreTrue == Spec => []RunsCarryTheirVersions
<1>1. IInv => RunsCarryTheirVersions
  BY DEF IInv
<1>. QED
  BY <1>1, Invariant, PTL

=============================================================================
