------------------------------ MODULE Registry ------------------------------
(***************************************************************************)
(* How runs come to carry the prompt, policy and eval versions they ran    *)
(* under: a gateway that starts registers the files of its checkout with   *)
(* the ledger (registry.rs), keeps the ids, and stamps them on every run   *)
(* it mints (provenance.rs).                                               *)
(*                                                                         *)
(* The ledger registers a version with two statements and no transaction:  *)
(* SELECT the row with this content, else INSERT it under a unique index   *)
(* (routes/prompt_versions.rs, policy_versions.rs).  A gateway can lose    *)
(* the answer, die and start again while its call is still being served.   *)
(*                                                                         *)
(* All gateways are configured with one workflow, scope and version.  The  *)
(* content hash of the files is taken as injective, and the id of a row is *)
(* represented by the row.                                                 *)
(***************************************************************************)
EXTENDS Naturals, FiniteSets

CONSTANTS
  Gateways,     \* gateway replicas
  Configured,   \* those with a registry directory
  Contents,     \* contents of a prompt directory or policy file
  Missing,      \* the directory or file is not there
  None,         \* an id that is not there
  Commits,      \* git_sha
  Checkouts,    \* what may be deployed: records with commit, prompt, policy
  Images,       \* per gateway, the checkouts it may be started with
  Evals,        \* eval results CI may post, each by its ran_at
  Runs,         \* runs the gateways may mint
  MaxAbandoned  \* bound on the registrations in flight that nobody waits for

Kinds == {"prompt", "policy"}

ASSUME ConfiguredAssumption == Configured \subseteq Gateways
ASSUME MissingAssumption == Missing \notin Contents
ASSUME NoneAssumption == None \notin Evals \cup Runs /\ None \notin Checkouts
ASSUME MaxAbandonedAssumption == MaxAbandoned \in Nat
ASSUME EvalsAssumption == Evals \subseteq Nat
ASSUME CheckoutsAssumption ==
  Checkouts \subseteq [commit : Commits, prompt : Contents \cup {Missing},
                       policy : Contents \cup {Missing}]
ASSUME ImagesAssumption == Images \in [Gateways -> SUBSET Checkouts]

VARIABLES
  pc,         \* per gateway, where its startup is
  checkout,   \* per gateway that runs, the files it was started with
  out,        \* per gateway, the ResolvedBinding under construction
  binding,    \* per gateway, AppState.binding
  lost,       \* history: this startup lost a call or could not read its files
  early,      \* history: this startup registered a content that had no row yet
  calls,      \* registrations the ledger is serving
  versions,   \* the rows of prompt_versions and policy_versions
  evals,      \* the rows of eval_results
  minted,     \* per run, the files of the gateway that minted it
  stamps,     \* <<run, binding>> calls of bind_run in flight
  bound       \* run_version_bindings

vars == <<pc, checkout, out, binding, lost, early, calls, versions, evals, minted, stamps, bound>>
startVars == <<pc, checkout, out, binding, lost, early>>
runVars == <<minted, stamps, bound>>

Nobody == "nobody"

ASSUME NobodyAssumption == Nobody \notin Gateways

Version == [kind : Kinds, content : Contents, commit : Commits]

ASSUME NoRowAssumption == None \notin Version

Binding == [prompt : {None} \cup Version, policy : {None} \cup Version, eval : {None} \cup Evals]

\* ResolvedBinding::default(); is_empty() compares with it.
Unbound == [prompt |-> None, policy |-> None, eval |-> None]

\* Not started yet, and killed from outside: a gateway that ends by itself is "down".
Stopped == {"down", "killed"}
Resolving == {"prompt", "policy", "eval"}
After(kind) == IF kind = "prompt" THEN "policy" ELSE "eval"

TypeOK ==
  /\ pc \in [Gateways -> {"up"} \cup Stopped \cup Resolving]
  /\ checkout \in [Gateways -> {None} \cup Checkouts]
  /\ out \in [Gateways -> Binding] /\ binding \in [Gateways -> Binding]
  /\ lost \in [Gateways -> BOOLEAN] /\ early \in [Gateways -> BOOLEAN]
  /\ calls \subseteq [by : Gateways \cup {Nobody}, version : Version, found : BOOLEAN]
  /\ versions \subseteq Version
  /\ evals \subseteq Evals
  /\ minted \in [Runs -> {None} \cup Checkouts]
  /\ stamps \subseteq Runs \X Binding
  /\ bound \in [Runs -> {None} \cup Binding]

Init ==
  /\ pc = [g \in Gateways |-> "down"]
  /\ checkout = [g \in Gateways |-> None]
  /\ out = [g \in Gateways |-> Unbound]
  /\ binding = [g \in Gateways |-> Unbound]
  /\ lost = [g \in Gateways |-> FALSE]
  /\ early = [g \in Gateways |-> FALSE]
  /\ calls = {}
  /\ versions = {}
  /\ evals = {}
  /\ minted = [u \in Runs |-> None]
  /\ stamps = {}
  /\ bound = [u \in Runs |-> None]

-----------------------------------------------------------------------------
(* registry::resolve, at startup *)

Waiting(g) == \E c \in calls : c.by = g

\* The calls of a gateway that no longer waits for them.
Abandon(g) == { IF c.by = g THEN [c EXCEPT !.by = Nobody] ELSE c : c \in calls }

\* The process starts with the files of its image.
Boot(g, files) ==
  /\ pc[g] \in Stopped
  /\ pc' = [pc EXCEPT ![g] = IF g \in Configured THEN "prompt" ELSE "up"]
  /\ checkout' = [checkout EXCEPT ![g] = files]
  /\ UNCHANGED <<out, binding, lost, early, calls, versions, evals, runVars>>

NoteEarly(g, kind) ==
  LET known == \E row \in versions : row.kind = kind /\ row.content = checkout[g][kind]
  IN  early' = [early EXCEPT ![g] = early[g] \/ ~known]

\* Mutant of Register: a missing file is registered as if it were there.
RegisterUnchecked(g, kind) ==
  /\ pc[g] = kind /\ ~Waiting(g)
  /\ calls' = calls \cup {[ by |-> g, found |-> FALSE, version |->
       [kind |-> kind, content |-> checkout[g][kind], commit |-> checkout[g].commit] ]}
  /\ NoteEarly(g, kind)
  /\ UNCHANGED <<pc, checkout, out, binding, lost, versions, evals, runVars>>

\* register_prompt_version, register_policy_version
Register(g, kind) ==
  /\ pc[g] = kind /\ ~Waiting(g) /\ checkout[g][kind] # Missing
  /\ calls' = calls \cup {[ by |-> g, found |-> FALSE, version |->
       [kind |-> kind, content |-> checkout[g][kind], commit |-> checkout[g].commit] ]}
  /\ NoteEarly(g, kind)
  /\ UNCHANGED <<pc, checkout, out, binding, lost, versions, evals, runVars>>

SkipMissing(g, kind) ==
  /\ pc[g] = kind /\ checkout[g][kind] = Missing
  /\ pc' = [pc EXCEPT ![g] = After(kind)]
  /\ UNCHANGED <<checkout, out, binding, lost, early, calls, versions, evals, runVars>>

\* The eval results of the workflow and version, by ran_at.
LatestEval == IF evals = {} THEN None ELSE CHOOSE e \in evals : \A f \in evals : f <= e

\* latest_eval_result, and the gateway serves.
LookUpEval(g) ==
  /\ pc[g] = "eval"
  /\ pc' = [pc EXCEPT ![g] = "up"]
  /\ binding' = [binding EXCEPT ![g] = [out[g] EXCEPT !.eval = LatestEval]]
  /\ out' = [out EXCEPT ![g] = Unbound]
  /\ UNCHANGED <<checkout, lost, early, calls, versions, evals, runVars>>

\* Mutant of StartWithout: a registry error ends the process.
StartAborts(g) ==
  /\ pc' = [pc EXCEPT ![g] = "down"]
  /\ checkout' = [checkout EXCEPT ![g] = None]
  /\ out' = [out EXCEPT ![g] = Unbound]
  /\ UNCHANGED binding

\* resolve returns Err: "starting without", and what was resolved is dropped.
StartWithout(g) ==
  /\ pc' = [pc EXCEPT ![g] = "up"]
  /\ out' = [out EXCEPT ![g] = Unbound]
  /\ UNCHANGED <<checkout, binding>>

\* The files cannot be read, or a call fails for the gateway, whatever becomes
\* of it at the ledger.
ResolveFails(g) ==
  /\ \/ pc[g] = "eval"
     \/ pc[g] \in Kinds /\ checkout[g][pc[g]] # Missing
  /\ StartWithout(g)
  /\ lost' = [lost EXCEPT ![g] = TRUE]
  /\ calls' = Abandon(g)
  /\ UNCHANGED <<early, versions, evals, runVars>>

\* The process is killed: a deploy, the kernel, the host.
Crash(g) ==
  /\ pc[g] \notin Stopped
  /\ pc' = [pc EXCEPT ![g] = "killed"]
  /\ checkout' = [checkout EXCEPT ![g] = None]
  /\ out' = [out EXCEPT ![g] = Unbound]
  /\ binding' = [binding EXCEPT ![g] = Unbound]
  /\ lost' = [lost EXCEPT ![g] = FALSE]
  /\ early' = [early EXCEPT ![g] = FALSE]
  /\ calls' = Abandon(g)
  /\ UNCHANGED <<versions, evals, runVars>>

-----------------------------------------------------------------------------
(* The ledger's create handlers *)

\* Mutant of SameVersion: the content hash is left out of the WHERE.
SameVersionAnyContent(v, w) == v.kind = w.kind

\* (workflow, version, content_hash): git_sha is not part of the key.
SameVersion(v, w) == v.kind = w.kind /\ v.content = w.content

\* The row's id reaches the gateway, if it is still waiting for it.
Return(c, row) ==
  /\ calls' = calls \ {c}
  /\ IF c.by \in Gateways
     THEN /\ out' = [out EXCEPT ![c.by][row.kind] = row]
          /\ pc' = [pc EXCEPT ![c.by] = After(row.kind)]
     ELSE UNCHANGED <<out, pc>>
  /\ UNCHANGED <<checkout, binding, lost, early>>

SelectFinds(c) ==
  /\ c \in calls /\ ~c.found
  /\ \E row \in versions : SameVersion(row, c.version) /\ Return(c, row)
  /\ UNCHANGED <<versions, evals, runVars>>

\* Mutant of SelectFindsNothing: the WHERE names the git_sha too.
SelectFindsNothingOfCommit(c) ==
  /\ c \in calls /\ ~c.found
  /\ c.version \notin versions
  /\ calls' = (calls \ {c}) \cup {[c EXCEPT !.found = TRUE]}
  /\ UNCHANGED <<startVars, versions, evals, runVars>>

\* No such row (yet): the handler goes on to its INSERT.
SelectFindsNothing(c) ==
  /\ c \in calls /\ ~c.found
  /\ ~ \E row \in versions : SameVersion(row, c.version)
  /\ calls' = (calls \ {c}) \cup {[c EXCEPT !.found = TRUE]}
  /\ UNCHANGED <<startVars, versions, evals, runVars>>

Insert(c) ==
  /\ c \in calls /\ c.found
  /\ ~ \E row \in versions : SameVersion(row, c.version)
  /\ versions' = versions \cup {c.version}
  /\ Return(c, c.version)
  /\ UNCHANGED <<evals, runVars>>

\* Somebody inserted the content after the SELECT: a unique violation is a 500.
InsertConflict(c) ==
  /\ c \in calls /\ c.found
  /\ \E row \in versions : SameVersion(row, c.version)
  /\ calls' = calls \ {c}
  /\ IF c.by \in Gateways THEN StartWithout(c.by) ELSE UNCHANGED <<pc, checkout, out, binding>>
  /\ UNCHANGED <<lost, early, versions, evals, runVars>>

\* A call nobody waits for is dropped by the ledger.
CallDropped(c) ==
  /\ c \in calls /\ c.by = Nobody
  /\ calls' = calls \ {c}
  /\ UNCHANGED <<startVars, versions, evals, runVars>>

Serve(c) == SelectFinds(c) \/ SelectFindsNothing(c) \/ Insert(c) \/ InsertConflict(c)

\* CI posts the result of a regression run; results may come out of order.
PostEval(e) ==
  /\ evals' = evals \cup {e}
  /\ UNCHANGED <<startVars, calls, versions, runVars>>

-----------------------------------------------------------------------------
(* Runs *)

\* resolve_or_mint_run of a request without a run id.
Mint(g, u) ==
  /\ pc[g] = "up" /\ minted[u] = None
  /\ minted' = [minted EXCEPT ![u] = checkout[g]]
  /\ stamps' = IF binding[g] = Unbound THEN stamps ELSE stamps \cup {<<u, binding[g]>>}
  /\ UNCHANGED <<startVars, calls, versions, evals, bound>>

\* run_bindings::create: write once, and its references must exist.
StampLands(s) ==
  /\ s \in stamps
  /\ stamps' = stamps \ {s}
  /\ bound[s[1]] = None
  /\ \A kind \in Kinds : s[2][kind] \in versions \cup {None}
  /\ bound' = [bound EXCEPT ![s[1]] = s[2]]
  /\ UNCHANGED <<startVars, calls, versions, evals, minted>>

\* bind_run is refused or lost: logged, and the run stays unbound.
StampLost(s) ==
  /\ s \in stamps
  /\ stamps' = stamps \ {s}
  /\ UNCHANGED <<startVars, calls, versions, evals, minted, bound>>

-----------------------------------------------------------------------------
(* Specification *)

StartupStep(g) == (\E kind \in Kinds : Register(g, kind) \/ SkipMissing(g, kind)) \/ LookUpEval(g)

Next ==
  /\ \/ \E g \in Gateways : \/ \E files \in Images[g] : Boot(g, files)
                            \/ StartupStep(g) \/ ResolveFails(g) \/ Crash(g)
                            \/ \E u \in Runs : Mint(g, u)
     \/ \E c \in calls : Serve(c) \/ CallDropped(c)
     \/ \E e \in Evals : PostEval(e)
     \/ \E s \in stamps : StampLands(s) \/ StampLost(s)
  /\ Cardinality({ c \in calls' : c.by = Nobody }) <= MaxAbandoned

Spec == Init /\ [][Next]_vars

\* A gateway that starts is scheduled, and the ledger answers it.
FairSpec ==
  /\ Spec
  /\ \A g \in Gateways : /\ WF_vars(StartupStep(g))
                         /\ WF_vars(\E c \in calls : c.by = g /\ Serve(c))

-----------------------------------------------------------------------------
(* Properties *)

Carries(b, files) ==
  \A kind \in Kinds :
    IF files[kind] = Missing THEN b[kind] = None
    ELSE \E row \in versions : b[kind] = row /\ row.kind = kind /\ row.content = files[kind]

\* A run that has a binding names exactly what the gateway that minted it had
\* on disk, never a part of it and never what another replica or an earlier
\* life of this one was started with; a gateway that failed to resolve stamps
\* nothing.
RunsCarryTheirVersions ==
  /\ \A u \in Runs : bound[u] # None => Carries(bound[u], minted[u])
  /\ \A g \in Gateways : binding[g] # Unbound => Carries(binding[g], checkout[g])

\* A gateway that starts comes up, unless it is killed, even when the ledger
\* refuses what it registers: an unreachable or refusing registry never ends or
\* hangs the gateway by itself.
StartupsEnd == \A g \in Gateways : pc[g] \in Resolving ~> pc[g] \in {"up", "killed"}

\* A gateway whose contents all had rows when it registered them comes up
\* bound: no other replica, no killed startup whose calls go on and no row of
\* another commit can have its registration refused.  This is what holds of
\* the claim below: only the first registration of a content can lose a race.
KnownContentsAreBound ==
  \A g \in Gateways :
    /\ pc[g] = "up" /\ g \in Configured /\ ~lost[g] /\ ~early[g]
    /\ \E kind \in Kinds : checkout[g][kind] # Missing
    => binding[g] # Unbound

\* routes/prompt_versions.rs: "re-registering the same content returns the
\* existing row instead of erroring so gateway startup is idempotent", so a
\* gateway whose calls were all answered is bound to the prompt it has.
StartupIsIdempotent ==
  \A g \in Gateways :
    pc[g] = "up" /\ g \in Configured /\ ~lost[g] /\ checkout[g].prompt # Missing =>
      binding[g] # Unbound

=============================================================================
