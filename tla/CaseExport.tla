----------------------------- MODULE CaseExport -----------------------------
(***************************************************************************)
(* A case of the ledger: evidence is linked to it, its dossier is read, and*)
(* it is exported as a signed bundle, by several ledger replicas over one  *)
(* database, while the operator rotates the signing key.                   *)
(*                                                                         *)
(* Both handlers read in several statements that share no transaction.     *)
(* A piece of evidence is named by a number, in the order of               *)
(* (evidence_type, evidence_id); nothing requires its row to exist when it *)
(* is linked.  SHA-256 and Ed25519 are terms: the hash of a text is the    *)
(* text, a signature is the pair of its key and the text.                  *)
(***************************************************************************)
EXTENDS Naturals, FiniteSets, SequencesExt

CONSTANTS
  Replicas,     \* ledger processes
  Exports,      \* requests to export the case
  Dossiers,     \* requests to read the dossier of the case
  Evidence,     \* linkable evidence, a set of numbers
  Resolvable,   \* evidence of a type that resolve_evidence knows
  Keys,         \* Ed25519 key pairs
  Times,        \* values of signed_at
  None, Malformed,
  MaxStops,     \* bound on processes that stop
  MaxRequests   \* bound on requests that are made

ASSUME EvidenceAssumption == Evidence \subseteq Nat /\ Resolvable \subseteq Evidence
ASSUME KeysAssumption == None \notin Keys /\ Malformed \notin Keys /\ None # Malformed
ASSUME ReplicasAssumption == None \notin Replicas
ASSUME RoutesAssumption == Exports \cap Dossiers = {}
ASSUME BoundsAssumption == MaxStops \in Nat

VARIABLES
  env,          \* LEDGER_ENV
  secret,       \* LEDGER_SIGNING_KEY_HEX, as the next process reads it
  configured,   \* history: keys that were the secret
  issued,       \* history: keys that were the secret or were generated
  key,          \* per replica, the key it signs with, or None while it is down
  stops,        \* how many processes have stopped
  open,         \* the row of the case exists
  links,        \* rows of case_evidence
  rows,         \* committed rows of runs, artifacts and tool_invocations
  pc, host,     \* per request, where its handler is, and in which process
  picked,       \* per request, the evidence it has read from case_evidence
  resolved,     \* per dossier, its entries: evidence and whether it was found
  inserts,      \* INSERTs of bundles that the database may still execute
  bundles,      \* rows of export_bundles
  due           \* history: per request, the evidence it has to show when it arrives

signing == <<env, secret, configured, issued, key, stops>>
tables == <<open, links, rows>>
handlers == <<pc, host, picked, resolved, due>>
vars == <<signing, tables, handlers, inserts, bundles>>

Requests == Exports \cup Dossiers
Active == {"asked", "found", "read", "inserting"}

Manifests == [signed_at : Times, evidence : Seq(Evidence)]
Bundles == [by : Exports, manifest : Manifests, manifest_sha256 : Manifests,
            signature : Keys \X Manifests, public_key : Keys]

TypeOK ==
  /\ env \in {"production", "development"}
  /\ secret \in Keys \cup {None, Malformed}
  /\ configured \subseteq issued /\ issued \subseteq Keys
  /\ key \in [Replicas -> issued \cup {None}]
  /\ stops \in 0 .. MaxStops
  /\ open \in BOOLEAN /\ links \subseteq Evidence /\ rows \subseteq Resolvable
  /\ pc \in [Requests -> {"idle", "replied", "ended"} \cup Active]
  /\ host \in [Requests -> Replicas \cup {None}]
  /\ picked \in [Requests -> Seq(Evidence)]
  /\ resolved \in [Requests -> SUBSET (Evidence \X BOOLEAN)]
  /\ inserts \subseteq Bundles /\ bundles \subseteq Bundles
  /\ due \in [Requests -> SUBSET Evidence]

Init ==
  /\ env \in {"production", "development"}
  /\ secret \in Keys \cup {None}
  /\ configured = {secret} \ {None}
  /\ issued = configured
  /\ key = [r \in Replicas |-> None]
  /\ stops = 0
  /\ open = FALSE /\ links = {} /\ rows = {}
  /\ pc = [q \in Requests |-> "idle"]
  /\ host = [q \in Requests |-> None]
  /\ picked = [q \in Requests |-> <<>>]
  /\ resolved = [q \in Requests |-> {}]
  /\ inserts = {} /\ bundles = {}
  /\ due = [q \in Requests |-> {}]

-----------------------------------------------------------------------------
(* The signing key *)

\* Mutant of Load: production generates a key like any other environment.
LoadLenient ==
  IF secret \in Keys THEN {secret} ELSE IF secret = Malformed THEN {} ELSE Keys \ issued

\* Mutant of Load: what is not 32 bytes of hex is taken as it is.
LoadUnchecked ==
  IF secret # None THEN {secret} ELSE IF env = "production" THEN {} ELSE Keys \ issued

\* The keys a process may start with; with none it refuses to.
Load ==
  IF secret \in Keys THEN {secret}
  ELSE IF secret = Malformed \/ env = "production" THEN {} ELSE Keys \ issued

Start(r) ==
  /\ key[r] = None
  /\ \E k \in Load : key' = [key EXCEPT ![r] = k] /\ issued' = issued \cup {k}
  /\ UNCHANGED <<env, secret, configured, stops, tables, handlers, inserts, bundles>>

\* A rolling restart, or a crash: the handlers of the process die with it.
Stop(r) ==
  /\ key[r] # None /\ stops < MaxStops
  /\ key' = [key EXCEPT ![r] = None]
  /\ stops' = stops + 1
  /\ LET lost == { q \in Requests : host[q] = r } IN
       /\ pc' = [q \in Requests |-> IF q \in lost THEN "ended" ELSE pc[q]]
       /\ host' = [q \in Requests |-> IF q \in lost THEN None ELSE host[q]]
       /\ picked' = [q \in Requests |-> IF q \in lost THEN <<>> ELSE picked[q]]
       /\ resolved' = [q \in Requests |-> IF q \in lost THEN {} ELSE resolved[q]]
  /\ UNCHANGED <<env, secret, configured, issued, tables, inserts, bundles, due>>

\* The operator puts a new seed into the secret, mistypes it, or loses it.
Rotate ==
  /\ \E s \in ((Keys \ issued) \cup {None, Malformed}) \ {secret} :
       /\ secret' = s
       /\ configured' = configured \cup ({s} \cap Keys)
       /\ issued' = issued \cup ({s} \cap Keys)
  /\ UNCHANGED <<env, key, stops, tables, handlers, inserts, bundles>>

-----------------------------------------------------------------------------
(* Writers *)

OpenCase ==
  /\ ~ open /\ open' = TRUE
  /\ UNCHANGED <<signing, links, rows, handlers, inserts, bundles>>

CommitRow(e) ==
  /\ e \in Resolvable \ rows /\ rows' = rows \cup {e}
  /\ UNCHANGED <<signing, open, links, handlers, inserts, bundles>>

\* A link that is there already is a 409, one to no case violates its foreign key.
Link(e) ==
  /\ open /\ e \notin links
  /\ links' = links \cup {e}
  /\ UNCHANGED <<signing, open, rows, handlers, inserts, bundles>>

-----------------------------------------------------------------------------
(* Handlers of both requests *)

Goto(q, place) == pc' = [pc EXCEPT ![q] = place]

\* The handler returns and its locals are gone; what a dossier told stays.
Return(q, place) ==
  /\ Goto(q, place)
  /\ host' = [host EXCEPT ![q] = None]
  /\ picked' = [picked EXCEPT ![q] = <<>>]
  /\ resolved' = IF place = "replied" THEN resolved ELSE [resolved EXCEPT ![q] = {}]

Receive(q, r) ==
  /\ pc[q] = "idle" /\ key[r] # None
  /\ Cardinality({ p \in Requests : pc[p] # "idle" }) < MaxRequests
  /\ Goto(q, "asked")
  /\ host' = [host EXCEPT ![q] = r]
  /\ due' = [due EXCEPT ![q] = IF q \in Exports THEN links ELSE links \cap rows]
  /\ UNCHANGED <<signing, tables, picked, resolved, inserts, bundles>>

FindCase(q) ==
  /\ pc[q] = "asked" /\ open
  /\ Goto(q, "found")
  /\ UNCHANGED <<signing, tables, host, picked, resolved, due, inserts, bundles>>

CaseMissing(q) ==
  /\ pc[q] = "asked" /\ ~ open
  /\ Return(q, "ended")
  /\ UNCHANGED <<signing, tables, due, inserts, bundles>>

\* Mutant of Listings: the query has lost its ORDER BY.
ListingsUnordered(q, S) == SetToSeqs(S)

\* By strictly growing type and id.
Sorted(l) == \A i, j \in 1 .. Len(l) : i < j => l[i] < l[j]

\* What the query for the links may answer.  An export orders by type and id; a
\* dossier by linked_at, which clients choose, so in any order.
Listings(q, S) == { l \in SetToSeqs(S) : q \in Exports => Sorted(l) }

\* Mutant of ReadLinks: only the first page of the links is read.
ReadLinksPage(q) ==
  /\ pc[q] = "found"
  /\ \E l \in Listings(q, links) : 
       picked' = [picked EXCEPT ![q] = IF Len(l) > 1 THEN <<l[1]>> ELSE l]
  /\ Goto(q, "read")
  /\ UNCHANGED <<signing, tables, host, resolved, due, inserts, bundles>>

ReadLinks(q) ==
  /\ pc[q] = "found"
  /\ \E l \in Listings(q, links) : picked' = [picked EXCEPT ![q] = l]
  /\ Goto(q, "read")
  /\ UNCHANGED <<signing, tables, host, resolved, due, inserts, bundles>>

\* A statement fails, or its answer is lost.
HandlerFails(q) ==
  /\ pc[q] \in Active
  /\ Return(q, "ended")
  /\ UNCHANGED <<signing, tables, due, inserts, bundles>>

-----------------------------------------------------------------------------
(* export_bundles::create *)

Bundle(x, manifest, k) ==
  [by |-> x, manifest |-> manifest, manifest_sha256 |-> manifest,
   signature |-> <<k, manifest>>, public_key |-> k]

\* signed_at is the client's, or the clock's now.
SignAndInsert(x) ==
  /\ pc[x] = "read"
  /\ \E t \in Times :
       inserts' = inserts \cup
         {Bundle(x, [signed_at |-> t, evidence |-> picked[x]], key[host[x]])}
  /\ Goto(x, "inserting")
  /\ UNCHANGED <<signing, tables, host, picked, resolved, due, bundles>>

InsertLands(b) ==
  /\ b \in inserts
  /\ bundles' = bundles \cup {b} /\ inserts' = inserts \ {b}
  /\ UNCHANGED <<signing, tables, handlers>>

InsertLost(b) ==
  /\ b \in inserts
  /\ inserts' = inserts \ {b}
  /\ UNCHANGED <<signing, tables, handlers, bundles>>

ReplyBundle(x) ==
  /\ pc[x] = "inserting" /\ \E b \in bundles : b.by = x
  /\ Return(x, "replied")
  /\ UNCHANGED <<signing, tables, due, inserts, bundles>>

-----------------------------------------------------------------------------
(* cases::dossier *)

Entries(d) == { e[1] : e \in resolved[d] }

\* Mutant of Resolve: a query that fails counts as one that finds nothing.
ResolveSwallowing(d) ==
  /\ pc[d] = "read" /\ Cardinality(Entries(d)) < Len(picked[d])
  /\ LET e == picked[d][Cardinality(Entries(d)) + 1] IN
       \E found \in {FALSE, (e \in Resolvable \cap rows)} :
         resolved' = [resolved EXCEPT ![d] = @ \cup {<<e, found>>}]
  /\ UNCHANGED <<signing, tables, pc, host, picked, due, inserts, bundles>>

\* The lookups follow the list of the links, one query each.
Resolve(d) ==
  /\ pc[d] = "read" /\ Cardinality(Entries(d)) < Len(picked[d])
  /\ LET e == picked[d][Cardinality(Entries(d)) + 1] IN
       resolved' = [resolved EXCEPT ![d] = @ \cup {<<e, e \in Resolvable \cap rows>>}]
  /\ UNCHANGED <<signing, tables, pc, host, picked, due, inserts, bundles>>

ReplyDossier(d) ==
  /\ pc[d] = "read" /\ Cardinality(Entries(d)) = Len(picked[d])
  /\ Return(d, "replied")
  /\ UNCHANGED <<signing, tables, due, inserts, bundles>>

-----------------------------------------------------------------------------
(* Specification *)

Next ==
  \/ \E r \in Replicas : Start(r) \/ Stop(r)
  \/ Rotate \/ OpenCase
  \/ \E e \in Evidence : CommitRow(e) \/ Link(e)
  \/ \E q \in Requests :
       (\E r \in Replicas : Receive(q, r)) \/ FindCase(q) \/ CaseMissing(q)
       \/ ReadLinks(q) \/ HandlerFails(q)
  \/ \E x \in Exports : SignAndInsert(x) \/ ReplyBundle(x)
  \/ \E b \in inserts : InsertLands(b) \/ InsertLost(b)
  \/ \E d \in Dossiers : Resolve(d) \/ ReplyDossier(d)

Spec == Init /\ [][Next]_vars

-----------------------------------------------------------------------------
(* The offline verifier *)

\* verify_bundle: the hash is of the manifest, the signature is of the manifest
\* and by the key the bundle itself carries.
VerifyBundle(b) ==
  /\ b.manifest_sha256 = b.manifest
  /\ b.signature = <<b.public_key, b.manifest>>

-----------------------------------------------------------------------------
(* Properties *)

\* An export is not a snapshot: its evidence is read after the case and before
\* signed_at.  A bundle holds every link that was there when it was asked for,
\* and none that is not there now.
ExportIsBracketed ==
  \A b \in bundles :
    /\ due[b.by] \subseteq ToSet(b.manifest.evidence)
    /\ ToSet(b.manifest.evidence) \subseteq links

\* "Two exports with the same fixed_signed_at produce byte-identical manifests
\* and signatures", on whichever replica, in whatever order the evidence was
\* linked, as long as evidence and key are the same.  Every bundle verifies, and
\* in production it does so under a key that was configured, through rotations,
\* crashes and INSERTs that land after their process is gone.
BundlesAreReproducible ==
  \A b \in bundles :
    /\ VerifyBundle(b)
    /\ env = "production" => b.public_key \in configured
    /\ \A c \in bundles :
         /\ b.manifest.signed_at = c.manifest.signed_at
         /\ ToSet(b.manifest.evidence) = ToSet(c.manifest.evidence)
         /\ b.public_key = c.public_key
         => b.manifest = c.manifest /\ b.signature = c.signature

\* No link and no row that was there when a dossier was asked for is missing
\* from it: evidence is shown as unresolved only if its row was committed later
\* than that, or not at all, or its type is not known.
DossierResolvesOlder ==
  \A d \in Dossiers : pc[d] = "replied" => due[d] \X {TRUE} \subseteq resolved[d]

=============================================================================
