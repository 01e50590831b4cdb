----------------------------- MODULE ModelProxy -----------------------------
(***************************************************************************)
(* trackward-model-proxy: the HTTP proxy between an agent and a model API  *)
(* that mirrors every exchange into the ledger.                            *)
(*                                                                         *)
(* ThreadingHTTPServer serves each exchange in a thread of its own.  The   *)
(* threads share one variable, _run_id, without a lock: a thread that      *)
(* finds it None posts a new run to the ledger and assigns the answer,     *)
(* with other threads running in between.  A call that failed for the      *)
(* proxy may still be applied, later.  The timeouts of the calls bound     *)
(* each socket operation and not the call: a peer whose answer trickles    *)
(* without end keeps its thread for ever.                                  *)
(*                                                                         *)
(* An exchange mints at most one run, so a run is named by its exchange.   *)
(***************************************************************************)
EXTENDS Naturals, FiniteSets, Sequences

CONSTANTS
  Exchanges,    \* requests of the agent
  None,         \* Python's None
  MaxRestarts   \* bound on restarts of the proxy

ASSUME NoneAssumption == None \notin Exchanges
ASSUME RestartsAssumption == MaxRestarts \in Nat

VARIABLES
  failLoud,   \* TRACKWARD_FAIL_LOUD is set
  runId,      \* the global _run_id
  pc,         \* per exchange, where its thread is
  run,        \* per exchange, the local `run`
  shape,      \* per exchange, which of its two bodies is JSON but no object
  calls,      \* posts that the ledger may still apply
  ledger,     \* per exchange, what the ledger committed for it, in order
  restarts,   \* how often the proxy was restarted
  life,       \* history: per exchange, after how many restarts it arrived
  rivals,     \* history: pairs of exchanges that minted at the same time
  gaveUp      \* history: posts that failed for the proxy

vars == <<failLoud, runId, pc, run, shape, calls, ledger, restarts, life, rivals, gaveUp>>

observed == <<life, rivals, gaveUp>>

Kinds == {"run", "model_request", "model_response"}
Active == {"upstream", "ensuring", "minting", "minted", "request", "response", "recorded"}

\* A post of exchange x; of a new run, the run it creates is x itself.
Post(x, kind, u) == [by |-> x, kind |-> kind, run |-> u]
Posts == [by : Exchanges, kind : Kinds, run : Exchanges]

TypeOK ==
  /\ failLoud \in BOOLEAN
  /\ runId \in Exchanges \cup {None}
  /\ pc \in [Exchanges -> {"idle", "replied", "raised", "held", "killed"} \cup Active]
  /\ run \in [Exchanges -> Exchanges \cup {None}]
  /\ shape \in [Exchanges -> {"objects", "request", "response"}]
  /\ calls \subseteq Posts
  /\ ledger \in [Exchanges -> Seq(Posts)]
  /\ restarts \in 0 .. MaxRestarts
  /\ life \in [Exchanges -> 0 .. MaxRestarts]
  /\ rivals \subseteq Exchanges \X Exchanges
  /\ gaveUp \subseteq Posts

Init ==
  /\ failLoud \in BOOLEAN
  /\ runId = None
  /\ pc = [x \in Exchanges |-> "idle"]
  /\ run = [x \in Exchanges |-> None]
  /\ shape = [x \in Exchanges |-> "objects"]
  /\ calls = {}
  /\ ledger = [x \in Exchanges |-> <<>>]
  /\ restarts = 0
  /\ life = [x \in Exchanges |-> 0]
  /\ rivals = {}
  /\ gaveUp = {}

-----------------------------------------------------------------------------
(* The ledger, as _ledger_post sees it *)

Committed(c) == \E i \in 1 .. Len(ledger[c.by]) : ledger[c.by][i] = c

\* POST /runs or /runs/{id}/events is applied, for whoever still waits for it.
LedgerApplies(c) ==
  /\ c \in calls
  /\ ledger' = [ledger EXCEPT ![c.by] = Append(@, c)]
  /\ calls' = calls \ {c}
  /\ UNCHANGED <<failLoud, runId, pc, run, shape, restarts, observed>>

LedgerRefuses(c) ==
  /\ c \in calls
  /\ calls' = calls \ {c}
  /\ UNCHANGED <<failLoud, runId, pc, run, shape, ledger, restarts, observed>>

Goto(x, place) == pc' = [pc EXCEPT ![x] = place]

Send(c) == calls' = calls \cup {c}

\* Mutant of Raise: TRACKWARD_FAIL_LOUD is honoured by post_event only.
RaiseQuietly(x) == Goto(x, "recorded")

\* An exception inside the recording block.
Raise(x) == Goto(x, IF failLoud THEN "raised" ELSE "recorded")

\* Mutant of PostDone: the post is not waited for.
PostDoneUnawaited(x, c) == c.by = x /\ UNCHANGED gaveUp

\* post_event returns: the post was answered, or it failed and that is printed.
PostDone(x, c) ==
  \/ Committed(c) /\ UNCHANGED gaveUp
  \/ ~ failLoud /\ gaveUp' = gaveUp \cup {c}

\* post_event raises: refused, nothing read for 10 seconds, or no connection.
PostRaises(x, c) == failLoud /\ Raise(x) /\ gaveUp' = gaveUp \cup {c}

-----------------------------------------------------------------------------
(* _proxy, one thread per exchange *)

Receive(x) ==
  /\ pc[x] = "idle"
  /\ Goto(x, "upstream")
  /\ life' = [life EXCEPT ![x] = restarts]
  /\ UNCHANGED <<failLoud, runId, run, shape, calls, ledger, restarts, rivals, gaveUp>>

\* The upstream answers, is silent for 300 seconds, or breaks off: there is a
\* body, its own or the proxy's 502.  A body that is no JSON is recorded by its
\* length.
UpstreamAnswers(x) ==
  /\ pc[x] = "upstream"
  /\ \E s \in {"objects", "request", "response"} : shape' = [shape EXCEPT ![x] = s]
  /\ Goto(x, "ensuring")
  /\ UNCHANGED <<failLoud, runId, run, calls, ledger, restarts, observed>>

\* The body of an HTTP error breaks off: e.read() is inside an except clause, so
\* what it raises is caught by no other and the thread dies, loud or not.
ErrorBodyBreaksOff(x) ==
  /\ pc[x] = "upstream"
  /\ Goto(x, "raised")
  /\ UNCHANGED <<failLoud, runId, run, shape, calls, ledger, restarts, observed>>

\* The answer of the upstream or of the ledger trickles for ever, or the agent
\* does not take its own: no socket operation fails, and none is the last.
Held(x) ==
  /\ pc[x] \in {"upstream", "minting", "request", "response", "recorded"}
  /\ Goto(x, "held")
  /\ UNCHANGED <<failLoud, runId, run, shape, calls, ledger, restarts, observed>>

\* Mutant of StartMint: every exchange opens a run.
StartMintAlways(x) ==
  /\ pc[x] = "ensuring"
  /\ Send(Post(x, "run", x))
  /\ rivals' = rivals \cup ({x} \X { y \in Exchanges : pc[y] = "minting" })
  /\ Goto(x, "minting")
  /\ UNCHANGED <<failLoud, runId, run, shape, ledger, restarts, life, gaveUp>>

\* ensure_run, `_run_id is None`.
StartMint(x) ==
  /\ pc[x] = "ensuring" /\ runId = None
  /\ Send(Post(x, "run", x))
  /\ rivals' = rivals \cup ({x} \X { y \in Exchanges : pc[y] = "minting" })
  /\ Goto(x, "minting")
  /\ UNCHANGED <<failLoud, runId, run, shape, ledger, restarts, life, gaveUp>>

\* The run is there; the assignment overwrites what another thread assigned.
Minted(x) ==
  /\ pc[x] = "minting" /\ Committed(Post(x, "run", x))
  /\ runId' = x
  /\ Goto(x, "minted")
  /\ UNCHANGED <<failLoud, run, shape, calls, ledger, restarts, observed>>

MintFails(x) ==
  /\ pc[x] = "minting"
  /\ Raise(x)
  /\ gaveUp' = gaveUp \cup {Post(x, "run", x)}
  /\ UNCHANGED <<failLoud, runId, run, shape, calls, ledger, restarts, life, rivals>>

\* Mutant of TakeRun: _run_id is read once, before the mint.
TakeRunStale(x) ==
  /\ pc[x] \in {"ensuring", "minted"} /\ runId # None
  /\ run' = [run EXCEPT ![x] = IF pc[x] = "minted" THEN None ELSE runId]
  /\ Send(Post(x, "model_request", run'[x])) /\ Goto(x, "request")
  /\ UNCHANGED <<failLoud, runId, shape, ledger, restarts, observed>>

\* ensure_run returns _run_id as it is now, not as this thread assigned it.
\* req_json.get raises if the request was no object; otherwise its event is
\* posted.
TakeRun(x) ==
  /\ pc[x] \in {"ensuring", "minted"} /\ runId # None
  /\ run' = [run EXCEPT ![x] = runId]
  /\ \/ shape[x] = "request" /\ Raise(x) /\ UNCHANGED calls
     \/ shape[x] # "request" /\ Send(Post(x, "model_request", runId)) /\ Goto(x, "request")
  /\ UNCHANGED <<failLoud, runId, shape, ledger, restarts, observed>>

RequestPosted(x) ==
  /\ pc[x] = "request"
  /\ PostDone(x, Post(x, "model_request", run[x]))
  /\ \/ shape[x] = "response" /\ Raise(x) /\ UNCHANGED calls
     \/ shape[x] # "response" /\ Send(Post(x, "model_response", run[x])) /\ Goto(x, "response")
  /\ UNCHANGED <<failLoud, runId, run, shape, ledger, restarts, life, rivals>>

RequestRaises(x) ==
  /\ pc[x] = "request"
  /\ PostRaises(x, Post(x, "model_request", run[x]))
  /\ UNCHANGED <<failLoud, runId, run, shape, calls, ledger, restarts, life, rivals>>

ResponsePosted(x) ==
  /\ pc[x] = "response"
  /\ PostDone(x, Post(x, "model_response", run[x]))
  /\ Goto(x, "recorded")
  /\ UNCHANGED <<failLoud, runId, run, shape, calls, ledger, restarts, life, rivals>>

ResponseRaises(x) ==
  /\ pc[x] = "response"
  /\ PostRaises(x, Post(x, "model_response", run[x]))
  /\ UNCHANGED <<failLoud, runId, run, shape, calls, ledger, restarts, life, rivals>>

\* Mutant of Reply: nobody is answered whose exchange is not in the ledger.
ReplyRecordedOnly(x) ==
  /\ pc[x] = "recorded" /\ run[x] # None
  /\ Goto(x, "replied")
  /\ UNCHANGED <<failLoud, runId, run, shape, calls, ledger, restarts, observed>>

Reply(x) ==
  /\ pc[x] = "recorded"
  /\ Goto(x, "replied")
  /\ UNCHANGED <<failLoud, runId, run, shape, calls, ledger, restarts, observed>>

\* The process ends and is started again: its threads die with it, what it
\* posted does not.
Restart ==
  /\ restarts < MaxRestarts
  /\ restarts' = restarts + 1
  /\ runId' = None
  /\ pc' = [x \in Exchanges |-> IF pc[x] \in Active \cup {"held"} THEN "killed" ELSE pc[x]]
  /\ UNCHANGED <<failLoud, run, shape, calls, ledger, observed>>

-----------------------------------------------------------------------------
(* Specification *)

ThreadStep(x) ==
  \/ UpstreamAnswers(x) \/ ErrorBodyBreaksOff(x) \/ StartMint(x) \/ Minted(x) \/ MintFails(x) \/ TakeRun(x)
  \/ RequestPosted(x) \/ RequestRaises(x) \/ ResponsePosted(x) \/ ResponseRaises(x)
  \/ Reply(x)

Next == \/ \E x \in Exchanges : Receive(x) \/ ThreadStep(x) \/ Held(x)
        \/ \E c \in calls : LedgerApplies(c) \/ LedgerRefuses(c)
        \/ Restart

Spec == Init /\ [][Next]_vars

\* The interpreter runs every thread, and every socket operation ends: with data,
\* an error, or after 300 seconds (upstream) or 10 (ledger).  So a thread moves on
\* unless it is held by an answer that never does.
FairSpec == Spec /\ \A x \in Exchanges : WF_vars(ThreadStep(x))

-----------------------------------------------------------------------------
(* Properties *)

Request(x) == Post(x, "model_request", run[x])
Response(x) == Post(x, "model_response", run[x])

\* Line 91: "Audit-grade installs use TRACKWARD_FAIL_LOUD=1 to switch to
\* hard-stop semantics", so an agent that gets an answer from such a proxy is
\* on record with its request and with that answer.
HardStop ==
  \A x \in Exchanges : failLoud /\ pc[x] = "replied" =>
                         Committed(Request(x)) /\ Committed(Response(x))

\* "All traffic seen by the proxy maps to a single Trackward run": two exchanges
\* of one life of the proxy are in the same run, unless the mints of their runs
\* overlapped.
OneRunUnlessRaced ==
  \A x, y \in Exchanges :
    life[x] = life[y] /\ None \notin {run[x], run[y]} /\ run[x] # run[y] =>
      <<run[x], run[y]>> \in rivals \/ <<run[y], run[x]>> \in rivals

\* What the ledger holds of an exchange is in one run, that the ledger knows.
\* The answer comes after the request, or the proxy had given up on posting
\* the request, which the ledger may then apply late or never.
AnswerFollowsRequest ==
  \A x \in Exchanges : \A i \in 1 .. Len(ledger[x]) :
    LET c == ledger[x][i] IN
    c.kind # "run" =>
      /\ c.run = run[x] /\ Committed(Post(run[x], "run", run[x]))
      /\ \A j \in 1 .. i - 1 : ledger[x][j] # c
      /\ c.kind = "model_response" =>
           Request(x) \in gaveUp \/ \E j \in 1 .. i - 1 : ledger[x][j] = Request(x)

\* Line 89: "Never block the proxy on a ledger failure".  Every exchange ends or
\* is held by a peer of its own, whatever holds the others; and once the upstream
\* has answered it ends with an answer to the agent, unless failures are to be
\* loud, however the mint or the posts fare.
EveryExchangeIsAnswered ==
  \A x \in Exchanges :
    /\ pc[x] \in Active ~> pc[x] \in {"replied", "raised", "held", "killed"}
    /\ pc[x] \in Active \ {"upstream"} /\ ~failLoud ~> pc[x] \in {"replied", "held", "killed"}

=============================================================================
