--------------------------- MODULE ModelProxyProofs ---------------------------
(***************************************************************************)
(* Proofs about ModelProxy, for any number of exchanges and restarts.      *)
(***************************************************************************)
EXTENDS ModelProxy, TLAPS

-----------------------------------------------------------------------------
(* The inductive invariant *)

\* Runs that some thread has assigned: to _run_id, and then to its own `run`.
Owners == ({runId} \cup { run[x] : x \in Exchanges }) \ {None}

Rivalled(x, y) == <<x, y>> \in rivals \/ <<y, x>> \in rivals

\* Threads run in the life of the proxy they arrived in.
LivesInOrder ==
  \A x \in Exchanges : /\ life[x] <= restarts
                       /\ pc[x] \in Active => life[x] = restarts

\* A run belongs to the life of whoever has it; a life that has a run has it in
\* _run_id until it ends; and exchanges that have not begun own nothing.
OwnersInOrder ==
  /\ \A x \in Exchanges : run[x] # None =>
       /\ life[run[x]] = life[x]
       /\ life[x] = restarts => runId # None
       /\ pc[x] # "idle" /\ pc[run[x]] # "idle"
  /\ runId # None => life[runId] = restarts /\ pc[runId] # "idle"

\* Runs of one life were minted at the same time, as were a run of the present
\* life and those that are being minted.
MintsRaced ==
  /\ \A x, y \in Owners : x # y /\ life[x] = life[y] => Rivalled(x, y)
  /\ \A x, y \in Exchanges : x # y /\ pc[x] = "minting" /\ pc[y] = "minting" => Rivalled(x, y)
  /\ \A x \in Owners, y \in Exchanges :
       x # y /\ life[x] = restarts /\ pc[y] = "minting" => Rivalled(x, y)

\* A run that somebody owns is in the ledger, and a thread owns one when it
\* begins to record.
OwnersAreCommitted ==
  /\ \A x \in Exchanges : run[x] # None => Committed(Post(run[x], "run", run[x]))
  /\ runId # None => Committed(Post(runId, "run", runId))
  /\ \A x \in Exchanges : pc[x] \in {"request", "response"} => run[x] # None
  /\ \A x \in Exchanges : pc[x] \in {"idle", "upstream", "ensuring", "minting", "minted"} => run[x] = None

Sent(c) == c \in calls \/ Committed(c)

\* What is posted, and where a thread must have come to post it.
PostsInOrder ==
  /\ \A c \in Posts : Sent(c) /\ c.kind # "run" => c.run = run[c.by] /\ run[c.by] # None
  /\ \A x \in Exchanges, u \in Exchanges :
       pc[x] = "request" => ~ Sent(Post(x, "model_response", u))
  /\ \A c \in calls : c.kind # "run" => ~ Committed(c)
  /\ \A x \in Exchanges : Sent(Response(x)) => Committed(Request(x)) \/ Request(x) \in gaveUp

\* Behind a loud failure nothing goes on.
LoudPostsAreDone ==
  \A x \in Exchanges : failLoud =>
    /\ pc[x] \in {"response", "recorded", "replied"} => Committed(Request(x))
    /\ pc[x] \in {"recorded", "replied"} => Committed(Response(x))

IInv == /\ TypeOK /\ LivesInOrder /\ OwnersInOrder /\ MintsRaced /\ OwnersAreCommitted
        /\ PostsInOrder /\ LoudPostsAreDone /\ AnswerFollowsRequest

-----------------------------------------------------------------------------
(* Lemmas *)

LEMMA PostType ==
  ASSUME NEW x \in Exchanges, NEW kind \in Kinds, NEW u \in Exchanges
  PROVE  Post(x, kind, u) \in Posts
  BY DEF Post, Posts

\* Only posts are committed, so nothing is for a thread without a run.
LEMMA CommittedType ==
  ASSUME TypeOK, NEW c, c.by \in Exchanges, Committed(c)
  PROVE  c \in Posts
  BY DEF TypeOK, Committed

LEMMA NoRunNoPost ==
  ASSUME TypeOK, NEW x \in Exchanges, NEW kind, Sent(Post(x, kind, run[x]))
  PROVE  run[x] # None
<1> DEFINE c == Post(x, kind, run[x])
<1>1. c.by = x /\ c.run = run[x]
  BY DEF Post
<1>2. c \in Posts
  BY <1>1, CommittedType DEF Sent, TypeOK
<1>. QED
  BY <1>1, <1>2, NoneAssumption DEF Posts

LEMMA InitIInv == Init => IInv
<1> SUFFICES ASSUME Init
             PROVE  IInv
  OBVIOUS
<1>1. \A c : c.by \in Exchanges => ~ Sent(c)
  BY DEF Init, Sent, Committed
<1>2. TypeOK
  BY RestartsAssumption DEF Init, TypeOK, Active
<1>3. LivesInOrder /\ OwnersInOrder /\ MintsRaced /\ LoudPostsAreDone
  BY DEF Init, LivesInOrder, OwnersInOrder, MintsRaced, LoudPostsAreDone, Owners, Active
<1>4. OwnersAreCommitted
  BY DEF Init, OwnersAreCommitted
<1>5. PostsInOrder
  <2>1. \A c \in Posts : c.by \in Exchanges
    BY DEF Posts
  <2>2. \A x \in Exchanges : \A k, u : Post(x, k, u).by \in Exchanges
    BY DEF Post
  <2>. QED
    BY <1>1, <2>1, <2>2 DEF Init, PostsInOrder, Response
<1>6. AnswerFollowsRequest
  BY DEF Init, AnswerFollowsRequest
<1>. QED
  BY <1>2, <1>3, <1>4, <1>5, <1>6 DEF IInv

\* What a thread does without touching the run leaves the mints as they are.
LEMMA MintsUntouched ==
  ASSUME IInv, UNCHANGED <<runId, run, life, restarts, rivals>>,
         \A x \in Exchanges : pc'[x] \in Active => pc[x] \in Active,
         \A x \in Exchanges : pc'[x] = "minting" => pc[x] = "minting",
         \A x \in Exchanges : pc'[x] = "idle" => pc[x] = "idle"
  PROVE  LivesInOrder' /\ OwnersInOrder' /\ MintsRaced'
<1>. USE DEF IInv
<1>1. LivesInOrder'
  BY DEF LivesInOrder
<1>2. OwnersInOrder'
  BY DEF OwnersInOrder, TypeOK
<1>3. MintsRaced'
  BY DEF MintsRaced, Owners, Rivalled
<1>. QED
  BY <1>1, <1>2, <1>3

\* Entries stand as they are while the ledger does, and who has one keeps its run.
LEMMA LedgerUntouched ==
  ASSUME TypeOK, AnswerFollowsRequest, ledger' = ledger, gaveUp \subseteq gaveUp',
         \A x \in Exchanges : run[x] # None => run'[x] = run[x]
  PROVE  AnswerFollowsRequest'
<1> SUFFICES ASSUME NEW x \in Exchanges, NEW i \in 1 .. Len(ledger[x]), ledger[x][i].kind # "run"
             PROVE  LET c == ledger[x][i] IN
                    /\ c.run = run'[x] /\ Committed(Post(run[x], "run", run[x]))'
                    /\ \A j \in 1 .. i - 1 : ledger[x][j] # c
                    /\ c.kind = "model_response" =>
                         Request(x)' \in gaveUp' \/ \E j \in 1 .. i - 1 : ledger[x][j] = Request(x)'
  BY DEF AnswerFollowsRequest
<1> DEFINE c == ledger[x][i]
<1>1. /\ c.run = run[x] /\ Committed(Post(run[x], "run", run[x]))
      /\ \A j \in 1 .. i - 1 : ledger[x][j] # c
      /\ c.kind = "model_response" =>
           Request(x) \in gaveUp \/ \E j \in 1 .. i - 1 : ledger[x][j] = Request(x)
  BY DEF AnswerFollowsRequest
<1>2. c \in Posts
  BY DEF TypeOK
<1>3. run'[x] = run[x]
  BY <1>1, <1>2, NoneAssumption DEF Posts
<1>4. Request(x)' = Request(x)
  BY <1>3 DEF Request
<1>5. Committed(Post(run[x], "run", run[x]))'
  BY <1>1, <1>3 DEF Committed
<1>. QED
  BY <1>1, <1>3, <1>4, <1>5

-----------------------------------------------------------------------------
(* The ledger *)

\* A post that lands was sent, was not there before, and stands on what was.
LEMMA LedgerAppliesIInv ==
  ASSUME IInv, NEW c \in calls, LedgerApplies(c)
  PROVE  IInv'
<1>. USE DEF IInv
<1>1. /\ ledger' = [ledger EXCEPT ![c.by] = Append(@, c)] /\ calls' = calls \ {c}
      /\ UNCHANGED <<failLoud, runId, pc, run, shape, restarts, life, rivals, gaveUp>>
  BY DEF LedgerApplies, observed
<1>2. c \in Posts /\ c.by \in Exchanges /\ ledger[c.by] \in Seq(Posts)
  BY DEF TypeOK, Posts
<1>3. /\ Len(ledger'[c.by]) = Len(ledger[c.by]) + 1
      /\ ledger'[c.by][Len(ledger[c.by]) + 1] = c
      /\ \A i \in 1 .. Len(ledger[c.by]) : ledger'[c.by][i] = ledger[c.by][i]
      /\ \A x \in Exchanges \ {c.by} : ledger'[x] = ledger[x]
      /\ Len(ledger[c.by]) \in Nat
  BY <1>1, <1>2 DEF TypeOK
<1>4. TypeOK'
  BY <1>1, <1>2 DEF TypeOK
<1>5. \A d : d.by \in Exchanges => (Committed(d)' <=> Committed(d) \/ d = c)
  <2> TAKE d
  <2> HAVE d.by \in Exchanges
  <2>1. CASE d.by = c.by
    <3> DEFINE n == Len(ledger[c.by])
    <3>1. n \in Nat /\ Len(ledger'[c.by]) = n + 1 /\ ledger'[c.by][n + 1] = c
      BY <1>3
    <3>2. \A i \in 1 .. n : ledger'[c.by][i] = ledger[c.by][i]
      BY <1>3
    <3>3. /\ Committed(d) <=> \E i \in 1 .. n : ledger[c.by][i] = d
          /\ Committed(d)' <=> \E i \in 1 .. n + 1 : ledger'[c.by][i] = d
      BY <2>1, <3>1 DEF Committed
    <3> HIDE DEF n
    <3>. QED
      BY <3>1, <3>2, <3>3
  <2>2. CASE d.by # c.by
    BY <2>2, <1>3 DEF Committed
  <2>. QED
    BY <2>1, <2>2
<1>6. \A d : d.by \in Exchanges => (Sent(d)' <=> Sent(d))
  BY <1>1, <1>5 DEF Sent
<1>7. \A x \in Exchanges : \A k, u : Post(x, k, u).by \in Exchanges
  BY DEF Post
<1>8. LivesInOrder' /\ OwnersInOrder' /\ MintsRaced'
  BY <1>1, MintsUntouched
<1>9. OwnersAreCommitted'
  BY <1>1, <1>5, <1>7 DEF OwnersAreCommitted, TypeOK
<1>10. LoudPostsAreDone'
  BY <1>1, <1>5, <1>7 DEF LoudPostsAreDone, Request, Response
<1>11. PostsInOrder'
  <2>1. \A d \in Posts : d.by \in Exchanges
    BY DEF Posts
  <2>2. \A d \in calls' : d \in Posts /\ d # c
    BY <1>1 DEF TypeOK
  <2>3. \A x \in Exchanges : Sent(Response(x))' => Committed(Request(x))' \/ Request(x)' \in gaveUp'
    BY <1>1, <1>5, <1>6, <1>7 DEF PostsInOrder, Request, Response
  <2>4. \A d \in Posts : Sent(d)' /\ d.kind # "run" => d.run = run'[d.by] /\ run'[d.by] # None
    BY <1>1, <1>6, <2>1 DEF PostsInOrder
  <2>5. \A x \in Exchanges, u \in Exchanges : pc'[x] = "request" => ~ Sent(Post(x, "model_response", u))'
    BY <1>1, <1>6, <1>7 DEF PostsInOrder
  <2>6. \A d \in calls' : d.kind # "run" => ~ Committed(d)'
    BY <1>1, <1>5, <2>1, <2>2 DEF PostsInOrder
  <2>. QED
    BY <2>3, <2>4, <2>5, <2>6 DEF PostsInOrder
<1>12. AnswerFollowsRequest'
  <2> SUFFICES ASSUME NEW x \in Exchanges, NEW i \in 1 .. Len(ledger'[x]), ledger'[x][i].kind # "run"
               PROVE  /\ ledger'[x][i].run = run[x] /\ Committed(Post(run[x], "run", run[x]))'
                      /\ \A j \in 1 .. i - 1 : ledger'[x][j] # ledger'[x][i]
                      /\ ledger'[x][i].kind = "model_response" =>
                           Request(x) \in gaveUp \/ \E j \in 1 .. i - 1 : ledger'[x][j] = Request(x)
    BY <1>1 DEF AnswerFollowsRequest, Request
  <2>1. CASE x # c.by \/ i # Len(ledger[c.by]) + 1
    <3>1. /\ i \in 1 .. Len(ledger[x])
          /\ \A j \in 1 .. i : ledger'[x][j] = ledger[x][j]
      BY <2>1, <1>3
    <3>2. /\ ledger[x][i].run = run[x] /\ Committed(Post(run[x], "run", run[x]))
          /\ \A j \in 1 .. i - 1 : ledger[x][j] # ledger[x][i]
          /\ ledger[x][i].kind = "model_response" =>
               Request(x) \in gaveUp \/ \E j \in 1 .. i - 1 : ledger[x][j] = Request(x)
      BY <3>1 DEF AnswerFollowsRequest
    <3>3. run[x] \in Exchanges
      <4>1. ledger[x][i] \in Posts
        BY <3>1 DEF TypeOK
      <4>. QED
        BY <3>2, <4>1 DEF Posts
    <3>4. Committed(Post(run[x], "run", run[x]))'
      BY <3>2, <3>3, <1>1, <1>5, <1>7
    <3>5. i \in 1 .. i /\ \A j \in 1 .. i - 1 : j \in 1 .. i
      BY <3>1
    <3>6. ledger'[x][i] = ledger[x][i] /\ \A j \in 1 .. i - 1 : ledger'[x][j] = ledger[x][j]
      BY <3>1, <3>5
    <3>7. ledger[x][i].kind = "model_response" =>
            Request(x) \in gaveUp \/ \E j \in 1 .. i - 1 : ledger'[x][j] = Request(x)
      BY <3>2, <3>6
    <3>8. \A j \in 1 .. i - 1 : ledger'[x][j] # ledger'[x][i]
      BY <3>2, <3>6
    <3>. QED
      BY <3>2, <3>4, <3>6, <3>7, <3>8
  <2>2. CASE x = c.by /\ i = Len(ledger[c.by]) + 1
    <3>1. ledger'[x][i] = c /\ c.kind # "run"
      BY <2>2, <1>3
    <3>2. c.run = run[x] /\ run[x] # None /\ run[x] \in Exchanges
      BY <3>1, <2>2, <1>2 DEF PostsInOrder, Sent, TypeOK
    <3>3. Committed(Post(run[x], "run", run[x]))'
      BY <3>2, <1>1, <1>5, <1>7 DEF OwnersAreCommitted
    <3>4. ~ Committed(c)
      BY <3>1 DEF PostsInOrder
    <3>5. \A j \in 1 .. i - 1 : ledger'[x][j] # c
      BY <3>4, <2>2, <1>3 DEF Committed
    <3>6. ASSUME c.kind = "model_response"
          PROVE  Request(x) \in gaveUp \/ \E j \in 1 .. i - 1 : ledger'[x][j] = Request(x)
      <4>1. c = Response(x)
        BY <3>6, <3>2, <2>2, <1>2 DEF Response, Post, Posts
      <4>2. Committed(Request(x)) \/ Request(x) \in gaveUp
        BY <4>1 DEF PostsInOrder, Sent
      <4>3. Request(x).by = x
        BY DEF Request, Post
      <4>. QED
        BY <4>2, <4>3, <2>2, <1>3 DEF Committed
    <3>. QED
      BY <3>1, <3>2, <3>3, <3>5, <3>6
  <2>. QED
    BY <2>1, <2>2
<1>. QED
  BY <1>4, <1>8, <1>9, <1>10, <1>11, <1>12

LEMMA LedgerRefusesIInv ==
  ASSUME IInv, NEW c \in calls, LedgerRefuses(c)
  PROVE  IInv'
<1>. USE DEF IInv
<1>1. /\ calls' = calls \ {c}
      /\ UNCHANGED <<failLoud, runId, pc, run, shape, ledger, restarts, life, rivals, gaveUp>>
  BY DEF LedgerRefuses, observed
<1>2. \A d : (Committed(d)' <=> Committed(d)) /\ (Sent(d)' => Sent(d))
  BY <1>1 DEF Committed, Sent
<1>3. TypeOK'
  BY <1>1 DEF TypeOK
<1>4. LivesInOrder' /\ OwnersInOrder' /\ MintsRaced'
  BY <1>1, MintsUntouched
<1>5. OwnersAreCommitted' /\ LoudPostsAreDone'
  BY <1>1, <1>2 DEF OwnersAreCommitted, LoudPostsAreDone, Request, Response
<1>6. PostsInOrder'
  BY <1>1, <1>2 DEF PostsInOrder, Request, Response
<1>7. AnswerFollowsRequest'
  BY <1>1, LedgerUntouched
<1>. QED
  BY <1>3, <1>4, <1>5, <1>6, <1>7

-----------------------------------------------------------------------------
(* The threads *)

\* A thread that posts nothing leaves what is posted as it is.
LEMMA PostsUntouched ==
  ASSUME IInv, UNCHANGED <<calls, ledger, run>>, gaveUp \subseteq gaveUp',
         \A x \in Exchanges : pc'[x] = "request" => pc[x] = "request"
  PROVE  PostsInOrder' /\ AnswerFollowsRequest'
<1>. USE DEF IInv
<1>1. \A d : (Committed(d)' <=> Committed(d)) /\ (Sent(d)' <=> Sent(d))
  BY DEF Committed, Sent
<1>2. PostsInOrder'
  BY <1>1 DEF PostsInOrder, Request, Response
<1>3. AnswerFollowsRequest'
  BY LedgerUntouched
<1>. QED
  BY <1>2, <1>3

LEMMA ReceiveIInv ==
  ASSUME IInv, NEW x \in Exchanges, Receive(x)
  PROVE  IInv'
<1>. USE DEF IInv
<1>1. /\ pc[x] = "idle" /\ pc' = [pc EXCEPT ![x] = "upstream"]
      /\ life' = [life EXCEPT ![x] = restarts]
      /\ UNCHANGED <<failLoud, runId, run, shape, calls, ledger, restarts, rivals, gaveUp>>
  BY DEF Receive, Goto
<1>2. \A d : Committed(d)' <=> Committed(d)
  BY <1>1 DEF Committed
<1>3. TypeOK'
  BY <1>1 DEF TypeOK, Active
<1>4. run[x] = None /\ runId # x /\ \A y \in Exchanges : run[y] # x
  BY <1>1, NoneAssumption DEF OwnersInOrder, TypeOK
<1>5. \A y \in Exchanges \ {x} : life'[y] = life[y] /\ pc'[y] = pc[y]
  BY <1>1 DEF TypeOK
<1>6. life'[x] = restarts /\ pc'[x] = "upstream"
  BY <1>1 DEF TypeOK
<1>7. LivesInOrder'
  BY <1>1, <1>5, <1>6 DEF LivesInOrder, TypeOK
<1>8. OwnersInOrder'
  BY <1>1, <1>4, <1>5, <1>6 DEF OwnersInOrder, TypeOK
<1>9. MintsRaced'
  <2>1. Owners' = Owners /\ x \notin Owners /\ Owners \subseteq Exchanges
    BY <1>1, <1>4 DEF Owners, TypeOK
  <2>2. \A y, z : Rivalled(y, z)' <=> Rivalled(y, z)
    BY <1>1 DEF Rivalled
  <2>3. \A y \in Owners : life'[y] = life[y]
    BY <1>5, <2>1
  <2>4. \A y \in Exchanges : pc'[y] = "minting" => pc[y] = "minting"
    BY <1>5, <1>6
  <2>. QED
    BY <1>1, <2>1, <2>2, <2>3, <2>4 DEF MintsRaced
<1>10. OwnersAreCommitted' /\ LoudPostsAreDone'
  BY <1>1, <1>2, <1>4, <1>5, <1>6 DEF OwnersAreCommitted, LoudPostsAreDone, Request, Response
<1>11. PostsInOrder' /\ AnswerFollowsRequest'
  BY <1>1, <1>5, <1>6, PostsUntouched
<1>. QED
  BY <1>3, <1>7, <1>8, <1>9, <1>10, <1>11

LEMMA UpstreamAnswersIInv ==
  ASSUME IInv, NEW x \in Exchanges, UpstreamAnswers(x)
  PROVE  IInv'
<1>. USE DEF IInv
<1>1. /\ pc[x] = "upstream" /\ pc' = [pc EXCEPT ![x] = "ensuring"]
      /\ \E s \in {"objects", "request", "response"} : shape' = [shape EXCEPT ![x] = s]
      /\ UNCHANGED <<failLoud, runId, run, calls, ledger, restarts, life, rivals, gaveUp>>
  BY DEF UpstreamAnswers, Goto, observed
<1>2. \A d : Committed(d)' <=> Committed(d)
  BY <1>1 DEF Committed
<1>3. TypeOK'
  BY <1>1 DEF TypeOK, Active
<1>4. pc'[x] = "ensuring" /\ \A y \in Exchanges \ {x} : pc'[y] = pc[y]
  BY <1>1 DEF TypeOK
<1>5. LivesInOrder' /\ OwnersInOrder' /\ MintsRaced'
  BY <1>1, <1>4, MintsUntouched DEF Active
<1>6. OwnersAreCommitted' /\ LoudPostsAreDone'
  BY <1>1, <1>2, <1>4 DEF OwnersAreCommitted, LoudPostsAreDone, Request, Response
<1>7. PostsInOrder' /\ AnswerFollowsRequest'
  BY <1>1, <1>4, PostsUntouched
<1>. QED
  BY <1>3, <1>5, <1>6, <1>7

\* A thread that dies on an error body, or is held for ever, leaves what is shared
\* as it is.
LEMMA StopsIInv ==
  ASSUME IInv, NEW x \in Exchanges, ErrorBodyBreaksOff(x) \/ Held(x)
  PROVE  IInv'
<1>. USE DEF IInv
<1>1. /\ pc[x] \in Active
      /\ pc' = [pc EXCEPT ![x] = "raised"] \/ pc' = [pc EXCEPT ![x] = "held"]
      /\ UNCHANGED <<failLoud, runId, run, shape, calls, ledger, restarts, life, rivals, gaveUp>>
  BY DEF ErrorBodyBreaksOff, Held, Goto, observed, Active
<1>2. \A d : Committed(d)' <=> Committed(d)
  BY <1>1 DEF Committed
<1>3. TypeOK'
  BY <1>1 DEF TypeOK, Active
<1>4. pc'[x] \in {"raised", "held"} /\ \A y \in Exchanges \ {x} : pc'[y] = pc[y]
  BY <1>1 DEF TypeOK
<1>5. LivesInOrder' /\ OwnersInOrder' /\ MintsRaced'
  BY <1>1, <1>4, MintsUntouched DEF Active
<1>6. OwnersAreCommitted' /\ LoudPostsAreDone'
  BY <1>1, <1>2, <1>4 DEF OwnersAreCommitted, LoudPostsAreDone, Request, Response
<1>7. PostsInOrder' /\ AnswerFollowsRequest'
  BY <1>1, <1>4, PostsUntouched
<1>. QED
  BY <1>3, <1>5, <1>6, <1>7

\* The thread sees no run, so nobody of this life has one; it races all who mint.
LEMMA StartMintIInv ==
  ASSUME IInv, NEW x \in Exchanges, StartMint(x)
  PROVE  IInv'
<1>. USE DEF IInv
<1>1. /\ pc[x] = "ensuring" /\ runId = None /\ pc' = [pc EXCEPT ![x] = "minting"]
      /\ calls' = calls \cup {Post(x, "run", x)}
      /\ rivals' = rivals \cup ({x} \X { y \in Exchanges : pc[y] = "minting" })
      /\ UNCHANGED <<failLoud, runId, run, shape, ledger, restarts, life, gaveUp>>
  BY DEF StartMint, Goto, Send
<1>2. \A d : /\ Committed(d)' <=> Committed(d)
             /\ d.kind # "run" => (Sent(d)' <=> Sent(d)) /\ (d \in calls' <=> d \in calls)
  BY <1>1 DEF Committed, Sent, Post
<1>3. TypeOK'
  <2>1. Post(x, "run", x) \in Posts
    BY PostType DEF Kinds
  <2>. QED
    BY <1>1, <2>1 DEF TypeOK, Active
<1>4. pc'[x] = "minting" /\ \A y \in Exchanges \ {x} : pc'[y] = pc[y]
  BY <1>1 DEF TypeOK
<1>5. LivesInOrder' /\ OwnersInOrder'
  BY <1>1, <1>4 DEF LivesInOrder, OwnersInOrder, TypeOK, Active
<1>6. MintsRaced'
  <2>1. \A y \in Owners : life[y] # restarts
    BY <1>1 DEF Owners, OwnersInOrder
  <2>2. Owners' = Owners
    BY <1>1 DEF Owners
  <2>3. \A y, z \in Exchanges : Rivalled(y, z) => Rivalled(y, z)'
    BY <1>1 DEF Rivalled
  <2>4. \A y \in Exchanges : pc[y] = "minting" => Rivalled(x, y)' /\ Rivalled(y, x)'
    BY <1>1 DEF Rivalled
  <2>5. Owners \subseteq Exchanges
    BY DEF Owners, TypeOK
  <2>6. \A y, z \in Owners' : y # z /\ life'[y] = life'[z] => Rivalled(y, z)'
    BY <1>1, <2>2, <2>3, <2>5 DEF MintsRaced
  <2>7. \A y, z \in Exchanges : y # z /\ pc'[y] = "minting" /\ pc'[z] = "minting" => Rivalled(y, z)'
    BY <1>4, <2>3, <2>4 DEF MintsRaced
  <2>8. \A y \in Owners' : life'[y] # restarts'
    BY <1>1, <2>1, <2>2
  <2>. QED
    BY <2>6, <2>7, <2>8 DEF MintsRaced
<1>7. OwnersAreCommitted' /\ LoudPostsAreDone'
  BY <1>1, <1>2, <1>4 DEF OwnersAreCommitted, LoudPostsAreDone, Request, Response
<1>8. PostsInOrder'
  <2>1. \A y, u : Post(y, "model_response", u).kind = "model_response"
    BY DEF Post
  <2>. QED
    BY <1>1, <1>2, <1>4, <2>1 DEF PostsInOrder, Request, Response
<1>9. AnswerFollowsRequest'
  BY <1>1, LedgerUntouched
<1>. QED
  BY <1>3, <1>5, <1>6, <1>7, <1>8, <1>9

\* Who assigns _run_id was minting beside every run of this life.
LEMMA MintedIInv ==
  ASSUME IInv, NEW x \in Exchanges, Minted(x)
  PROVE  IInv'
<1>. USE DEF IInv
<1>1. /\ pc[x] = "minting" /\ pc' = [pc EXCEPT ![x] = "minted"]
      /\ Committed(Post(x, "run", x)) /\ runId' = x
      /\ UNCHANGED <<failLoud, run, shape, calls, ledger, restarts, life, rivals, gaveUp>>
  BY DEF Minted, Goto, observed
<1>2. \A d : Committed(d)' <=> Committed(d)
  BY <1>1 DEF Committed
<1>3. TypeOK'
  BY <1>1 DEF TypeOK, Active
<1>4. pc'[x] = "minted" /\ \A y \in Exchanges \ {x} : pc'[y] = pc[y]
  BY <1>1 DEF TypeOK
<1>5. life[x] = restarts
  BY <1>1 DEF LivesInOrder, Active
<1>6. LivesInOrder'
  BY <1>1, <1>4 DEF LivesInOrder, Active
<1>7. OwnersInOrder'
  BY <1>1, <1>4, <1>5, NoneAssumption DEF OwnersInOrder, TypeOK
<1>8. MintsRaced'
  <2>1. \A y \in Owners' : y = x \/ y \in Owners
    BY <1>1 DEF Owners
  <2>2. \A y, z : Rivalled(y, z)' <=> Rivalled(y, z)
    BY <1>1 DEF Rivalled
  <2>3. \A y, z : Rivalled(y, z) <=> Rivalled(z, y)
    BY DEF Rivalled
  <2>4. \A y \in Owners : y # x /\ life[y] = restarts => Rivalled(y, x)
    BY <1>1 DEF MintsRaced
  <2>5. \A y, z \in Owners' : y # z /\ life'[y] = life'[z] => Rivalled(y, z)'
    BY <1>1, <1>5, <2>1, <2>2, <2>3, <2>4 DEF MintsRaced
  <2>6. \A y \in Exchanges : pc'[y] = "minting" => y # x /\ pc[y] = "minting"
    BY <1>4
  <2>7. \A y, z \in Exchanges : y # z /\ pc'[y] = "minting" /\ pc'[z] = "minting" => Rivalled(y, z)'
    BY <2>2, <2>6 DEF MintsRaced
  <2>8. \A y \in Owners', z \in Exchanges :
          y # z /\ life'[y] = restarts' /\ pc'[z] = "minting" => Rivalled(y, z)'
    BY <1>1, <2>1, <2>2, <2>6 DEF MintsRaced
  <2>. QED
    BY <2>5, <2>7, <2>8 DEF MintsRaced
<1>9. OwnersAreCommitted' /\ LoudPostsAreDone'
  BY <1>1, <1>2, <1>4 DEF OwnersAreCommitted, LoudPostsAreDone, Request, Response
<1>10. PostsInOrder' /\ AnswerFollowsRequest'
  BY <1>1, <1>4, PostsUntouched
<1>. QED
  BY <1>3, <1>6, <1>7, <1>8, <1>9, <1>10

LEMMA MintFailsIInv ==
  ASSUME IInv, NEW x \in Exchanges, MintFails(x)
  PROVE  IInv'
<1>. USE DEF IInv
<1>1. /\ pc[x] = "minting" /\ pc' = [pc EXCEPT ![x] = IF failLoud THEN "raised" ELSE "recorded"]
      /\ gaveUp' = gaveUp \cup {Post(x, "run", x)}
      /\ UNCHANGED <<failLoud, runId, run, shape, calls, ledger, restarts, life, rivals>>
  BY DEF MintFails, Raise, Goto
<1>2. \A d : Committed(d)' <=> Committed(d)
  BY <1>1 DEF Committed
<1>3. TypeOK'
  <2>1. Post(x, "run", x) \in Posts
    BY PostType DEF Kinds
  <2>. QED
    BY <1>1, <2>1 DEF TypeOK, Active
<1>4. /\ pc'[x] = (IF failLoud THEN "raised" ELSE "recorded")
      /\ \A y \in Exchanges \ {x} : pc'[y] = pc[y]
  BY <1>1 DEF TypeOK
<1>5. LivesInOrder' /\ OwnersInOrder' /\ MintsRaced'
  BY <1>1, <1>4, MintsUntouched DEF Active
<1>6. OwnersAreCommitted' /\ LoudPostsAreDone'
  BY <1>1, <1>2, <1>4 DEF OwnersAreCommitted, LoudPostsAreDone, Request, Response
<1>7. PostsInOrder' /\ AnswerFollowsRequest'
  BY <1>1, <1>4, PostsUntouched
<1>. QED
  BY <1>3, <1>5, <1>6, <1>7

\* A thread that has no run yet has posted nothing; it takes the run of its life.
LEMMA TakeRunIInv ==
  ASSUME IInv, NEW x \in Exchanges, TakeRun(x)
  PROVE  IInv'
<1>. USE DEF IInv
<1>1. /\ pc[x] \in {"ensuring", "minted"} /\ runId # None
      /\ run' = [run EXCEPT ![x] = runId]
      /\ UNCHANGED <<failLoud, runId, shape, ledger, restarts, life, rivals, gaveUp>>
  BY DEF TakeRun, observed
<1>2. \/ /\ calls' = calls /\ pc' = [pc EXCEPT ![x] = IF failLoud THEN "raised" ELSE "recorded"]
      \/ /\ calls' = calls \cup {Post(x, "model_request", runId)}
         /\ pc' = [pc EXCEPT ![x] = "request"]
  BY DEF TakeRun, Raise, Goto, Send
<1>3. runId \in Exchanges /\ run[x] = None /\ run'[x] = runId
  BY <1>1 DEF TypeOK, OwnersAreCommitted
<1>4. \A y \in Exchanges \ {x} : run'[y] = run[y] /\ pc'[y] = pc[y]
  BY <1>1, <1>2 DEF TypeOK
<1>5. pc'[x] \in {"raised", "recorded", "request"} /\ (failLoud => pc'[x] # "recorded")
  BY <1>2 DEF TypeOK
<1>6. \A d : Committed(d)' <=> Committed(d)
  BY <1>1 DEF Committed
<1>7. \A d : Sent(d)' => Sent(d) \/ d = Post(x, "model_request", runId)
  BY <1>2, <1>6 DEF Sent
<1>8. TypeOK'
  <2>1. Post(x, "model_request", runId) \in Posts
    BY <1>3, PostType DEF Kinds
  <2>. QED
    BY <1>1, <1>2, <1>3, <2>1 DEF TypeOK, Active
<1>9. life[x] = restarts
  BY <1>1 DEF LivesInOrder, Active
<1>10. LivesInOrder'
  BY <1>1, <1>4, <1>9 DEF LivesInOrder
<1>11. OwnersInOrder'
  <2>1. life[runId] = restarts /\ pc[runId] # "idle"
    BY <1>1 DEF OwnersInOrder
  <2>2. \A y \in Exchanges : pc[y] # "idle" => pc'[y] # "idle"
    BY <1>4, <1>5
  <2>3. pc[x] # "idle"
    BY <1>1
  <2>4. ASSUME NEW y \in Exchanges, run'[y] # None
        PROVE  /\ life[run'[y]] = life[y] /\ pc[y] # "idle" /\ pc[run'[y]] # "idle"
               /\ run'[y] \in Exchanges
    <3>1. CASE y = x
      BY <3>1, <1>3, <1>9, <2>1, <2>3
    <3>2. CASE y # x
      <4>1. run'[y] = run[y]
        BY <3>2, <1>4
      <4>. QED
        BY <4>1, <2>4 DEF OwnersInOrder, TypeOK
    <3>. QED
      BY <3>1, <3>2
  <2>. QED
    BY <1>1, <1>3, <2>1, <2>2, <2>4 DEF OwnersInOrder
<1>12. MintsRaced'
  <2>1. Owners' \subseteq Owners
    BY <1>1, <1>3, <1>4 DEF Owners
  <2>2. \A y \in Exchanges : pc'[y] = "minting" => pc[y] = "minting"
    BY <1>4, <1>5
  <2>. QED
    BY <1>1, <2>1, <2>2 DEF MintsRaced, Rivalled
<1>13. OwnersAreCommitted'
  BY <1>1, <1>3, <1>4, <1>5, <1>6 DEF OwnersAreCommitted
<1>14. LoudPostsAreDone'
  BY <1>1, <1>4, <1>5, <1>6 DEF LoudPostsAreDone, Request, Response
<1>15. PostsInOrder'
  <2>1. \A d \in Posts : Sent(d) /\ d.kind # "run" => d.by # x
    BY <1>3 DEF PostsInOrder
  <2>2. \A d \in Posts : d.by \in Exchanges
    BY DEF Posts
  <2>3. /\ Post(x, "model_request", runId).by = x /\ Post(x, "model_request", runId).run = runId
        /\ Post(x, "model_request", runId).kind = "model_request"
        /\ Post(x, "model_request", runId) \in Posts
    BY <1>3, PostType DEF Post, Kinds
  <2>4. \A d \in Posts : Sent(d)' /\ d.kind # "run" => d.run = run'[d.by] /\ run'[d.by] # None
    BY <1>1, <1>3, <1>4, <1>7, <2>1, <2>2, <2>3 DEF PostsInOrder
  <2>5. \A y \in Exchanges, u \in Exchanges : Sent(Post(y, "model_response", u))' =>
          y # x /\ Sent(Post(y, "model_response", u))
    <3>1. \A y \in Exchanges, u \in Exchanges :
            /\ Post(y, "model_response", u) \in Posts
            /\ Post(y, "model_response", u).by = y
            /\ Post(y, "model_response", u).kind = "model_response"
      BY PostType DEF Kinds, Post
    <3>. QED
      BY <1>7, <2>1, <2>3, <3>1
  <2>6. \A y \in Exchanges, u \in Exchanges : pc'[y] = "request" => ~ Sent(Post(y, "model_response", u))'
    BY <1>4, <2>5 DEF PostsInOrder
  <2>7. \A d \in calls' : d.kind # "run" => ~ Committed(d)'
    BY <1>2, <1>6, <2>1, <2>3 DEF PostsInOrder, Sent
  <2>8. ASSUME NEW y \in Exchanges, Sent(Response(y))'
        PROVE  Committed(Request(y))' \/ Request(y)' \in gaveUp'
    <3>1. PICK d : d = Response(y)' /\ Sent(d)'
      BY <2>8 DEF Sent, Committed
    <3>2. d.by = y /\ d.run = run'[y] /\ d.kind = "model_response"
      BY <3>1 DEF Response, Post
    <3>3. Sent(d)
      BY <1>7, <2>3, <3>1, <3>2
    <3>4. d \in Posts
      BY <3>2, <3>3, CommittedType DEF Sent, TypeOK
    <3>5. y # x /\ run'[y] = run[y] /\ d = Response(y)
      <4>1. y # x
        BY <2>1, <3>2, <3>3, <3>4
      <4>2. run'[y] = run[y]
        BY <1>4, <4>1
      <4>. QED
        BY <3>1, <4>1, <4>2 DEF Response
    <3>6. Committed(Request(y)) \/ Request(y) \in gaveUp
      BY <3>3, <3>5 DEF PostsInOrder
    <3>. QED
      BY <1>1, <1>6, <3>5, <3>6 DEF Request
  <2>. QED
    BY <2>4, <2>6, <2>7, <2>8 DEF PostsInOrder
<1>16. AnswerFollowsRequest'
  BY <1>1, <1>3, <1>4, LedgerUntouched
<1>. QED
  BY <1>8, <1>10, <1>11, <1>12, <1>13, <1>14, <1>15, <1>16

\* The answer is posted when the request is in the ledger, or given up.
LEMMA RequestPostedIInv ==
  ASSUME IInv, NEW x \in Exchanges, RequestPosted(x)
  PROVE  IInv'
<1>. USE DEF IInv
<1>1. pc[x] = "request" /\ UNCHANGED <<failLoud, runId, run, shape, ledger, restarts, life, rivals>>
  BY DEF RequestPosted
<1>2. \/ /\ calls' = calls /\ pc' = [pc EXCEPT ![x] = IF failLoud THEN "raised" ELSE "recorded"]
      \/ /\ calls' = calls \cup {Response(x)} /\ pc' = [pc EXCEPT ![x] = "response"]
  BY DEF RequestPosted, Raise, Goto, Send, Response
<1>3. \/ Committed(Request(x)) /\ gaveUp' = gaveUp
      \/ ~ failLoud /\ gaveUp' = gaveUp \cup {Request(x)}
  BY DEF RequestPosted, PostDone, Request
<1>4. run[x] \in Exchanges /\ run[x] # None
  BY <1>1 DEF TypeOK, OwnersAreCommitted
<1>5. /\ Request(x) \in Posts /\ Response(x) \in Posts
      /\ Response(x).by = x /\ Response(x).run = run[x] /\ Response(x).kind = "model_response"
  BY <1>4, PostType DEF Request, Response, Kinds, Post
<1>6. \A d : (Committed(d)' <=> Committed(d)) /\ (Sent(d)' => Sent(d) \/ d = Response(x))
  BY <1>1, <1>2 DEF Committed, Sent
<1>7. /\ pc'[x] \in {"raised", "recorded", "response"} /\ (failLoud => pc'[x] # "recorded")
      /\ \A y \in Exchanges \ {x} : pc'[y] = pc[y]
  BY <1>2 DEF TypeOK
<1>8. TypeOK'
  BY <1>1, <1>2, <1>3, <1>5 DEF TypeOK, Active
<1>9. LivesInOrder' /\ OwnersInOrder' /\ MintsRaced'
  BY <1>1, <1>7, MintsUntouched DEF Active
<1>10. OwnersAreCommitted'
  BY <1>1, <1>6, <1>7 DEF OwnersAreCommitted
<1>11. LoudPostsAreDone'
  BY <1>1, <1>3, <1>6, <1>7 DEF LoudPostsAreDone, Request, Response
<1>12. PostsInOrder'
  <2>1. ~ Sent(Response(x))
    BY <1>1, <1>4 DEF PostsInOrder, Response
  <2>2. \A d \in Posts : Sent(d)' /\ d.kind # "run" => d.run = run'[d.by] /\ run'[d.by] # None
    BY <1>1, <1>4, <1>5, <1>6 DEF PostsInOrder
  <2>3. \A y \in Exchanges, u \in Exchanges : pc'[y] = "request" => ~ Sent(Post(y, "model_response", u))'
    <3>1. \A y \in Exchanges, u \in Exchanges : Post(y, "model_response", u).by = y
      BY DEF Post
    <3>. QED
      BY <1>5, <1>6, <1>7, <3>1 DEF PostsInOrder
  <2>4. \A d \in calls' : d.kind # "run" => ~ Committed(d)'
    BY <1>2, <1>6, <2>1 DEF PostsInOrder, Sent
  <2>5. ASSUME NEW y \in Exchanges, Sent(Response(y))'
        PROVE  Committed(Request(y))' \/ Request(y)' \in gaveUp'
    <3>1. Response(y)' = Response(y) /\ Request(y)' = Request(y) /\ Response(y).by = y
      BY <1>1 DEF Response, Request, Post
    <3>2. CASE y = x
      BY <3>1, <3>2, <1>3, <1>6
    <3>3. CASE y # x
      <4>1. Sent(Response(y))
        BY <2>5, <3>1, <3>3, <1>5, <1>6
      <4>. QED
        BY <4>1, <3>1, <1>3, <1>6 DEF PostsInOrder
    <3>. QED
      BY <3>2, <3>3
  <2>. QED
    BY <2>2, <2>3, <2>4, <2>5 DEF PostsInOrder
<1>13. AnswerFollowsRequest'
  BY <1>1, <1>3, LedgerUntouched
<1>. QED
  BY <1>8, <1>9, <1>10, <1>11, <1>12, <1>13

\* A post raises only under failLoud, and the thread ends.
LEMMA RaisesIInv ==
  ASSUME IInv, NEW x \in Exchanges, RequestRaises(x) \/ ResponseRaises(x)
  PROVE  IInv'
<1>. USE DEF IInv
<1>1. /\ pc[x] \in {"request", "response"} /\ pc' = [pc EXCEPT ![x] = "raised"]
      /\ \E kind \in Kinds : gaveUp' = gaveUp \cup {Post(x, kind, run[x])}
      /\ UNCHANGED <<failLoud, runId, run, shape, calls, ledger, restarts, life, rivals>>
  BY DEF RequestRaises, ResponseRaises, PostRaises, Raise, Goto, Kinds
<1>2. \A d : Committed(d)' <=> Committed(d)
  BY <1>1 DEF Committed
<1>3. run[x] \in Exchanges
  BY <1>1 DEF TypeOK, OwnersAreCommitted
<1>4. TypeOK'
  BY <1>1, <1>3, PostType DEF TypeOK, Active
<1>5. pc'[x] = "raised" /\ \A y \in Exchanges \ {x} : pc'[y] = pc[y]
  BY <1>1 DEF TypeOK
<1>6. LivesInOrder' /\ OwnersInOrder' /\ MintsRaced'
  BY <1>1, <1>5, MintsUntouched DEF Active
<1>7. OwnersAreCommitted' /\ LoudPostsAreDone'
  BY <1>1, <1>2, <1>5 DEF OwnersAreCommitted, LoudPostsAreDone, Request, Response
<1>8. PostsInOrder' /\ AnswerFollowsRequest'
  BY <1>1, <1>5, PostsUntouched
<1>. QED
  BY <1>4, <1>6, <1>7, <1>8

LEMMA ResponsePostedIInv ==
  ASSUME IInv, NEW x \in Exchanges, ResponsePosted(x)
  PROVE  IInv'
<1>. USE DEF IInv
<1>1. /\ pc[x] = "response" /\ pc' = [pc EXCEPT ![x] = "recorded"]
      /\ UNCHANGED <<failLoud, runId, run, shape, calls, ledger, restarts, life, rivals>>
  BY DEF ResponsePosted, Goto
<1>2. \/ Committed(Response(x)) /\ gaveUp' = gaveUp
      \/ ~ failLoud /\ gaveUp' = gaveUp \cup {Response(x)}
  BY DEF ResponsePosted, PostDone, Response
<1>3. \A d : Committed(d)' <=> Committed(d)
  BY <1>1 DEF Committed
<1>4. Response(x) \in Posts
  <2>1. run[x] \in Exchanges
    BY <1>1 DEF TypeOK, OwnersAreCommitted
  <2>. QED
    BY <2>1, PostType DEF Response, Kinds
<1>5. TypeOK'
  BY <1>1, <1>2, <1>4 DEF TypeOK, Active
<1>6. pc'[x] = "recorded" /\ \A y \in Exchanges \ {x} : pc'[y] = pc[y]
  BY <1>1 DEF TypeOK
<1>7. LivesInOrder' /\ OwnersInOrder' /\ MintsRaced'
  BY <1>1, <1>6, MintsUntouched DEF Active
<1>8. OwnersAreCommitted'
  BY <1>1, <1>3, <1>6 DEF OwnersAreCommitted
<1>9. LoudPostsAreDone'
  BY <1>1, <1>2, <1>3, <1>6 DEF LoudPostsAreDone, Request, Response
<1>10. PostsInOrder' /\ AnswerFollowsRequest'
  BY <1>1, <1>2, <1>6, PostsUntouched
<1>. QED
  BY <1>5, <1>7, <1>8, <1>9, <1>10

LEMMA ReplyIInv ==
  ASSUME IInv, NEW x \in Exchanges, Reply(x)
  PROVE  IInv'
<1>. USE DEF IInv
<1>1. /\ pc[x] = "recorded" /\ pc' = [pc EXCEPT ![x] = "replied"]
      /\ UNCHANGED <<failLoud, runId, run, shape, calls, ledger, restarts, life, rivals, gaveUp>>
  BY DEF Reply, Goto, observed
<1>2. \A d : Committed(d)' <=> Committed(d)
  BY <1>1 DEF Committed
<1>3. TypeOK'
  BY <1>1 DEF TypeOK, Active
<1>4. pc'[x] = "replied" /\ \A y \in Exchanges \ {x} : pc'[y] = pc[y]
  BY <1>1 DEF TypeOK
<1>5. LivesInOrder' /\ OwnersInOrder' /\ MintsRaced'
  BY <1>1, <1>4, MintsUntouched DEF Active
<1>6. OwnersAreCommitted' /\ LoudPostsAreDone'
  BY <1>1, <1>2, <1>4 DEF OwnersAreCommitted, LoudPostsAreDone, Request, Response
<1>7. PostsInOrder' /\ AnswerFollowsRequest'
  BY <1>1, <1>4, PostsUntouched
<1>. QED
  BY <1>3, <1>5, <1>6, <1>7

\* The next life begins with no run, and nobody lives in it yet.
LEMMA RestartIInv ==
  ASSUME IInv, Restart
  PROVE  IInv'
<1>. USE DEF IInv
<1>1. /\ restarts < MaxRestarts /\ restarts' = restarts + 1 /\ runId' = None
      /\ pc' = [y \in Exchanges |-> IF pc[y] \in Active \cup {"held"} THEN "killed" ELSE pc[y]]
      /\ UNCHANGED <<failLoud, run, shape, calls, ledger, life, rivals, gaveUp>>
  BY DEF Restart, observed
<1>2. \A d : Committed(d)' <=> Committed(d)
  BY <1>1 DEF Committed
<1>3. \A y \in Exchanges : /\ pc'[y] \notin Active
                           /\ pc'[y] = pc[y] \/ (pc'[y] = "killed" /\ pc[y] \in Active \cup {"held"})
  BY <1>1 DEF Active
<1>4. TypeOK'
  BY <1>1, RestartsAssumption DEF TypeOK, Active
<1>5. \A y \in Exchanges : life[y] < restarts'
  BY <1>1, RestartsAssumption DEF LivesInOrder, TypeOK
<1>6. LivesInOrder'
  BY <1>1, <1>3, <1>5, RestartsAssumption DEF LivesInOrder, TypeOK
<1>7. OwnersInOrder'
  <2>1. \A y \in Exchanges : pc[y] # "idle" => pc'[y] # "idle"
    BY <1>3
  <2>2. \A y \in Exchanges : life'[y] # restarts'
    BY <1>1, <1>5, RestartsAssumption DEF TypeOK
  <2>. QED
    BY <1>1, <2>1, <2>2 DEF OwnersInOrder, TypeOK
<1>8. MintsRaced'
  <2>1. Owners' \subseteq Owners
    BY <1>1 DEF Owners
  <2>2. \A y \in Exchanges : pc'[y] # "minting"
    BY <1>3 DEF Active
  <2>. QED
    BY <1>1, <2>1, <2>2 DEF MintsRaced, Rivalled
<1>9. OwnersAreCommitted' /\ LoudPostsAreDone'
  BY <1>1, <1>2, <1>3 DEF OwnersAreCommitted, LoudPostsAreDone, Request, Response, Active
<1>10. PostsInOrder' /\ AnswerFollowsRequest'
  BY <1>1, <1>3, PostsUntouched DEF Active
<1>. QED
  BY <1>4, <1>6, <1>7, <1>8, <1>9, <1>10

-----------------------------------------------------------------------------
(* The theorems *)

LEMMA NextIInv == IInv /\ [Next]_vars => IInv'
<1> SUFFICES ASSUME IInv, [Next]_vars
             PROVE  IInv'
  OBVIOUS
<1>1. CASE UNCHANGED vars
  <2>1. \A d : (Committed(d)' <=> Committed(d)) /\ (Sent(d)' <=> Sent(d))
    BY <1>1 DEF vars, Committed, Sent
  <2>2. TypeOK'
    BY <1>1 DEF vars, IInv, TypeOK
  <2>3. LivesInOrder' /\ OwnersInOrder' /\ MintsRaced'
    BY <1>1, MintsUntouched DEF vars
  <2>4. OwnersAreCommitted' /\ LoudPostsAreDone'
    BY <1>1, <2>1 DEF vars, IInv, OwnersAreCommitted, LoudPostsAreDone, Request, Response
  <2>5. PostsInOrder' /\ AnswerFollowsRequest'
    BY <1>1, PostsUntouched DEF vars
  <2>. QED
    BY <2>2, <2>3, <2>4, <2>5 DEF IInv
<1>2. CASE \E x \in Exchanges : Receive(x) \/ ThreadStep(x) \/ Held(x)
  BY <1>2, ReceiveIInv, UpstreamAnswersIInv, StopsIInv, StartMintIInv, MintedIInv, MintFailsIInv,
     TakeRunIInv, RequestPostedIInv, RaisesIInv, ResponsePostedIInv, ReplyIInv DEF ThreadStep
<1>3. CASE \E c \in calls : LedgerApplies(c) \/ LedgerRefuses(c)
  BY <1>3, LedgerAppliesIInv, LedgerRefusesIInv
<1>4. CASE Restart
  BY <1>4, RestartIInv
<1>. QED
  BY <1>1, <1>2, <1>3, <1>4 DEF Next

LEMMA Invariant == Spec => []IInv
  BY InitIInv, NextIInv, PTL DEF Spec

\* The variables keep their types, however many threads share _run_id.
THEOREM ModelProxyTypeCorrect == Spec => []TypeOK
<1>1. IInv => TypeOK
  BY DEF IInv
<1>. QED
  BY <1>1, Invariant, PTL

\* TRACKWARD_FAIL_LOUD stops hard: no answer without the exchange on record.
THEOREM LoudAnswersAreOnRecord == Spec => []HardStop
<1>1. IInv => HardStop
  BY DEF IInv, LoudPostsAreDone, HardStop
<1>. QED
  BY <1>1, Invariant, PTL

\* Two runs in one life of the proxy mean that the mints of the two overlapped.
THEOREM RunsSplitOnlyInARace == Spec => []OneRunUnlessRaced
<1>1. IInv => OneRunUnlessRaced
  <2> SUFFICES ASSUME IInv, NEW x \in Exchanges, NEW y \in Exchanges,
                      life[x] = life[y], run[x] # None, run[y] # None, run[x] # run[y]
               PROVE  Rivalled(run[x], run[y])
    BY DEF OneRunUnlessRaced, Rivalled
  <2>1. run[x] \in Owners /\ run[y] \in Owners
    BY DEF Owners
  <2>2. life[run[x]] = life[run[y]]
    BY DEF IInv, OwnersInOrder
  <2>. QED
    BY <2>1, <2>2 DEF IInv, MintsRaced
<1>. QED
  BY <1>1, Invariant, PTL

\* What the ledger holds of an exchange is in one known run, without
\* repetition, and the answer after the request unless that was given up.
THEOREM AnswersFollowRequests == Spec => []AnswerFollowsRequest
<1>1. IInv => AnswerFollowsRequest
  BY DEF IInv
<1>. QED
  BY <1>1, Invariant, PTL

=============================================================================
