-------------------------------- MODULE Rpc ----------------------------------
(***************************************************************************)
(* A node with one of its clients: lnrpc (LnRpc), or an LNSocket in Go or  *)
(* in JavaScript (BindingRpc).                                             *)
(***************************************************************************)
EXTENDS LnRpc, BindingRpc

CONSTANT Clients   \* the clients to look at

ASSUME ClientsAssumption == Clients \subseteq {"lnrpc", "go", "js"}

lnrpcOnly == <<ok, printed>>
bindingOnly == <<chunks, results>>
vars == <<client, pc, read, wrote, lnrpcOnly, bindingOnly, nodeVars>>

Init ==
  /\ client \in Clients
  /\ pc = "connect" /\ read = 0 /\ wrote = <<>>
  /\ LnRpcStarts /\ BindingStarts /\ NodeStarts

Client ==
  \/ client = "lnrpc" /\ LnRpcRuns /\ UNCHANGED <<client, bindingOnly, nodeVars>>
  \/ client # "lnrpc" /\ BindingRuns /\ UNCHANGED <<client, lnrpcOnly, nodeVars>>

Over ==
  /\ \/ client = "lnrpc" /\ LnRpcOver /\ UNCHANGED bindingOnly
     \/ client # "lnrpc" /\ BindingOver /\ UNCHANGED lnrpcOnly
  /\ UNCHANGED <<client, nodeVars>>

Next ==
  \/ Client \/ Over
  \/ Node /\ UNCHANGED <<client, pc, read, wrote, lnrpcOnly, bindingOnly>>

\* The client runs: select() has a timeout, a blocking read() returns when
\* there is something to return, a timer of JavaScript fires.
Fairness == WF_vars(Client)

Spec == Init /\ [][Next]_vars /\ Fairness

\* Types; and no client reads past what has arrived.
TypeOK ==
  /\ client \in Clients
  /\ pc \in (IF client = "lnrpc"
             THEN {"connect", "init", "answer", "ask", "select", "recv", "exit", "killed"}
             ELSE {"connect", "greet", "hear", "idle", "recv", "wait", "over"})
  /\ ok \in BOOLEAN /\ printed \in Seq(Nat \X Nat)
  /\ chunks \in Seq(Nat \X Nat) /\ Len(results) <= MaxCalls
  /\ read \in 0..arrived /\ arrived \in 0..Len(sent)
  /\ part \in BOOLEAN /\ up \in BOOLEAN
  /\ \A i \in DOMAIN wrote : wrote[i].len \in 1..MaxMessage
=============================================================================
