----------------------------- MODULE GenAiTurn ------------------------------
(***************************************************************************)
(* run_turn of crates/milona-knowledge/src/genai_loop.rs: retrieval, the   *)
(* requested tools one after the other, the prompt and one completion.     *)
(* The retrieval is module Knowledge, await by await, with its writers;    *)
(* the LLM provider is what answers or fails (module LlmAdapter says       *)
(* when).  This module extends Knowledge: names with the prefix Turn are   *)
(* the turn's, the others the retrieval's.                                 *)
(***************************************************************************)
EXTENDS Knowledge

CONSTANTS
  TurnMayFail,    \* the turn's own calls that can fail: "tool", "complete"
  Registrations,  \* the calls of ToolRegistry::register: records of name and tool
  ToolRequests    \* the tool_requests of the turns: sequences of names

ASSUME ToolAssumption == ToolRequests \subseteq Seq(STRING)

VARIABLES
  stage,     \* where each task is in run_turn
  requests,  \* request.tool_requests
  ran,       \* history: the tool calls made, with the tenant and the outcome
  results,   \* tool_results
  prompt,    \* the messages given to llm.complete
  response   \* GenAiResponse.retrieved, of an answered turn

retrievalVars == <<supports_traversal, stored, edges, pc, tenant, matches, items, began>>
turnVars == <<stage, requests, ran, results, prompt, response>>
allVars == <<supports_traversal, stored, edges, pc, tenant, matches, items, began,
             stage, requests, ran, results, prompt, response>>

TurnEnded == {"idle", "answered", "failed"}
Underway == {"retrieval", "tools", "build", "completion"}

Names == {Registrations[i].name : i \in DOMAIN Registrations}

(* ToolRegistry::get: of two tools registered under one name, the second.  *)
get(name) ==
  Registrations[CHOOSE i \in DOMAIN Registrations :
    /\ Registrations[i].name = name
    /\ \A j \in DOMAIN Registrations : Registrations[j].name = name => j <= i].tool

Enter(c, label) == stage' = [stage EXCEPT ![c] = label]

-----------------------------------------------------------------------------
TurnInit ==
  /\ Init
  /\ stage = [c \in Tasks |-> "idle"]
  /\ requests = [c \in Tasks |-> <<>>]
  /\ ran = [c \in Tasks |-> <<>>]
  /\ results = [c \in Tasks |-> <<>>]
  /\ prompt = [c \in Tasks |-> <<>>]
  /\ response = [c \in Tasks |-> <<>>]

\* Mutant: a retrieval that failed is treated as an empty one.
AfterRetrieval_Ignore(c) == IF pc'[c] \in {"search", "traverse"} THEN "retrieval" ELSE "tools"

(* The `?` after retrieve.                                                 *)
AfterRetrieval(c) ==
  CASE pc'[c] \in {"search", "traverse"} -> "retrieval"
    [] pc'[c] = "done"                   -> "tools"
    [] OTHER                             -> "failed"

run_turn(c, t, wanted) ==
  /\ stage[c] \in TurnEnded
  /\ retrieve(c, t)
  /\ Enter(c, AfterRetrieval(c))
  /\ requests' = [requests EXCEPT ![c] = wanted]
  /\ ran' = [ran EXCEPT ![c] = <<>>]
  /\ results' = [results EXCEPT ![c] = <<>>]
  /\ prompt' = [prompt EXCEPT ![c] = <<>>]
  /\ response' = [response EXCEPT ![c] = <<>>]

Retrieve(c) ==
  /\ stage[c] = "retrieval"
  /\ Step(c)
  /\ Enter(c, AfterRetrieval(c))
  /\ UNCHANGED <<requests, ran, results, prompt, response>>

NextRequest(c) == requests[c][Len(ran[c]) + 1]

ToolCall(c, outcome) ==
  /\ stage[c] = "tools" /\ Len(ran[c]) < Len(requests[c])
  /\ ran' = [ran EXCEPT ![c] = Append(@,
               [name |-> NextRequest(c), tenant |-> tenant[c], outcome |-> outcome])]
  /\ UNCHANGED <<stage, requests, prompt, response, stored, edges>>
  /\ UNCHANGED <<pc, tenant, matches, items, began>>

ToolAnswers(c) ==
  /\ ToolCall(c, "ok") /\ NextRequest(c) \in Names
  /\ results' = [results EXCEPT ![c] = Append(@,
                   [name |-> NextRequest(c), tool |-> get(NextRequest(c))])]

\* Mutants: a failure keeps the place of a result; a failure starts
\* the tool stage over.
ToolFails_Placeholder(c) ==
  /\ \/ ToolCall(c, "not_found") /\ NextRequest(c) \notin Names
     \/ ToolCall(c, "error") /\ NextRequest(c) \in Names /\ "tool" \in TurnMayFail
  /\ results' = [results EXCEPT ![c] = Append(@, [name |-> NextRequest(c), tool |-> "none"])]
ToolFails_StartOver(c) ==
  /\ stage[c] = "tools" /\ Len(ran[c]) < Len(requests[c]) /\ "tool" \in TurnMayFail
  /\ ran' = [ran EXCEPT ![c] = <<>>]
  /\ results' = [results EXCEPT ![c] = <<>>]
  /\ UNCHANGED <<stage, requests, prompt, response, stored, edges>>
  /\ UNCHANGED <<pc, tenant, matches, items, began>>

(* A name that is not registered, or a tool's own error: logged, and the   *)
(* turn goes on without the result.                                        *)
ToolFails(c) ==
  /\ \/ ToolCall(c, "not_found") /\ NextRequest(c) \notin Names
     \/ ToolCall(c, "error") /\ NextRequest(c) \in Names /\ "tool" \in TurnMayFail
  /\ UNCHANGED results

ToolsDone(c) ==
  /\ stage[c] = "tools" /\ Len(ran[c]) = Len(requests[c])
  /\ Enter(c, "build")
  /\ UNCHANGED <<requests, ran, results, prompt, response, stored, edges>>
  /\ UNCHANGED <<pc, tenant, matches, items, began>>

Instructions == [role |-> "System", about |-> "instructions"]
Question == [role |-> "User", about |-> "question"]

(* One line for each retrieved item: the chunk and how many edges it has.  *)
Reference(found) == [role |-> "Data", about |-> "retrieved", lines |-> found]

ToolOutput(r) == [role |-> "Data", about |-> "tool", result |-> r]

Messages(c) ==
  <<Instructions, Question>>
    \o (IF items[c] = <<>> THEN <<>> ELSE <<Reference(items[c])>>)
    \o [i \in DOMAIN results[c] |-> ToolOutput(results[c][i])]

Build(c) ==
  /\ stage[c] = "build"
  /\ prompt' = [prompt EXCEPT ![c] = Messages(c)]
  /\ Enter(c, "completion")
  /\ UNCHANGED <<requests, ran, results, response, stored, edges>>
  /\ UNCHANGED <<pc, tenant, matches, items, began>>

Answer(c) ==
  /\ stage[c] = "completion"
  /\ response' = [response EXCEPT ![c] = items[c]]
  /\ Enter(c, "answered")
  /\ UNCHANGED <<requests, ran, results, prompt, stored, edges>>
  /\ UNCHANGED <<pc, tenant, matches, items, began>>

(* The completion's error is the turn's error.                             *)
CompletionFails(c) ==
  /\ stage[c] = "completion" /\ "complete" \in TurnMayFail
  /\ Enter(c, "failed")
  /\ UNCHANGED <<requests, ran, results, prompt, response, stored, edges>>
  /\ UNCHANGED <<pc, tenant, matches, items, began>>

(* The caller's future is dropped at an await: of the retrieval, of a tool *)
(* or of the completion.                                                   *)
TurnDrop(c) ==
  /\ \/ stage[c] = "retrieval" /\ Drop(c)
     \/ /\ stage[c] \in {"tools", "completion"}
        /\ UNCHANGED <<stored, edges, pc, tenant, matches, items, began>>
  /\ Enter(c, "idle")
  /\ ran' = [ran EXCEPT ![c] = <<>>]
  /\ results' = [results EXCEPT ![c] = <<>>]
  /\ prompt' = [prompt EXCEPT ![c] = <<>>]
  /\ UNCHANGED <<requests, response>>

Advance(c) ==
  \/ Retrieve(c) \/ ToolAnswers(c) \/ ToolFails(c) \/ ToolsDone(c)
  \/ Build(c) \/ Answer(c) \/ CompletionFails(c)

TurnWrite == Write /\ UNCHANGED turnVars

TurnNext ==
  /\ \/ \E c \in Tasks, t \in Tenants, wanted \in ToolRequests : run_turn(c, t, wanted)
     \/ \E c \in Tasks : Advance(c) \/ TurnDrop(c)
     \/ TurnWrite
  /\ UNCHANGED supports_traversal

TurnSpec == TurnInit /\ [][TurnNext]_allVars

(* The runtime polls a turn until it ends.                                 *)
TurnFairSpec ==
  TurnSpec /\ \A c \in Tasks : WF_allVars(Advance(c) /\ UNCHANGED supports_traversal)

-----------------------------------------------------------------------------
(* Correctness.                                                            *)

(* The turn's stages and the retrieval's agree, and what a later stage     *)
(* produces is not there before it.                                        *)
TurnTypeOK ==
  /\ stage \in [Tasks -> TurnEnded \cup Underway]
  /\ \A c \in Tasks :
       /\ stage[c] = "retrieval" <=> pc[c] \in {"search", "traverse"}
       /\ stage[c] \in {"tools", "build", "completion", "answered"} => pc[c] = "done"
       /\ Len(results[c]) <= Len(ran[c]) /\ Len(ran[c]) <= Len(requests[c])
       /\ stage[c] \in {"idle", "retrieval"} => ran[c] = <<>>
       /\ prompt[c] # <<>> => stage[c] \in {"completion", "answered", "failed"}

(* Neither a tool nor the model is called before the whole retrieval has   *)
(* succeeded for a tenant that may read (genai_loop.rs:77-80; the test     *)
(* unauthorized_ctx_is_rejected_before_any_llm_call).                      *)
RetrievalFirst ==
  \A c \in Tasks :
    ran[c] # <<>> \/ prompt[c] # <<>> =>
      /\ pc[c] = "done" /\ tenant[c] \in Readers
      /\ Len(items[c]) = Len(matches[c])

(* The elements of s at the positions in P, in the order of s.             *)
At(s, P) ==
  LET taken[i \in 0..Len(s)] ==
        IF i = 0 THEN <<>>
        ELSE IF i \in P THEN Append(taken[i - 1], s[i]) ELSE taken[i - 1]
  IN  taken[Len(s)]

Answered(calls) == At(calls, {i \in 1..Len(calls) : calls[i].outcome = "ok"})
Outputs(messages) == At(messages, {i \in 1..Len(messages) : messages[i].about = "tool"})

(* The model is given the output of exactly the tools that answered, in    *)
(* the order they were requested: a failed or unknown tool costs its own   *)
(* output and nothing else (genai_loop.rs:84-92, 129-136).                 *)
FailedToolsCostNothingElse ==
  \A c \in Tasks :
    prompt[c] # <<>> =>
      LET answered == Answered(ran[c])
          outputs == Outputs(prompt[c])
      IN  /\ Len(ran[c]) = Len(requests[c])
          /\ \A i \in DOMAIN ran[c] : ran[c][i].name = requests[c][i] /\ ran[c][i].tenant = tenant[c]
          /\ Len(outputs) = Len(answered)
          /\ \A i \in DOMAIN outputs : outputs[i].result.name = answered[i].name

(* A turn ends, whatever is written meanwhile and whichever calls fail.    *)
TurnsEnd == \A c \in Tasks : stage[c] \in Underway ~> stage[c] \in TurnEnded
=============================================================================
